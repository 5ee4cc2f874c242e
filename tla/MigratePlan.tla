----------------------------- MODULE MigratePlan -----------------------------
(***************************************************************************)
(* build_plan: the actions of a migration and their order, for any         *)
(* manifest, and what becomes of entries and references when they are      *)
(* carried out, run after run, on a tree in which an entry may lie inside  *)
(* another.  A run may be killed between an action and its line in the     *)
(* journal, and a rewrite may fail.                                        *)
(***************************************************************************)
EXTENDS Integers, FiniteSets, SequencesExt

CONSTANTS
  Keys,       \* possible keys of [map]
  KeyOrder,   \* the same, in the order their names sort
  Parent,     \* [Keys -> Keys \cup {"~"}]: the entry a key lies in
  Loose,      \* keys that are files; the others are directories
  Buckets,    \* BUCKET_ORDER
  Places,     \* possible values of [map]
  BucketOf,   \* [Places -> Range(Buckets)]
  OwnRepo,    \* the value that is home-tidy's own repository
  LiesIn,     \* by file or link with a reference: the entry it is in, or "~" where it is
              \* in one of the roots the manifest lists
  NamesKey,   \* the entry it names
  Links,      \* those of them that are symbolic links
  Relative,   \* the links with a relative target, out of the entry and such that it is never
              \* the same from the new place to the new place
  Tracked,    \* the files and links under git in the directory they move with
  MaxRuns     \* bound on runs of the migration

Refs == DOMAIN LiesIn
Nested == {k \in Keys : Parent[k] # "~"}

ASSUME PlanConstants ==
  /\ KeyOrder \in Seq(Keys) /\ Range(KeyOrder) = Keys /\ IsInjective(KeyOrder)
  /\ Parent \in [Keys -> Keys \cup {"~"}] /\ "~" \notin Keys
  /\ \A k \in Nested : Parent[k] \in Keys \ Loose /\ Parent[Parent[k]] = "~"
  /\ Loose \subseteq Keys /\ Buckets \in Seq(STRING) /\ IsInjective(Buckets)
  /\ BucketOf \in [Places -> Range(Buckets)] /\ OwnRepo \in Places
  /\ Places \cap {"home", "absent", "inside", "lost"} = {} /\ IsFiniteSet(Refs)
  /\ Range(LiesIn) \subseteq (Keys \ Loose) \cup {"~"}
  /\ NamesKey \in [Refs -> Keys] /\ Links \subseteq Refs /\ Relative \subseteq Links
  /\ Tracked \subseteq {f \in Refs : LiesIn[f] # "~"} /\ MaxRuns \in Nat
  /\ \A f \in Relative : NamesKey[f] # LiesIn[f]

VARIABLES
  map,     \* the manifest's [map]: [a subset of Keys -> Places]
  at,      \* [Keys -> "home", "absent", "inside" its moved parent, "lost", a place]
  blocked, \* places that something else holds
  needy,   \* files with a reference the rewriter would change
  bridges, \* keys whose old path holds a bridge
  done,    \* migration.jsonl: the actions journaled as done ...
  failed,  \* ... and the files and links whose rewrite is journaled as failed
  plan, errors,
  clean,   \* nothing has failed in this run
  pc,      \* "idle", "acting", "journal", "stopped", "failed", "refused", "over"
  runs

disk == <<at, blocked, needy, bridges>>
kept == <<done, failed>>
vars == <<map, disk, kept, plan, errors, clean, pc, runs>>

Mapped == DOMAIN map
Maps == UNION {[K -> Places] : K \in SUBSET Keys}

(***************************************************************************)
(* build_plan.                                                             *)
(***************************************************************************)

Position(s, x) == CHOOSE i \in DOMAIN s : s[i] = x
Before(a, b) == Position(KeyOrder, a) < Position(KeyOrder, b)

\* The sort key of a flat entry.
Own(k) == IF map[k] = OwnRepo THEN 1 ELSE 0
BucketRank(k) == Position(Buckets, BucketOf[map[k]])

Sorts(a, b) == \/ Own(a) < Own(b)
               \/ Own(a) = Own(b) /\ BucketRank(a) < BucketRank(b)
               \/ Own(a) = Own(b) /\ BucketRank(a) = BucketRank(b) /\ Before(a, b)

\* Mutant: all entries in the order of their buckets.
BuggyPrecedes(a, b) == Sorts(a, b)

\* Nested entries are hoisted before everything flat.
Precedes(a, b) == \/ a \in Nested /\ b \notin Nested
                  \/ a \in Nested /\ b \in Nested /\ Before(a, b)
                  \/ a \notin Nested /\ b \notin Nested /\ Sorts(a, b)

\* sorted: at place i the entry that i - 1 others precede.
EntryOrder == [i \in 1..Cardinality(Mapped) |->
  CHOOSE k \in Mapped : Cardinality({j \in Mapped : Precedes(j, k)}) = i - 1]

Step(p, x) == [phase |-> p, item |-> x]
Steps(p, s) == [i \in DOMAIN s |-> Step(p, s[i])]
HasMoved(k) == Step("move", k) \in done

\* Mutant: the journal is not looked at.
BuggyPreflight == {k \in Mapped : at[k] # "home" \/ map[k] \in blocked \cup Range(at)}
\* Entries without a source or with a destination already there.
Preflight == {k \in Mapped : ~HasMoved(k) /\ (at[k] # "home" \/ map[k] \in blocked \cup Range(at))}

\* Mutant: the shortest key first.
BuggyGoverns(k) == IF k \in Nested /\ Parent[k] \in Mapped THEN {Parent[k]} ELSE {k} \cap Mapped

\* The keys are tried from the longest on: what a path below k is rewritten for.
Governs(k) == IF k \in Mapped THEN {k} ELSE {Parent[k]} \cap Mapped

\* A file in a directory that moves is looked at where it is when the plan is made.
\* At its old path a bridge is found before the directory it leads to, and passed over.
Locatable(g) == at[g] = "home" \/ (HasMoved(g) /\ at[g] = map[g] /\ g \notin bridges)
Inspected(f) == LiesIn[f] = "~" \/ \E g \in Governs(LiesIn[f]) \ Loose : Locatable(g)

\* A relative target is followed from there: out of a directory that has moved already it
\* leads nowhere; out of one that is to move it changes though its target stays.
Changes(f) == IF f \in Relative /\ LiesIn[f] # "~"
              THEN \A g \in Governs(LiesIn[f]) : at[g] = "home"
              ELSE Governs(NamesKey[f]) # {}
Rewrites == {f \in needy : Inspected(f) /\ Changes(f)}

\* Mutant: what an earlier run has rewritten is not merged into the commits.
BuggyCommitted(f) == f \in Rewrites \cap Tracked

\* A tracked file, not a link, that this run rewrites, or any that an earlier one has
\* journaled (_merge_journaled): its repository is to be committed.
Committed(f) == f \in Rewrites \cap Tracked \/ Step("rewrite", f) \in done
ReposOf(f) == {k \in Governs(LiesIn[f]) : BucketOf[map[k]] \in {"src", "vendor"}}
Repos == UNION {ReposOf(f) : f \in {g \in Refs \ Links : LiesIn[g] # "~" /\ Committed(g)}}

Bridged(k) == /\ k \notin Nested /\ k \notin Loose
              /\ BucketOf[map[k]] \notin {"inbox", "archive"}

AnyOrder(S) == SetToSeq(S)
RewriteSteps == Steps("rewrite", AnyOrder(Rewrites \ Links))
                \o Steps("link", AnyOrder(Rewrites \cap Links))
Commits == IF Repos = {} THEN <<>>
           ELSE Steps("commit", AnyOrder(Repos)) \o Steps("push", AnyOrder(Repos))
                \o <<Step("ci-summary", "-")>>

\* What the plan is made of, in its order (the backup, the environment, the hooks and the
\* commands of the manifest left out).
Actions == Steps("move", EntryOrder) \o RewriteSteps \o Commits
           \o Steps("bridge", AnyOrder({k \in Mapped : Bridged(k)}))
           \o <<Step("bridges-record", "-"), Step("verify", "with-bridges"),
                Step("verify", "bridgeless")>>

(***************************************************************************)
(* Runs: apply_plan over the plan, again and again.                        *)
(***************************************************************************)
Init ==
  /\ map \in Maps
  /\ at \in {f \in [Keys -> {"home", "absent"}] :
                \A k \in Nested : f[Parent[k]] = "absent" => f[k] = "absent"}
  /\ blocked \in {{}, {OwnRepo}}
  /\ needy = Refs /\ bridges = {} /\ done = {} /\ failed = {}
  /\ plan = <<>> /\ errors = {} /\ clean = TRUE /\ pc = "idle" /\ runs = 0

\* A refused plan would be refused again.
BuildPlan ==
  /\ pc \in {"idle", "stopped", "failed", "over"} /\ runs < MaxRuns
  /\ runs' = runs + 1 /\ errors' = Preflight /\ clean' = TRUE
  /\ IF Preflight # {} THEN pc' = "refused" /\ plan' = <<>>
     ELSE pc' = "acting" /\ plan' = Actions
  /\ UNCHANGED <<map, disk, kept>>

Next1 == plan[1]
Following == plan' = Tail(plan)

\* Never journaled: executed again by every run.
AlwaysRerun == {"commit", "push", "ci-summary", "verify"}

Skip == /\ pc = "acting" /\ plan # <<>> /\ Next1 \in done /\ Next1.phase \notin AlwaysRerun
        /\ Following
        /\ UNCHANGED <<map, disk, kept, errors, clean, pc, runs>>

Due(phases) == pc = "acting" /\ plan # <<>> /\ Next1 \notin done /\ Next1.phase \in phases

\* os.rename of a tree takes along what has not left it, replaces a file by a file, and
\* raises on any other occupant and on a source that is not there.
Occupants(p) == {k \in Keys : at[k] = p}
Collides(k) == \/ at[k] # "home" \/ map[k] \in blocked
               \/ Occupants(map[k]) # {} /\ ~({k} \cup Occupants(map[k]) \subseteq Loose)
Moved(k) == [j \in Keys |-> IF j = k THEN map[k]
                            ELSE IF Parent[j] = k /\ at[j] = "home" THEN "inside"
                            ELSE IF at[j] = map[k] THEN "lost" ELSE at[j]]

MoveEntry == /\ Due({"move"}) /\ ~Collides(Next1.item)
             /\ at' = Moved(Next1.item) /\ pc' = "journal"
             /\ UNCHANGED <<map, blocked, needy, bridges, kept, plan, errors, clean, runs>>

MoveFails == /\ Due({"move"}) /\ Collides(Next1.item)
             /\ pc' = "failed"
             /\ UNCHANGED <<map, disk, kept, plan, errors, clean, runs>>

Rewrite == /\ Due({"rewrite", "link"})
           /\ needy' = needy \ {Next1.item} /\ pc' = "journal"
           /\ UNCHANGED <<map, at, blocked, bridges, kept, plan, errors, clean, runs>>

\* A file that cannot be written is journaled as failed, and the run goes on.
RewriteFails == /\ Due({"rewrite", "link"})
                /\ failed' = failed \cup {Next1.item} /\ clean' = FALSE /\ Following
                /\ UNCHANGED <<map, disk, done, errors, pc, runs>>

Bridge == /\ Due({"bridge"})
          /\ bridges' = bridges \cup {Next1.item} /\ pc' = "journal"
          /\ UNCHANGED <<map, at, blocked, needy, kept, plan, errors, clean, runs>>

RecordBridges == /\ Due({"bridges-record"}) /\ pc' = "journal"
                 /\ UNCHANGED <<map, disk, kept, plan, errors, clean, runs>>

\* Commits, pushes and the suite (module Migrate has what they do): each may fail, and the
\* suite without bridges drops these if it is clean.
Rerun == /\ Due(AlwaysRerun)
         /\ \/ bridges' = bridges /\ clean' \in {clean, FALSE}
            \/ Next1 = Step("verify", "bridgeless") /\ bridges' = {} /\ clean' = clean
         /\ Following
         /\ UNCHANGED <<map, at, blocked, needy, kept, errors, pc, runs>>

\* The action has its line in the journal.
Journal == /\ pc = "journal"
           /\ done' = done \cup {Next1} /\ pc' = "acting" /\ Following
           /\ UNCHANGED <<map, disk, failed, errors, clean, runs>>

\* Without failures the migration is complete.
Finish == /\ pc = "acting" /\ plan = <<>>
          /\ pc' = IF clean THEN "over" ELSE "stopped"
          /\ UNCHANGED <<map, disk, kept, plan, errors, clean, runs>>

\* A kill, before an action or between an action and its line in the journal; or an action
\* that cannot be carried out for another reason (a permission, a full disk).
Interrupt == /\ pc \in {"acting", "journal"} /\ pc' = "stopped"
             /\ UNCHANGED <<map, disk, kept, plan, errors, clean, runs>>

Next == \/ BuildPlan \/ Skip \/ MoveEntry \/ MoveFails \/ Rewrite \/ RewriteFails
        \/ Bridge \/ RecordBridges \/ Rerun \/ Journal \/ Finish \/ Interrupt
Spec == Init /\ [][Next]_vars

-----------------------------------------------------------------------------
SharedPlace == \E j, k \in Mapped : j # k /\ map[j] = map[k]

\* A plan without errors can be carried out, whatever the manifest nests in what: no
\* move meets a missing source or an occupied destination, unless the manifest sends
\* two entries to one place.
MovesSucceed == pc = "failed" => SharedPlace

\* Renamed, and killed before the line in the journal.
Unrecorded == {k \in Mapped : at[k] = map[k] /\ ~HasMoved(k)}
Underway == done # {} \/ Unrecorded # {}

\* Wherever a migration is cut short, the next plan finds nothing wrong but the one entry,
\* if any, whose rename was cut from its line in the journal.
ResumesClean == Underway =>
  \/ Preflight = Unrecorded /\ \A j, k \in Unrecorded : j = k
  \/ SharedPlace

\* No entry is lost under another or left inside a parent that has moved away.
NothingMislaid == \A k \in Mapped : at[k] \in {"inside", "lost"} => SharedPlace

\* Where what a reference says now leads: it names the old path, or the new one of the
\* entry it was rewritten for.
Leads(f) ==
  LET k == NamesKey[f] IN
  IF f \in needy
  THEN at[k] = "home" /\ (f \in Relative /\ LiesIn[f] # "~" => at[LiesIn[f]] = "home")
  ELSE \/ Governs(k) = {} /\ at[k] = "home"
       \/ \E g \in Governs(k) : at[g] = map[g] /\ (g # k => at[k] = "inside")

\* Whose references the migration looks after: those in the listed roots and in what moves.
LookedAfter(f) == LiesIn[f] = "~" \/ Governs(LiesIn[f]) # {}
Settled == pc = "over" /\ ~SharedPlace

\* A relative link in an entry: once that has moved, the link is followed from the wrong place.
Adrift(f) == f \in Relative /\ LiesIn[f] # "~"

\* A file whose rewrite failed, in a directory that got its bridge all the same: a later
\* plan comes upon the bridge and does not look behind it.
BehindBridge(f) == f \in failed /\ LiesIn[f] # "~" /\ \E g \in Governs(LiesIn[f]) : Bridged(g)

\* After a migration, however often it was cut short or failed to write a file, whatever
\* names an entry names it where it is, also one that was taken out of an entry, or along
\* with one; a relative link in an entry does if there was one run, and a file behind a
\* bridge if it was rewritten at the first attempt.
ReferencesFollow == Settled =>
  \A f \in Refs : /\ LookedAfter(f) /\ at[NamesKey[f]] # "absent"
                  /\ Adrift(f) => runs = 1
                  /\ ~BehindBridge(f)
                  => Leads(f)

\* The phases of a plan in their order.
Turn(a) == CASE a.phase = "move" -> 1
             [] a.phase \in {"rewrite", "link"} -> 2
             [] a.phase = "commit" -> 3
             [] a.phase = "push" -> 4
             [] a.phase = "ci-summary" -> 5
             [] a.phase = "bridge" -> 6
             [] a.phase = "bridges-record" -> 7
             [] a.phase = "verify" /\ a.item = "with-bridges" -> 8
             [] OTHER -> 9

\* What Migrate assumes of a plan, at any moment of any run, resumed or not: no action twice
\* and all in the order of their phases; each entry has moved, or its move is in the plan;
\* each flat directory that stays in use has its bridge, or it is in the plan, and no other
\* is; a tracked file that was rewritten, or is to be, is in a repository still to be
\* committed; and the suite comes last.
PlanIsAsAssumed == pc \in {"acting", "journal"} =>
   /\ IsInjective(plan)
   /\ \A i, j \in DOMAIN plan : i < j => Turn(plan[i]) <= Turn(plan[j])
   /\ \A i \in DOMAIN plan : /\ plan[i].phase = "move" => plan[i].item \in Mapped
                             /\ plan[i].phase = "bridge" => Bridged(plan[i].item)
   /\ \A k \in Mapped : Step("move", k) \in done \cup Range(plan)
   /\ \A k \in Mapped : Bridged(k) => Step("bridge", k) \in done \cup Range(plan)
   /\ plan # <<>> /\ Turn(Next1) <= 2 =>
        \A f \in Tracked \ Links : Step("rewrite", f) \in done \cup Range(plan)
           => \A k \in ReposOf(f) : Step("commit", k) \in Range(plan)
   /\ plan # <<>> => Last(plan) = Step("verify", "bridgeless")

\* The link that a resumed migration forgets (_home_tidy_refs.py:160-161: "relative targets
\* are recomputed from there").
LinksFollow == Settled =>
  \A f \in Relative : LookedAfter(f) /\ at[NamesKey[f]] # "absent" /\ ~BehindBridge(f) => Leads(f)

\* The file that a resumed migration does not look at (_home_tidy_apply.py:3-6: any failure
\* leaves "a resumable state"; "Files are inspected where they are *now*").
FailuresAreRetried == Settled =>
  \A f \in Refs : LookedAfter(f) /\ at[NamesKey[f]] # "absent" /\ ~Adrift(f) => Leads(f)

\* Entries move in the order of their buckets, home-tidy's own repository last.
LeastCoupledFirst == \A i, j \in DOMAIN plan :
   /\ plan[i].phase = "move" /\ plan[j].phase = "move" /\ i < j
   => Own(plan[i].item) <= Own(plan[j].item)
      /\ (Own(plan[i].item) = Own(plan[j].item)
            => BucketRank(plan[i].item) <= BucketRank(plan[j].item))
=============================================================================
