------------------------------ MODULE Migrate -------------------------------
(***************************************************************************)
(* `home_tidy.py migrate --apply': the journaled one-shot reorganisation   *)
(* of the home directory.  A run re-plans from the disk and the journal,   *)
(* takes the lock, and walks the plan; every hard action is journaled      *)
(* after its effect, so a process that dies in between leaves the one      *)
(* without the other.  The journal, the lock, the manifest's [bridges]     *)
(* section and the disk survive a run; the rest is process memory.         *)
(***************************************************************************)
EXTENDS Integers, Sequences

CONSTANTS
  Entries,    \* keys of the manifest's [map]
  Files,      \* files and links that spell the path of an entry
  Links,      \* those of them that are symbolic links
  Projects,   \* Claude per-project memory directories named after an entry
  Target,     \* [Files -> Entries]: the entry a file refers to
  InDir,      \* [Files -> Entries \cup {"config"}]: the entry a file lives in
  Tracked,    \* files under git in a src/ or vendor/ entry
  Watched,    \* files whose references the verify suite exercises
  Resurrected,\* entries whose old path an outside tool may make again
  Bridged,    \* flat directory entries outside inbox/ and archive/
  Plan,       \* every action a run of this manifest may execute, in order
  MaxFaults   \* bound on crashes, failures and outside interference

Phases == {"backup", "xdg", "env", "hook-before", "move", "rewrite", "link",
           "project", "cmd", "restart", "commit", "push", "ci-summary", "bridge",
           "bridges-record", "verify"}
Items == Entries \cup Files \cup Projects \cup {"-", "with-bridges", "bridgeless"}
Ids == [phase : Phases, item : Items]
Id(p, x) == [phase |-> p, item |-> x]

\* Phases of equal rank interleave freely: an entry's hook precedes its move.
Rank == [p \in Phases |->
           CASE p = "backup" -> 0          [] p = "xdg" -> 1
             [] p = "env" -> 2             [] p \in {"hook-before", "move"} -> 3
             [] p \in {"rewrite", "link"} -> 4 [] p = "project" -> 5
             [] p = "cmd" -> 6             [] p = "restart" -> 7
             [] p = "commit" -> 8          [] p = "push" -> 9
             [] p = "ci-summary" -> 10     [] p = "bridge" -> 11
             [] p = "bridges-record" -> 12 [] p = "verify" -> 13]

ASSUME ConstantsAssumption ==
  /\ Target \in [Files -> Entries]
  /\ InDir \in [Files -> Entries \cup {"config"}]
  /\ Links \subseteq Files
  /\ Tracked \subseteq {f \in Files : InDir[f] \in Entries}
  /\ Watched \subseteq Files
  /\ Bridged \subseteq Entries
  /\ Resurrected \subseteq Entries
  /\ MaxFaults \in Nat

\* What build_plan guarantees of the plans it returns (module MigratePlan).
ASSUME PlanAssumption ==
  /\ Plan \in Seq(Ids)
  /\ \A i, j \in 1..Len(Plan) : Plan[i] = Plan[j] => i = j
  /\ \A i, j \in 1..Len(Plan) : Rank[Plan[i].phase] < Rank[Plan[j].phase] => i < j
  /\ \A i \in 1..Len(Plan) :
        /\ Plan[i].phase \in {"move", "commit", "push"} => Plan[i].item \in Entries
        /\ Plan[i].phase = "bridge" => Plan[i].item \in Bridged
        /\ Plan[i].phase = "bridges-record" => Plan[i].item = "-"
        /\ Plan[i].phase = "rewrite" => Plan[i].item \in Files \ Links
        /\ Plan[i].phase = "link" => Plan[i].item \in Links
        /\ Plan[i].phase = "project" => Plan[i].item \in Projects
        /\ Plan[i].phase = "verify" => Plan[i].item \in {"with-bridges", "bridgeless"}
  /\ \A e \in Entries : \E i \in 1..Len(Plan) : Plan[i] = Id("move", e)
  /\ \A e \in Bridged : \E i \in 1..Len(Plan) : Plan[i] = Id("bridge", e)
  /\ \A f \in Tracked \ Links : \E i \in 1..Len(Plan) : Plan[i] = Id("commit", InDir[f])
  /\ \E i \in 1..Len(Plan) : Plan[i] = Id("verify", "bridgeless")

(***************************************************************************)
(* A definition named Buggy... is the definition below it with a plausible *)
(* bug; nothing uses it, and one of them breaks each property.             *)
(***************************************************************************)

\* A failure in one of these is reported at the end of the run.
ContinueOnFail == {"commit", "push", "rewrite", "link"}
\* Never journaled: executed again by every run.
AlwaysRerun == {"commit", "push", "verify", "ci-summary"}

VARIABLES
  root,      \* [Entries -> ...]: what the old path ~/<e> holds
  bucket,    \* [Entries -> ...]: what the new path ~/<bucket>/<e> holds
  parked,    \* entries whose bridge symlink is at ~/.<e>.bridge
  refs,      \* [Files -> ...]: which path a file spells, and if it is committed
  stale,     \* project directories still under their old name
  done,      \* migration.jsonl: ids journaled as done
  moved,     \* migration-moves.jsonl: entries recorded as moved
  lock,      \* whether migrate.lock is there
  recorded,  \* [bridges].paths of the manifest
  pc, cur,   \* the process: its step, and the index of the current action
  skip,      \* the journal as it was when the plan was built
  planned,   \* files and project directories the planner found to change
  todo,      \* entries the current loop over the bridges has still to visit
  outcome,   \* what the verify suite last said
  failures,  \* ctx.failures: what the run reports at its end
  mode,      \* "apply" or "dry-run": how the last run was started
  exit,      \* how the last run ended
  faults     \* crashes, failures and interference so far

disk == <<root, bucket, parked, refs, stale>>
kept == <<done, moved, lock, recorded>>
memory == <<skip, planned, todo, outcome, failures, mode>>
vars == <<disk, kept, pc, cur, memory, exit, faults>>

Now == Plan[cur]
End == Len(Plan) + 1

Init ==
  /\ root = [e \in Entries |-> "data"]
  /\ bucket = [e \in Entries |-> "none"]
  /\ parked = {}
  /\ refs = [f \in Files |-> "old"]
  /\ stale = Projects
  /\ done = {} /\ moved = {} /\ lock = "absent" /\ recorded = {}
  /\ pc = "idle" /\ cur = 1
  /\ skip = {} /\ planned = {} /\ todo = {}
  /\ outcome = "not run" /\ failures = {} /\ mode = "apply"
  /\ exit = "never run"
  /\ faults = 0

(***************************************************************************)
(* Planning: read_journal and build_plan, both read-only.                  *)
(***************************************************************************)

\* _preflight: entries the plan cannot move.  One already journaled is skipped.
Errors == {e \in Entries : /\ Id("move", e) \notin done
                           /\ root[e] = "none" \/ bucket[e] # "none"}

\* locate(): the old path if anything is there (a bridge is), else the new one.
Locate(e) == IF root[e] # "none" THEN "root"
             ELSE IF Id("move", e) \in done THEN "bucket" ELSE "nowhere"

\* moved_dirs(): the planner reads the files of an entry it finds as a real
\* directory; a bridge symlink is not one.
Scanned(e) == \/ Locate(e) = "root" /\ root[e] = "data"
              \/ Locate(e) = "bucket" /\ bucket[e] = "data"

NeedsRewrite(f) == /\ refs[f] = "old"
                   /\ InDir[f] = "config" \/ Scanned(InDir[f])

BuildPlan(m) ==
  /\ pc = "idle" /\ Errors = {}
  /\ pc' = "planned"
  /\ skip' = done
  /\ planned' = {f \in Files : NeedsRewrite(f)} \cup stale
  /\ mode' = m
  /\ exit' = "running"
  /\ UNCHANGED <<disk, kept, cur, todo, outcome, failures, faults>>

Refuse == /\ pc = "idle" /\ Errors # {}
          /\ exit' = "refused"
          /\ UNCHANGED <<disk, kept, pc, cur, memory, faults>>

\* A mount point below an entry, or root commands without `sudo -n'.
Unable == /\ pc = "idle" /\ faults < MaxFaults
          /\ exit' = "refused" /\ faults' = faults + 1
          /\ UNCHANGED <<disk, kept, pc, cur, memory>>

\* Files rewritten by an earlier run are forgotten.
BuggyCandidates(e) == {f \in Tracked \ Links : InDir[f] = e /\ f \in planned}

\* repo_changes of the repository e: files this run rewrites, and files an
\* earlier run has journaled (_merge_journaled).  A retargeted link is neither.
Candidates(e) == {f \in Tracked \ Links :
                     /\ InDir[f] = e
                     /\ f \in planned \/ Id("rewrite", f) \in skip}

InPlan(a) ==
  CASE a.phase \in {"rewrite", "link", "project"} -> a.item \in planned
    [] a.phase \in {"commit", "push"} -> Candidates(a.item) # {}
    [] a.phase = "ci-summary" -> \E e \in Entries : Candidates(e) # {}
    [] OTHER -> TRUE

(***************************************************************************)
(* apply_plan: the lock, the loop over the actions, and its ends.          *)
(***************************************************************************)

TakeLock == /\ pc = "planned"
            /\ lock' = "present"
            /\ pc' = "loop"
            /\ UNCHANGED <<disk, done, moved, recorded, cur, memory, exit, faults>>

AtAction == pc = "loop" /\ cur < End
\* The journal is not consulted.
BuggyPassesOver(a) == ~InPlan(a)

PassesOver(a) == \/ ~InPlan(a)
                 \/ a \in skip /\ a.phase \notin AlwaysRerun

SkipAction == /\ AtAction /\ PassesOver(Now)
              /\ cur' = cur + 1
              /\ UNCHANGED <<disk, kept, pc, memory, exit, faults>>

\* The action at hand is to be executed, for real.
Due(p) == AtAction /\ Now.phase = p /\ ~PassesOver(Now) /\ mode = "apply"

\* With --dry-run an action is logged, and neither executed nor journaled.
Pretend == /\ AtAction /\ ~PassesOver(Now) /\ mode = "dry-run"
           /\ cur' = cur + 1
           /\ UNCHANGED <<disk, kept, pc, memory, exit, faults>>

\* The process is gone, and its memory with it; mode says how it was started.
Forget == /\ pc' = "idle" /\ cur' = 1
          /\ skip' = {} /\ planned' = {} /\ todo' = {}
          /\ outcome' = "not run" /\ failures' = {} /\ mode' = mode

\* The finally of apply_plan, then the process exits.
Leave(code) == /\ Forget
               /\ lock' = "absent"
               /\ exit' = code
               /\ UNCHANGED <<disk, done, moved, recorded>>

Journal == /\ pc = "journal"
           /\ done' = IF Now.phase \in AlwaysRerun THEN done ELSE done \cup {Now}
           /\ pc' = "loop" /\ cur' = cur + 1
           /\ UNCHANGED <<disk, moved, lock, recorded, memory, exit, faults>>

\* A dry run has no failures, so it prints "migration complete" as well.
Finish == /\ pc = "loop" /\ cur = End
          /\ Leave(IF failures # {} THEN "unresolved" ELSE "complete")
          /\ UNCHANGED faults

(***************************************************************************)
(* The executors.  Each ends in the step "journal".                        *)
(***************************************************************************)

\* Commands with no effect on the state kept here: backup, the XDG and
\* environment files, hooks, rebinds, restarts, git push and the CI summary.
Command ==
  /\ \E p \in {"backup", "xdg", "env", "hook-before", "cmd", "restart", "push",
               "ci-summary"} : Due(p)
  /\ pc' = "journal"
  /\ UNCHANGED <<disk, kept, cur, memory, exit, faults>>

\* _move: os.rename (mv -T as root) ...
CanRename(e) == root[e] # "none" /\ bucket[e] = "none"

\* The entry lands inside a directory of its name and not in its place.
BuggyRename == /\ Due("move") /\ CanRename(Now.item)
               /\ root' = [root EXCEPT ![Now.item] = "none"]
               /\ pc' = "renamed"
               /\ UNCHANGED <<bucket, parked, refs, stale, kept, cur, memory, exit, faults>>

Rename == /\ Due("move") /\ CanRename(Now.item)
          /\ bucket' = [bucket EXCEPT ![Now.item] = root[Now.item]]
          /\ root' = [root EXCEPT ![Now.item] = "none"]
          /\ pc' = "renamed"
          /\ UNCHANGED <<parked, refs, stale, kept, cur, memory, exit, faults>>

\* ... then append_moves to the migration's own moves journal.
RecordMove == /\ pc = "renamed"
              /\ moved' = moved \cup {Now.item}
              /\ pc' = "journal"
              /\ UNCHANGED <<disk, done, lock, recorded, cur, memory, exit, faults>>

\* apply_file and apply_link write to where the file is after the moves.
CanWrite(f) == InDir[f] # "config" => bucket[InDir[f]] = "data"

Rewrite == /\ Due("rewrite") \/ Due("link")
           /\ CanWrite(Now.item)
           /\ refs' = [refs EXCEPT ![Now.item] = "new"]
           /\ pc' = "journal"
           /\ UNCHANGED <<root, bucket, parked, stale, kept, cur, memory, exit, faults>>

RenameProject == /\ Due("project")
                 /\ stale' = stale \ {Now.item}
                 /\ pc' = "journal"
                 /\ UNCHANGED <<root, bucket, parked, refs, kept, cur, memory, exit, faults>>

\* pure_rewrites: a file with foreign changes is left out and reported.
Commit == /\ Due("commit")
          /\ LET ours == {f \in Candidates(Now.item) : refs[f] = "new"} IN
             \E S \in SUBSET ours :
                /\ S # ours => faults < MaxFaults
                /\ refs' = [f \in Files |-> IF f \in S THEN "committed" ELSE refs[f]]
                /\ failures' = IF S # ours THEN failures \cup {Now} ELSE failures
                /\ faults' = IF S # ours THEN faults + 1 ELSE faults
          /\ pc' = "journal"
          /\ UNCHANGED <<root, bucket, parked, stale, kept, cur, skip, planned, todo,
                         outcome, mode, exit>>

\* A symlink, unless something is already at the old path.
Bridge == /\ Due("bridge")
          /\ root' = IF root[Now.item] = "none"
                     THEN [root EXCEPT ![Now.item] = "bridge"] ELSE root
          /\ pc' = "journal"
          /\ UNCHANGED <<bucket, parked, refs, stale, kept, cur, memory, exit, faults>>

RecordBridges == /\ Due("bridges-record")
                 /\ recorded' = Bridged
                 /\ pc' = "journal"
                 /\ UNCHANGED <<disk, done, moved, lock, cur, memory, exit, faults>>

(***************************************************************************)
(* verify: run the suite, the second time with the bridges moved aside.    *)
(***************************************************************************)

Bridgeless == Now.item = "bridgeless"

Verify == /\ Due("verify")
          /\ IF Bridgeless THEN pc' = "park" /\ todo' = recorded
                           ELSE pc' = "suite" /\ todo' = {}
          /\ UNCHANGED <<disk, kept, cur, skip, planned, outcome, failures, mode, exit, faults>>

\* bridges_aside(True): only a symlink is renamed.
Park(e) == /\ pc = "park" /\ e \in todo
           /\ todo' = todo \ {e}
           /\ IF root[e] = "bridge"
                 THEN root' = [root EXCEPT ![e] = "none"] /\ parked' = parked \cup {e}
                 ELSE UNCHANGED <<root, parked>>
           /\ UNCHANGED <<bucket, refs, stale, kept, pc, cur, skip, planned, outcome,
                          failures, mode, exit, faults>>

\* The suite starts while bridges are still being moved aside.
BuggyAllParked == /\ pc = "park"
                  /\ pc' = "suite"
                  /\ UNCHANGED <<disk, kept, cur, memory, exit, faults>>

AllParked == /\ pc = "park" /\ todo = {}
             /\ pc' = "suite"
             /\ UNCHANGED <<disk, kept, cur, memory, exit, faults>>

\* The path the file spells leads to the entry's data.
Resolves(f) == LET e == Target[f] IN
               IF refs[f] = "old"
               THEN root[e] = "data" \/ (root[e] = "bridge" /\ bucket[e] = "data")
               ELSE bucket[e] = "data"

\* run_suite: a watched reference that does not resolve fails it; so may
\* anything else on the machine.
Suite == /\ pc = "suite"
         /\ \/ /\ \A f \in Watched : Resolves(f)
               /\ outcome' = "clean" /\ faults' = faults
            \/ /\ \E f \in Watched : ~Resolves(f)
               /\ outcome' = "failing" /\ faults' = faults
            \/ /\ faults < MaxFaults
               /\ outcome' = "failing" /\ faults' = faults + 1
         /\ IF Bridgeless THEN pc' = "unpark" /\ todo' = recorded
                          ELSE pc' = "verdict" /\ todo' = {}
         /\ UNCHANGED <<disk, kept, cur, skip, planned, failures, mode, exit>>

\* bridges_aside(False), in the finally of verify.
Unpark(e) == /\ pc = "unpark" /\ e \in todo
             /\ e \in parked => root[e] # "other"
             /\ todo' = todo \ {e}
             /\ parked' = parked \ {e}
             /\ root' = IF e \in parked THEN [root EXCEPT ![e] = "bridge"] ELSE root
             /\ UNCHANGED <<bucket, refs, stale, kept, pc, cur, skip, planned, outcome,
                            failures, mode, exit, faults>>

AllUnparked == /\ pc = "unpark" /\ todo = {}
               /\ pc' = "verdict"
               /\ UNCHANGED <<disk, kept, cur, memory, exit, faults>>

\* The bridges are dropped whatever the suite says.
BuggyVerdict == /\ pc = "verdict"
                /\ failures' = IF outcome = "failing" THEN failures \cup {Now} ELSE failures
                /\ pc' = IF Bridgeless /\ recorded # {} THEN "drop" ELSE "journal"
                /\ UNCHANGED <<disk, kept, cur, skip, planned, todo, outcome, mode, exit, faults>>

\* A failing suite is reported and keeps the bridges; a clean bridgeless one
\* drops them, if the manifest lists any.
Verdict == /\ pc = "verdict"
           /\ failures' = IF outcome = "failing" THEN failures \cup {Now} ELSE failures
           /\ pc' = IF outcome = "clean" /\ Bridgeless /\ recorded # {} THEN "drop" ELSE "journal"
           /\ UNCHANGED <<disk, kept, cur, skip, planned, todo, outcome, mode, exit, faults>>

\* write_bridges("", []) comes before the links are unlinked.
Drop == /\ pc = "drop"
        /\ todo' = recorded
        /\ recorded' = {}
        /\ pc' = "unlink"
        /\ UNCHANGED <<disk, done, moved, lock, cur, skip, planned, outcome, failures,
                       mode, exit, faults>>

Unlink(e) == /\ pc = "unlink" /\ e \in todo
             /\ todo' = todo \ {e}
             /\ root' = IF root[e] = "bridge" THEN [root EXCEPT ![e] = "none"] ELSE root
             /\ UNCHANGED <<bucket, parked, refs, stale, kept, pc, cur, skip, planned,
                            outcome, failures, mode, exit, faults>>

AllUnlinked == /\ pc = "unlink" /\ todo = {}
               /\ pc' = "journal"
               /\ UNCHANGED <<disk, kept, cur, memory, exit, faults>>

(***************************************************************************)
(* Failure: an exception in an executor, an exception outside one, death.  *)
(***************************************************************************)

\* The action cannot succeed in this state.
Blocked == \/ Due("move") /\ ~CanRename(Now.item)
           \/ (Due("rewrite") \/ Due("link")) /\ ~CanWrite(Now.item)
           \/ pc = "unpark" /\ \E e \in todo \cap parked : root[e] = "other"

Executing == \/ AtAction /\ ~PassesOver(Now) /\ mode = "apply"
             \/ pc \in {"renamed", "drop", "unlink"}

\* A failed move does not stop the run.
BuggyFail == /\ \/ Blocked /\ faults' = faults
                \/ Executing /\ faults < MaxFaults /\ faults' = faults + 1
             /\ IF Now.phase \in ContinueOnFail \cup {"move"}
                THEN /\ failures' = failures \cup {Now}
                     /\ pc' = "loop" /\ cur' = cur + 1
                     /\ UNCHANGED <<disk, kept, skip, planned, todo, outcome, mode, exit>>
                ELSE Leave("unresolved")

Fail == /\ \/ Blocked /\ faults' = faults
           \/ Executing /\ faults < MaxFaults /\ faults' = faults + 1
        /\ IF Now.phase \in ContinueOnFail
           THEN /\ failures' = failures \cup {Now}
                /\ pc' = "loop" /\ cur' = cur + 1
                /\ UNCHANGED <<disk, kept, skip, planned, todo, outcome, mode, exit>>
           ELSE Leave("unresolved")

\* Ctrl-C, or the journal itself cannot be written: no except clause, but the
\* finally releases the lock.
Interrupt == /\ pc \in {"loop", "renamed", "journal"} /\ faults < MaxFaults
             /\ faults' = faults + 1
             /\ Leave("unresolved")

\* A kill or a power cut: the lock file stays.
Crash == /\ pc # "idle" /\ faults < MaxFaults
         /\ faults' = faults + 1
         /\ Forget
         /\ exit' = "killed"
         /\ UNCHANGED <<disk, kept>>

(***************************************************************************)
(* The rest of the machine.                                                *)
(***************************************************************************)

\* A tool with a stale cache makes a directory at the old path of an entry.
Recreate(e) == /\ e \in Resurrected /\ root[e] = "none" /\ faults < MaxFaults
               /\ root' = [root EXCEPT ![e] = "other"]
               /\ faults' = faults + 1
               /\ UNCHANGED <<bucket, parked, refs, stale, kept, pc, cur, memory, exit>>

\* It is taken away again, by hand or by the sweep.
ClearAway(e) == /\ root[e] = "other"
                /\ root' = [root EXCEPT ![e] = "none"]
                /\ UNCHANGED <<bucket, parked, refs, stale, kept, pc, cur, memory, exit, faults>>

\* `git checkout' of a rewritten file that was never committed.
Revert(f) == /\ f \in Tracked /\ refs[f] = "new" /\ faults < MaxFaults
             /\ refs' = [refs EXCEPT ![f] = "old"]
             /\ faults' = faults + 1
             /\ UNCHANGED <<root, bucket, parked, stale, kept, pc, cur, memory, exit>>

Step == \/ TakeLock \/ SkipAction \/ Pretend \/ Journal \/ Finish
        \/ Command \/ Rename \/ RecordMove \/ Rewrite \/ RenameProject \/ Commit
        \/ Bridge \/ RecordBridges
        \/ Verify \/ AllParked \/ Suite \/ AllUnparked \/ Verdict \/ Drop \/ AllUnlinked
        \/ \E e \in Entries : Park(e) \/ Unpark(e) \/ Unlink(e)
        \/ Fail

Begin == Refuse \/ \E m \in {"apply", "dry-run"} : BuildPlan(m)

Disturb == \/ Unable \/ Interrupt \/ Crash
           \/ \E e \in Entries : Recreate(e) \/ ClearAway(e)
           \/ \E f \in Files : Revert(f)

Next == Begin \/ Step \/ Disturb

Spec == Init /\ [][Next]_vars

\* A running process goes on, and the user keeps re-running `migrate --apply
\* --yes', as the message of a stopped run asks for.
FairSpec == Spec /\ WF_vars(Step) /\ SF_vars(BuildPlan("apply"))

-----------------------------------------------------------------------------
(***************************************************************************)
(* Properties.                                                             *)
(***************************************************************************)

Occupants == {"none", "data", "bridge", "other"}
Steps == {"idle", "planned", "loop", "renamed", "journal", "park", "suite", "unpark",
          "verdict", "drop", "unlink"}
VerifySteps == {"park", "suite", "unpark", "verdict", "drop", "unlink"}
Exits == {"never run", "running", "refused", "complete", "unresolved", "killed"}

DiskTyped == /\ root \in [Entries -> Occupants]
             /\ bucket \in [Entries -> Occupants]
             /\ parked \subseteq Entries
             /\ refs \in [Files -> {"old", "new", "committed"}]
             /\ stale \subseteq Projects

KeptTyped == /\ done \subseteq Ids
             /\ moved \subseteq Entries
             /\ lock \in {"absent", "present"}
             /\ recorded \subseteq Bridged

StepTyped == /\ pc \in Steps
             /\ cur \in Nat /\ 1 <= cur /\ cur <= End
             /\ pc \in {"idle", "planned"} => cur = 1
             /\ pc \notin {"idle", "planned", "loop"} => cur < End
             /\ pc = "renamed" => Now.phase = "move"
             /\ pc \in VerifySteps => Now.phase = "verify"

MemoryTyped == /\ skip \subseteq Ids
               /\ planned \subseteq Files \cup Projects
               /\ todo \subseteq Bridged
               /\ outcome \in {"not run", "clean", "failing"}
               /\ failures \subseteq Ids
               /\ mode \in {"apply", "dry-run"}

\* Every variable keeps its type, and every step has the action it works on.
TypeOK == /\ DiskTyped /\ KeptTyped /\ StepTyped /\ MemoryTyped
          /\ exit \in Exits
          /\ faults \in Nat /\ faults <= MaxFaults

\* The data of an entry is at exactly one of its two paths, through every
\* crash, failure and re-run of the apply.
NoEntryLost == \A e \in Entries : (root[e] = "data") # (bucket[e] = "data")

\* A file never spells the new path of an entry that is not there yet: the
\* rewrites wait for the moves, in the run that made them and in any later one.
RefsFollowData == \A f \in Files : refs[f] # "old" => bucket[Target[f]] = "data"

\* Neither a bridge at the old path nor one parked beside it ever dangles.
NoDanglingBridge == \A e \in Entries : root[e] = "bridge" \/ e \in parked
                                          => bucket[e] = "data"

\* An action that stops the run when it fails, and that no plan leaves out.
Hard(a) == a.phase \notin ContinueOnFail \cup AlwaysRerun \cup {"project"}

\* The journal never jumps over a hard action: whatever the crashes, what is
\* journaled as done had every earlier hard action journaled before it.
JournalClosed == \A i, j \in 1..Len(Plan) :
                    i < j /\ Hard(Plan[i]) /\ Plan[j] \in done => Plan[i] \in done

\* The bridges an apply recorded are gone from the manifest.
Dropped(e) == Id("bridges-record", "-") \in done /\ e \in Bridged \ recorded

\* The last run was an apply, and reported success.
Completed == exit = "complete" /\ mode = "apply"

\* The bridges are given up only when no watched reference needs them, also
\* when the suite, the parking or the run itself is cut short.
DropOnlyWhenClean == \A f \in Watched \ Tracked : Dropped(Target[f]) => refs[f] # "old"

\* Between runs a watched reference to an entry that has had its bridge leads
\* to its data, unless an interrupted verify has left the bridge parked.
ReferencesResolve ==
  pc = "idle" => \A f \in Watched \ Tracked : LET e == Target[f] IN
     /\ Id("bridge", e) \in done
     /\ e \notin parked \cup Resurrected
     => Resolves(f)

\* An apply prints "migration complete" only when every entry is in its bucket, the
\* manifest lists no bridge, and every tracked file whose rewrite the journal knows of
\* is committed: a run that merges the journaled files into its commits misses none.
CompleteMeansDone == Completed =>
   /\ recorded = {} /\ \A e \in Entries : bucket[e] = "data"
   /\ \A f \in Tracked \ Links : Id("rewrite", f) \in done => refs[f] # "new"

\* While a run executes actions its lock file is there.
LockHeld == pc \notin {"idle", "planned"} => lock = "present"

\* Re-running the apply ends in "migration complete", or in a state the planner refuses,
\* or with something else at an old path that has to be cleared away first.
Settles == []<>(\/ Completed \/ Errors # {}
                \/ \E e \in Entries : root[e] = "other")

\* The abstract promise, under the mapping of the state kept here to it.
R == INSTANCE Relocation
       WITH where <- [e \in Entries |-> IF bucket[e] = "data" THEN "new" ELSE "old"],
            refs <- [f \in Files |-> IF refs[f] = "old" THEN "old" ELSE "new"],
            released <- {e \in Entries : Dropped(e)},
            Revertible <- Tracked

Implements == R!RSpec

-----------------------------------------------------------------------------
(***************************************************************************)
(* What makes them true: the inductive invariant of module MigrateProofs.  *)
(***************************************************************************)

\* A run has journaled every hard action before the one it is at.
PrefixDone == mode = "apply" =>
   \A i \in 1..Len(Plan) : i < cur /\ Hard(Plan[i]) => Plan[i] \in done

\* An action a run has still to journal was journaled before it was planned.
NotYet == pc # "idle" =>
   \A i \in 1..Len(Plan) : cur <= i /\ Plan[i] \in done => Plan[i] \in skip

\* A journaled move has happened; so has one about to be journaled.
JournalTruthful ==
  /\ \A e \in Entries : Id("move", e) \in done => bucket[e] = "data"
  /\ pc = "renamed" \/ (pc = "journal" /\ Now.phase = "move")
       => bucket[Now.item] = "data"

\* The manifest lists the bridges of the whole map, or none.
AllOrNone == /\ recorded \in {{}, Bridged}
             /\ pc = "journal" /\ Now.phase = "bridges-record" => recorded = Bridged

\* The watched references no longer need a bridge.
Clean == \A f \in Watched \ Tracked : Target[f] \in recorded => refs[f] # "old"

\* The bridgeless suite runs with every bridge moved aside, so its word counts.
VerdictSound ==
  /\ pc \in {"park", "unpark", "drop", "unlink"} => Bridgeless
  /\ pc = "park" => \A e \in recorded \ todo : root[e] # "bridge"
  /\ pc = "suite" /\ Bridgeless => \A e \in recorded : root[e] # "bridge"
  /\ pc \in {"unpark", "verdict", "drop"} /\ Bridgeless /\ outcome = "clean" => Clean
  /\ pc = "drop" => outcome = "clean"

\* The run is past this action, or has only to journal it.
Carried(i) == i < cur \/ (i = cur /\ pc = "journal")

\* A run knows of every rewrite in the journal: it was there when the run planned,
\* or the run has made it.
RewritesKnown ==
  /\ pc # "idle" => \A f \in Files : Id("rewrite", f) \in done
                                       => Id("rewrite", f) \in skip \/ f \in planned
  /\ pc = "journal" /\ Now.phase = "rewrite" => Now.item \in planned

\* A commit that is not reported as failed has committed all it had to.
CommitsMade == mode = "apply" /\ failures = {} =>
   \A i \in 1..Len(Plan) : Plan[i].phase = "commit" /\ Carried(i)
      => \A f \in Candidates(Plan[i].item) : refs[f] # "new"

\* A bridgeless verify that is not reported as failing has dropped the bridges.
BridgesDropped ==
  /\ pc \in {"unpark", "verdict"} => outcome # "not run"
  /\ pc = "unlink" => recorded = {}
  /\ mode = "apply" /\ failures = {} =>
       \A i \in 1..Len(Plan) : Plan[i] = Id("verify", "bridgeless") /\ Carried(i)
          => recorded = {}

\* Only the end of a run says "migration complete", and the next one takes it back.
ExitHonest == /\ pc # "idle" => exit = "running"
              /\ CompleteMeansDone

-----------------------------------------------------------------------------
(***************************************************************************)
(* What the documentation says, and the code does not do.                  *)
(***************************************************************************)

\* "resumable": after a run that was cut short, the planner accepts a re-run.
Resumable == pc = "idle" => Errors = {}

\* "re-points every reference the audit could find", where nothing puts a file
\* back to its old text (Tracked = {}).
CompleteMeansRepointed == Completed => \A f \in Files : refs[f] # "old"

\* "Rewrites already applied on an earlier run still need committing.": not what a rerun
\* finds reverted, and no link of a repository.
CompleteMeansCommitted == Completed => \A f \in Tracked : refs[f] # "new"

\* "Only a clean bridgeless run drops the bridges; otherwise they stay".
BridgesStay == pc = "idle" => parked \cap recorded = {}

\* "drops them at once if a verify pass with the bridges moved aside comes back
\* clean".
CompleteDropsBridges == Completed => \A e \in Entries : root[e] # "bridge"
=============================================================================
