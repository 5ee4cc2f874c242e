----------------------------- MODULE HomeCheck ------------------------------
(***************************************************************************)
(* `home_tidy.py check', by itself and at the end of every sweep: rules    *)
(* over the home directory, and the report that every login prints.  The   *)
(* rules look at the home one after the other, while its user and an undo  *)
(* go on; the report on file is emptied before it is written.              *)
(***************************************************************************)
EXTENDS Sweep

CONSTANTS
  Buckets,    \* names in [root].allow that hold things, with how many
  GitOnly,    \* [root].git_only: of these, the children that are bare directories
  Broad,      \* [root].broad_buckets
  WarnSize,   \* [root].warn_bucket_size
  XdgAtHome,  \* lines of user-dirs.dirs that point at $HOME itself
  CodeRoots,  \* [code_paths].roots, with what the checker does there
  Checker,    \* is there a checker
  Old         \* items last written longer ago than the age the inbox is nagged about

ASSUME HouseConstants ==
  /\ \A b \in DOMAIN Buckets : Buckets[b] \in Nat
  /\ Broad \subseteq DOMAIN Buckets /\ DOMAIN GitOnly \subseteq DOMAIN Buckets
  /\ \A r \in DOMAIN CodeRoots : CodeRoots[r] \in {"clean", "finds", "fails", "hangs", "absent"}
  /\ WarnSize \in Nat /\ Checker \in BOOLEAN /\ Old \subseteq Items

VARIABLES
  check,    \* [Sweepers -> the memory of the check that process makes]
  report    \* report.txt: what it tells, or Torn

cvars == <<vars, check, report>>

Violation(rule, path, warn) == [rule |-> rule, path |-> path, warn |-> warn]
Fail(rule, paths) == {Violation(rule, x, FALSE) : x \in paths}
Warn(rule, paths) == {Violation(rule, x, TRUE) : x \in paths}

(***************************************************************************)
(* The rules.                                                              *)
(***************************************************************************)
AtRoot == {n \in Names : root[n] # Nothing}

\* Mutant: no name is taken for a repository's.
BuggyResurrections == {}
\* A name that src/ or vendor/ has too is an old path somebody still writes.
Resurrections == {n \in AtRoot \ Bridges : n \in Rivals}
OldPathResurrection == Fail("old-path-resurrection", Resurrections)

\* Mutant: a name of a bridge's is passed over, whatever has the name now.
BuggyRootAllow == Fail("root-allow", AtRoot \ (Resurrections \cup Bridges))
RootAllow == Fail("root-allow",
  {n \in AtRoot \ Resurrections : ~(root[n] = Link /\ n \in Bridges)})

BridgeRule == LET links == {n \in Bridges : root[n] = Link} IN
  IF expired = "yes" THEN Fail("bridge-expired", links) ELSE Warn("bridge", links)

NotGit == Fail("git-only", UNION {GitOnly[b] : b \in DOMAIN GitOnly})
XdgHome == Fail("xdg-home", XdgAtHome)
InboxStale == Warn("inbox-stale", {s \in Slots : inbox[s] \in Old})
BucketSize == Warn("bucket-size", {b \in DOMAIN Buckets \ Broad : Buckets[b] > WarnSize})

\* A root the checker was not able to go through counts as a failure.
CodeHomePaths ==
  IF DOMAIN CodeRoots = {} THEN {}
  ELSE IF ~Checker THEN Fail("code-home-path", {"checker"})
  ELSE Fail("code-home-path", {r \in DOMAIN CodeRoots : CodeRoots[r] \in {"finds", "fails", "hangs"}})

\* The login's rendering: failures in full, of warnings the rules; nothing at all where there
\* is nothing to say.
Nag(found) == {v \in found : ~v.warn}
              \cup {[rule |-> v.rule, path |-> "more", warn |-> TRUE] : v \in {w \in found : w.warn}}

(***************************************************************************)
(* A check.                                                                *)
(***************************************************************************)
NoCheck == [pc |-> "idle", found |-> {}]
Torn == {Violation("torn", "report.txt", TRUE)}
Begun(p) == check' = [check EXCEPT ![p] = [pc |-> "names", found |-> {}]]

\* The command itself, and a sweep that moves nothing: one that finds the lock
\* of a migration, or is dry, because so told or because the installation is recent.
StartCheck(p) == /\ check[p].pc = "idle" /\ sweep[p].pc = "idle" /\ Begun(p)
                 /\ UNCHANGED <<vars, report>>

\* Mutant: a sweep that has moved nothing does not check.
BuggyFinishSweep(p) == /\ Finish(p) /\ UNCHANGED report
                       /\ IF sweep[p].moves = <<>> THEN UNCHANGED check ELSE Begun(p)

\* A sweep that has come to its end goes on to the check.
FinishSweep(p) == Finish(p) /\ Begun(p) /\ UNCHANGED report

Finds(p, pc, next, violations) ==
  /\ check[p].pc = pc
  /\ check' = [check EXCEPT ![p] = [pc |-> next, found |-> @.found \cup violations]]
  /\ UNCHANGED <<vars, report>>

CheckNames(p) == Finds(p, "names", "root", OldPathResurrection)
CheckRoot(p) == Finds(p, "root", "rest", RootAllow)
CheckRest(p) == Finds(p, "rest", "report",
  BridgeRule \cup NotGit \cup XdgHome \cup InboxStale \cup BucketSize \cup CodeHomePaths)

EmptyReport(p) == /\ check[p].pc = "report"
                  /\ report' = Torn /\ check' = [check EXCEPT ![p].pc = "torn"]
                  /\ UNCHANGED vars

WriteReport(p) ==
  /\ check[p].pc = "torn" /\ report' = Nag(check[p].found)
  /\ check' = [check EXCEPT ![p] = NoCheck]
  /\ UNCHANGED vars

CheckStep(p) == CheckNames(p) \/ CheckRoot(p) \/ CheckRest(p) \/ EmptyReport(p) \/ WriteReport(p)

(***************************************************************************)
(* The rest of the home: a sweep is the same process as its check.         *)
(***************************************************************************)
NoChecks == \A p \in Sweepers : check[p].pc = "idle"
KillAll == /\ crashes < MaxCrashes /\ crashes' = crashes + 1
           /\ ~(Quiet /\ NoChecks)
           /\ adrift' = adrift \cup FiledTo(Unwritten)
           /\ sweep' = [p \in Sweepers |-> NoSweep] /\ undo' = NoUndo
           /\ check' = [p \in Sweepers |-> NoCheck]
           /\ UNCHANGED <<home, nature, journal, report>>

StartSweep(p) == check[p].pc = "idle" /\ Start(p)
SweepOn(p) == \/ Skip(p) \/ UnlinkBridge(p) \/ FindSkeleton(p)
              \/ RemoveSkeleton(p) \/ Choose(p) \/ File(p)
\* Changes to the lock are left out: a run that finds it is a check and no more.
SweepOnly == \/ \E p \in Sweepers : StartSweep(p) \/ SweepOn(p)
             \/ (Overlap = "always" \/ NoChecks) /\ UndoStart(Batches(ToSet(journal)))
             \/ UndoStep
             \/ User /\ lock' = lock

CheckInit == Init /\ report = {} /\ check = [p \in Sweepers |-> NoCheck]
CheckNext == \/ SweepOnly /\ UNCHANGED <<check, report>>
             \/ \E p \in Sweepers : StartCheck(p) \/ FinishSweep(p) \/ CheckStep(p)
             \/ KillAll

\* The timer fires for ever, and whatever has a turn takes it.
CheckSpec ==
  /\ CheckInit /\ [][CheckNext]_cvars
  /\ \A p \in Sweepers :
       /\ SF_cvars(StartSweep(p) /\ UNCHANGED <<check, report>>)
       /\ WF_cvars((SweepOn(p) /\ UNCHANGED <<check, report>>) \/ FinishSweep(p))
       /\ WF_cvars(CheckStep(p))
  /\ WF_cvars(UndoStep /\ UNCHANGED <<check, report>>)

-----------------------------------------------------------------------------
Told(rule) == {v.path : v \in {w \in report : w.rule = rule}}
ToldOf == Told("root-allow") \cup Told("old-path-resurrection")
Writing == \E p \in Sweepers : check[p].pc = "torn"

\* An entry at the root that no sweep gets past, and so none to the check it would end with.
Jammed == \E i \in Items : Jams(i)

\* Who logs in is told of what stays at the root, from some time on for ever, but for
\* the moment in which a report is being written; as long as sweeps do not go on meeting
\* an entry that they cannot rename.  It is not in the way of this that runs are killed
\* or fail, that an undo is under way, or that the entry has the name of a repository or
\* of a bridge.
NagPersists == <>[]~Jammed => \A n \in Names :
  <>[](root[n] \in Items) => <>[](Writing \/ n \in ToldOf)

\* Once an entry is gone for good the login no longer tells of it, in such a home either.
NagCeases == <>[]~Jammed => \A n \in Names :
  <>[](root[n] = Nothing) => <>[](n \notin ToldOf)

\* "sweep moves it to inbox/": an entry that is told of in these words again
\* and again, and is neither young nor large nor impossible to rename, does not stay at
\* the root of such a home.  The names that have both a bridge and a repository are left out.
PromiseKept == <>[]~Jammed => \A n \in Names \ (Bridges \cap Rivals) :
  ~(<>[](root[n] \in aged \ (Big \cup stuck)) /\ []<>(n \in Told("root-allow")))

(***************************************************************************)
(* What the report and its comments say, and the code does not do.         *)
(***************************************************************************)

\* The same of every name.  A directory that takes the place of a bridge is told of as a
\* stray, and passed over by the sweep for as long as its data is newer.
EveryPromiseKept == <>[]~Jammed => \A n \in Names :
  ~(<>[](root[n] \in aged \ (Big \cup stuck)) /\ []<>(n \in Told("root-allow")))

\* The same of every home: "a nag stays" also where a sweep cannot end.
AlwaysTold == \A n \in Names :
  <>[](root[n] \in Items) => <>[](Writing \/ n \in ToldOf)
=============================================================================
