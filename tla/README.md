# A TLA+ development of system-maintenance

This directory models the programs of this repository that keep state, act
beside each other and can be cut short: the reorganisation of the home
directory (`home_tidy.py`), the scripts that repair `/etc/hosts`, the update
and the shutdown timer, the wrapper that logs a browser, and the usage report.
Each module says what the code does, TLC checks small instances of it, and for
most of the programs TLAPS proves the properties that matter for every size.
`PROJECT.json` maps every definition to the lines it stands for.

## 1. The system

| Component (source) | State it keeps | Operations | Talks to |
|---|---|---|---|
| migration (`_home_tidy_apply`, `_rebind`, `_verify`, `home_tidy.py`) | `migration.jsonl`, `migration-moves.jsonl`, `migrate.lock`, `[bridges]` of the manifest, the disk | backup, move, rewrite, rename project directories, commands, commit, push, bridge, verify; `--dry-run` | git, systemd, the sweep (lock) |
| plan (`_home_tidy_migrate`, `_manifest`) | none; reads disk and journal | order of the moves, preflight, list of actions | migration |
| reference rewriting (`_home_tidy_plan_refs`, `_refs`, `_refs_json`, `_locations`) | none | find the files that spell an old path, compute their new text | migration |
| check (`_home_tidy_check`, `_code_paths`, `_report`) | `report.txt`, which every login prints | the rules over the home directory, the report, the login's part of it | the sweep, which ends with it; the checker of another repository |
| sweep and undo (`_home_tidy_sweep`, `_scan`, `_freshness`) | `~`, `~/inbox`, `moves.jsonl` | sweep, undo last / all / one batch | hourly timer, the user, the migration's lock |
| hosts monitor (`hosts-file-monitor.sh`) | `/etc/hosts`, the time of the last check, the pipe of events | inotify loop, polling loop, restoration | the installer in another repository |
| maintenance (`periodic-system-maintenance.sh`) | exit status of the unit, breadcrumb file | three repair steps, report | timer, boot unit, the same installer |
| update (`auto-system-update.sh`) | `/var/lock` file | lock, pacman, yay, EXIT trap | daily timer, root shells |
| shutdown timer monitor (`shutdown-timer-monitor.sh`) | the timer unit and its files | check, restore, verify, every 30 s | systemd |
| browser wrapper (`browser-preexec-wrapper.sh`) | a log per launch | rotate, header, launch, watchdog with trim, verdict, traps | the browser, later launches |
| usage report (`usage_report.py`, `_usage_report_run`, `_logs`, `_emit`, ...) | `last_report.json`, the loggers' files | report since the last report, since a day, for a day | atop, nvidia-smi |
| parsing and tables (`_usage_report_parsing`, `_types`, `_tables`, `_render`) | none | records to totals by process and program, days merged, tables | usage report |
| catch-up (`lib/catchup_timer.sh`) | a report per day | hourly loop over the days | usage report |

What is hard in it: no two of these programs exclude each other except by a
lock file that one of them only looks at; each of them is killed by a reboot,
a time limit or a signal at any point; several make an effect and write it
down in two steps; some steps fail where nobody looks (a rename, a rewrite, the
replay of a log); the logs they read are being written; and users and other
programs change the same directories and units meanwhile. `PROJECT.json` lists
these hazards one by one, at the line where each bites.

What makes each correct, in short: the migration loses no data, never lets a
reference or a bridge lead nowhere, gives up bridges only when nothing needs
them, and can be run again until it is complete; its plan can be executed in
its order, and what names an entry follows it; the sweep loses and buries
nothing and can be undone; the login tells of what is wrong for as long as it
is, and of nothing else; tampering
with `/etc/hosts` and the timer is put right in the end; the maintenance hides
no failure; updates do not overlap; a browser's log stays small and no process
outlives the wrapper; no logged sample is missing from the reports, and no
program is charged what another one had, or nobody.

## 2. The modules

| Module | Models |
|---|---|
| `Relocation` | the abstract promise of the migration: entries move once, references follow, old paths are given up only when nobody needs them |
| `Migrate` | `migrate --apply`, step by step; implements `Relocation` |
| `MigrateProofs` | theorems about `Migrate` |
| `MigratePlan`, `MigratePlanProofs` | `build_plan`: order, preflight, references, bridges, phases, and the re-planning of a resumed run, and theorems about it |
| `Sweep`, `SweepProofs` | sweep and undo between system calls, with a user and a migration's lock, and theorems about them |
| `HomeCheck` | extends `Sweep` with the check that ends every sweep, and its report (`SweepProofs` has the theorems about it) |
| `HostsMonitor` | `/etc/hosts`, its installer, both loops of the monitor |
| `Maintenance` | the periodic maintenance and the two units that run it |
| `HostsGuard`, `HostsGuardProofs` | composes `HostsMonitor` and `Maintenance`: the same installer, the same file, one reboot; theorems about both together |
| `AutoUpdate`, `AutoUpdateProofs` | the update's lock, and theorems about it |
| `TimerMonitor` | the monitor of the shutdown timer |
| `BrowserLog`, `BrowserLogProofs` | one log, the four processes that write, trim and remove it, and a theorem about its size |
| `UsageReport`, `UsageReportProofs` | growing logs, the report since the last one, and the catch-up, and theorems about both |
| `UsageTotals`, `UsageTotalsProofs` | what the report computes of the records, beside what the processes truly had, and theorems about its numbers for any load |
| `MC...` | instances for TLC |

An operator named `Buggy...` is the definition below it with a plausible bug.
Nothing uses it; put in the place of that definition it makes the run that
checks a property fail, which shows that the property bites.

### How state and actions correspond to the code

**Migrate.** `root` and `bucket` are what the old and the new path of an entry
hold; `parked` the bridges moved aside; `refs` which path a file spells and
whether that is committed; `done` is `migration.jsonl`, `moved`
`migration-moves.jsonl`, `lock` `migrate.lock`, `recorded` the manifest's list
of bridges. These survive a kill; `pc`, `cur`, `skip`, `planned`, `todo`,
`outcome` and `failures` are the memory of the process and do not.
`BuildPlan` is the read-only planning of `home_tidy.py` (it fixes `skip`, the
journal as it was then); `TakeLock`, `SkipAction`, `Pretend`, `Due(phase)`,
`Journal` and `Leave` are the loop of `apply_plan`. An action's effect and its
journal line are two steps, and so are the rename and the line in the journal
of moves. The verify action is a sequence of steps (`Park`, `Suite`, `Unpark`,
`Verdict`, `Drop`, `Unlink`), because a kill between any two of them is what
its correctness is about. `Fail` is an action that raises, `Interrupt` a
Ctrl-C, which still runs the `finally`, `Crash` a kill, which does not;
`Recreate`, `ClearAway` and `Revert` are other programs. A command (hook,
commit gate, push, restart) succeeds or fails. `Links` are the files that are
symbolic links: the planning retargets them and never offers them for a commit.
A dry run prints "migration complete" as an apply does (`home_tidy.py:118`), so
`mode` survives the end of a run: `Completed` is an apply that has said so.

**MigratePlan.** A manifest is any function from a subset of the keys to
places; `at` is where an entry is; the plan is rebuilt from the disk and the
journal whenever a run starts. As in `Migrate` an action's effect and its line
in the journal are two steps (`MoveEntry` and the like, then `Journal`), and
`Interrupt`, a kill or a failure that stops the run, may fall between them. A
rewrite may fail (`RewriteFails`): that is journaled and the run goes on. A
directory with a bridge at its old path is not looked into again (`Locatable`).
`Committed` is what `plan_rewrites` finds tracked and changed, and what
`_merge_journaled` adds from the journal. The order of the moves (nested first,
then home-tidy's own repository last, buckets, name) is `Precedes`, and
`EntryOrder` the entries listed in it. `PlanIsAsAssumed` is checked of every
plan it builds, and is what `Migrate` assumes of the constant `Plan`. A
reference is a file or a link that lies in an entry or in a listed root
(`LiesIn`) and names an entry (`NamesKey`). `Governs` is the longest key that a
path falls under, `Locatable` and `Inspected` say which files the planning
comes to look at, and `Changes` whether the rewriter has anything to do there:
a text names the old path, a relative link is followed from where it is while
the plan is made. A relative link is taken to need a new text whenever its
directory moves; one between two entries that keep their distance is left out.
Files with references lie in directories.

**Sweep.** `root` and `inbox` are the directories; `aged`, `hollow`, `newer`
what the code asks of an entry (older than the grace period, no file or symlink
in it, data its counterpart in `src/` does not have), `stuck` what now cannot
be renamed or removed (another owner, a mount point). A run lists `~` once
(with the time stamps), then for each entry looks, and renames or removes in a
step of its own; what it has moved is in its memory until it ends (`Finish`).
An exception ends it without (`Abort`): `adrift` keeps, for the properties, the
places filled by such a run or by one that was killed. Undo reads the whole
journal, walks it backwards and rewrites it.

**HomeCheck.** The process of a sweep is the process of its check: `Finish`
is followed by the rules, in three steps that look at the home one after the
other (the names of repositories, the other names at the root, all the rest),
and the report, in two (`EmptyReport`, `WriteReport`). `StartCheck` is the
command by itself, and a sweep that is dry or finds a migration's lock.
`report` holds what a login prints, `Nag` of what the rules found, or `Torn`. A
sweep that ends with an exception has no check.
What the rules ask of `src/`, of the code roots and of `user-dirs.dirs` are
constants, each with something wrong.

**HostsGuard.** `mode` says whether `inotifywait` is installed and never
changes. `Becomes` changes the file and, under a watch, queues an event; the
cool-down is a flag that time clears. `MonitorStep` is the script,
`InstallerStep` the external installer, which writes the file in pieces. A run
of the maintenance is a step number and the failures so far; its third step is
`RunInstaller`.

**AutoUpdate.** `lock` is whose pid the file holds; `Refused` goes to the EXIT
trap, as the script does because the trap is set before the lock is taken.
`Terminated` runs the trap, `Killed` does not, `Reboot` clears `/var/lock`.

**TimerMonitor.** Each `systemctl` call and each look at a file is a step
(`Looks`, in the order of `timer_needs_restoration`), and tampering falls
between them.

**BrowserLog.** A log is the sequence of the pieces written to it; `file` is
what its name leads to, `linked` says whether the browser's descriptor is that
file: the trim's rename (`Move`) and a rotation (`RemoveOld`) break it.
`Record`, `WriteCode`, `WriteSnapshot`, `TakeDown` are `record_exit` and the
rest of the traps; a `Signal` may come between any two.

**UsageReport.** Time is counted in half seconds, samples in seconds, because
the stamp and the logs know seconds only. A run takes `now` (`Begin`), reads
day after day (`ReadDay`), of each what atop gives (`Replays`: atop may break
off anywhere, and nobody asks for its exit status), hands its report to a
stream that may or may not be flushed (`Emit`), empties and writes the stamp
(`Truncate`, `WriteLast`), ends (`Exit`). `times` counts in how many reports a
sample went out and `owed` what must be in one; `unread` is what atop broke off
in a run that then moved the stamp past it. The catch-up takes its list of days
and its idea of today once, at the start of the loop. `program` says which of
the two runs, and never changes: they share the logs and nothing else.

**UsageTotals.** `procs` is what runs: `Start`, `Exec`, `End` and `Run`, a
second in which at most `NCPU` processes have a CPU and in which atop may take
a sample. `spent` is what no log holds, the ticks each process id truly had. A
record is the sequence of tokens the parser meets, names of several words
included; `ParsePrc` and `ParsePrm` read it, `PidCpu` and `PidRam` are what is
kept of a process id, `DeltaTicks`, `AvgKb` (in whole KiB) and `FoldPids` fold
it, `MergeProcAggs` and `MergeWindows` merge the days and `DedupeRam` makes the
rows of a table, of which `RamTable` prints the first `Top`, each with its
first `MaxSiblings` siblings and the number of the others (`RamRow`). `Sorted`
is Python's `sorted()`, which keeps the order of what has equal keys: any such
order will do here. `MakeReport` is all of it at once, for it keeps nothing,
and a second report of the same moment would be as the first.

### External parts, modelled from their use

The hosts installer, `atop` and `nvidia-smi`, `pacman` and `yay`, git,
`systemd`, the browser, the checker of code roots, the user. They are marked
external in `PROJECT.json`.

## 3. The runs

| Run | What it shows | Bounds | States |
|---|---|---|---|
| `migrate` | no entry is lost (`NoEntryLost`), no bridge dangles, also a parked one (`NoDanglingBridge`), the journal never jumps over an action that stops a run (`JournalClosed`), bridges are given up only when no watched reference needs them (`DropOnlyWhenClean`), references resolve between runs (`ReferencesResolve`), an apply that says it is complete is (`CompleteMeansDone`), runs settle (`Settles`), the promise is kept (`Implements`) | a repository and a service directory, a tracked file, a tracked link and a configuration file, a project directory, one action of each kind, 3 faults | 133 thousand |
| `migrate_resumable` | fails: see section 6 | the same | |
| `plan` | the plan that passes the preflight can be executed (`MovesSucceed`), also when resumed, but for the entry that a kill has cut from its journal line (`ResumesClean`); nothing ends inside a moved parent or under another entry (`NothingMislaid`); what names an entry names it where it has gone (`ReferencesFollow`); it is what `Migrate` assumes, with the journal (`PlanIsAsAssumed`) | every manifest over 5 keys (one nested in another, two loose files) and 3 places, a file and two relative links, 2 runs killed or failing anywhere | 797 thousand |
| `sweep` | no file disappears (`FilesSurvive`), newer data stays where it is (`NothingBuried`), undo goes backwards (`UndoBackwards`) and forgets nothing it could still do (`UndoThorough`), every stray is filed, unless it is one that cannot be moved or sorts after one (`StraysFiled`) | 2 names, 2 files that take turns under one name and, sorting before them, a directory with a counterpart and a bridge that may come to be unmovable; one run at a time | 143 thousand |
| `home_check` | the journal knows where all came from that was moved, but for what a run moved that was killed or met an entry it could not rename (`JournalComplete`); in a home where no such entry stays for ever, the login tells of what stays (`NagPersists`) and no longer of what is gone (`NagCeases`), and what it says the sweep will move is moved (`PromiseKept`); the removal of an empty tree never takes a file that has appeared in it (`DirectoriesSurvive`) | a file that may come to be unmovable, and a directory under the name of a repository; a user at any step, an undo, 1 kill | 452 thousand |
| `hosts_guard` | tampering is put right in either mode (`Restored`); the maintenance's end is the truth (`EndsHonestly`); a breadcrumb goes when the trouble is over (`TroubleIsForgotten`) | both units, 2 waiting events, 1 fault of the monitor's side and 1 of the maintenance's | 228 thousand |
| `update_lock` | two updates overlap only after a run that had no lock has run its EXIT trap (`ExclusiveUntilIntruded`); no kill stops the updates for good (`KeepsUpdating`) | the timer and 2 shells, 3 kills or reboots | 2 thousand |
| `update_overlap` | fails: see section 6 | the same, no kills | |
| `timer_monitor` | whatever is disabled, stopped or deleted between the calls, the timer is armed in the end (`StaysArmed`) | 4 acts of tampering or kills | 7 thousand |
| `browser` | the log stays small (`NamedFileBounded`), a signal to an armed wrapper takes the browser down (`TakenDown`), the watchdog ends with the browser (`WatchdogEnds`) | a launch after an earlier one, cap of 2 pieces, 5 pieces of output, 3 signals | 7 thousand |
| `usage_reports` | no sample of atop falls between two reports, but for what atop broke off (`NothingLost`); every day with a log gets a report (`EveryDayReported`), and none is ever taken back, nor made smaller but by a replay that atop broke off (`NeverShrinks`) | 3 days of 2 seconds, in half seconds; 1 kill before the stamp is touched, failing report of the catch-up, or replay broken off | 1.2 million |
| `usage_totals` | no CPU time is invented (`NothingInvented`), processes that last are charged exactly (`SteadyIsExact`), the shares of the box add up to no more than it (`BoxIsNotOverbooked`), the memory columns agree with the records (`MemoryAgrees`), a row of the RAM table names or counts all that share its peak, and any other program is missing only below a full table of larger ones (`RamTableIsFair`) | 2 process ids, 2 programs, 2 starts or exchanges, every pattern of samples over 2 days of 3 seconds, a table of 1 row that counts its siblings and names none | 155 thousand |

The type invariants of `Migrate`, `Sweep`, `AutoUpdate` and of `HostsGuard`
with its two parts are theorems (section 4), and so need no run.

**Why the bounds are enough.** The migration walks the plan in order, so two
entries and two files already give every pair that its invariants speak of: a
tracked file in one entry that refers to the other, and a file outside. Three
faults allow a kill, a failing action on the re-run and interference. The
proofs remove these bounds for the safety properties. In `plan` a key nested in
another, the own repository and two loose files are every kind of key the
ordering tells apart, and the manifests are all functions over them; the file
lies in one entry and names the nested one, one link leads out of the nested
one, the other from a listed root into an entry; two runs are a first and a
resumed one, and the theorems have any number. In `sweep` two files of one name
need the suffix, and the undo of both, and the directory that sorts first is
what every later entry has to wait for when it cannot be renamed. In
`home_check` the two names are every kind of name the rules tell apart, a
bridge's and a repository's, and the rest of the house has one thing wrong in
each place; that sweeps overlap is left to the theorem on `DirectoriesSurvive`.
For the lock three runs are the fewest that can overlap through a removed lock
(one holds it, one is refused, one comes next). The faults of `hosts_guard` are
one each: with a single act of tampering the inotify loop alone already fails,
so the maintenance is needed. In `browser` the cap is crossed twice within five
pieces, and three signals are one before, one during and one after the trap.
Three days are a start, a skipped day and an end; two half seconds tell a
sample before `now` from one after it in the same second. In `usage_totals` two
starts give an id that is used again, a process that ends and one that takes
another program's name, each with samples on either side, of one day or of two;
a table of one row is cut, and with two programs the list of siblings is cut
only where none is named (the code names six). The theorem has any length of
both.

**Where a run stops.** `CHECK_DEADLOCK FALSE` stands where the system ends: a
complete migration of `plan`, launches of `browser`, and the last tick of the
clocks of `usage_reports` and `usage_totals`.

**Fairness.** `migrate`: a process that runs goes on (weak), and the user
re-runs `migrate --apply --yes`, as the message of a stopped run asks (strong,
because planning is possible only between runs). `sweep`: the timer fires for
ever (strong: a sweep cannot start beside another run), runs go on, and a
migration ends; nobody kills a run there (`home_check` and the theorems have
the kills). `home_check`: the same timer, and sweeps, checks and undos that
have a turn take it; nobody is assumed to run a check by itself. `hosts_guard`:
systemd restarts the monitor (`Restart=`) and fires the timer of the
maintenance, a run goes on, a running installer ends, time passes, a moved
repository is moved back; nothing starts the boot unit again, and nothing is
assumed of kills or of failures. `update_lock`: the daily timer and the
scheduler. `timer_monitor`: the loop runs on, and deleted files are installed
again; without the latter the monitor can restore nothing. `browser`: the
kernel runs the scripts on and a browser told to stop does; nobody is assumed
to close a browser. `usage_reports`: the hourly timer of the catch-up; nobody
has to ask for a report.

## 4. What is proved

All of it is checked by TLAPS (SMT, Zenon, and LS4 for the temporal steps).

`MigrateProofs`, for any entries, files, targets, projects, bound on faults
and any `Plan` that satisfies `PlanAssumption`:

1. `TypeCorrect`: `Spec => []TypeOK`.
2. `Safety`: no entry is lost, no bridge dangles, references follow the data,
   the journal is closed, and a run that executes holds the lock.
3. `BridgesOutliveReferences`: `Spec => []DropOnlyWhenClean`.
4. `BridgesLead` and `NoGapInJournal`: `NoDanglingBridge` and `JournalClosed`
   by themselves.
5. `ReferencesLead`: `Spec => []ReferencesResolve`.
6. `CompleteIsDone`: `Spec => []CompleteMeansDone`.
7. `Refinement`: `Spec => Implements`, that is, `Migrate` implements
   `Relocation` with `where` read off the buckets, `refs` without the
   distinction of what is committed, and `released` the bridges an apply
   recorded and the manifest no longer lists.

The invariants are not inductive as they stand, and the proof adds what is
missing in layers, each proved from those below it. Frame lemmas first: which
steps can change the disk, the journals or the memory at all, so that each
later proof looks only at the few that matter. Then the types. Then the
journal (`PrefixDone`, `NotYet`): a run for real has journaled every hard
action before the one it is at, because it executes in order what its own
reading of the journal did not contain; this gives `JournalClosed` and, since
the plan moves before it rewrites and bridges, that whatever rewrites or
bridges comes after all moves. Then the data (`JournalTruthful`): a journaled
move has happened; with the layer before, `NoEntryLost`, `NoDanglingBridge`
and `RefsFollowData`. Then the verdict (`AllOrNone`, `VerdictSound`): the
bridges are recorded all together, the bridgeless suite runs with every
recorded bridge moved aside, so its clean verdict means that no watched
reference needed one; nobody spells an old path again afterwards, and only
such a verdict empties the list. On top of it the bridges (`LinkInv`): whoever
has a bridge in the journal has moved, and its bridge is there, parked, or not
needed by any watched reference (`Linked`); only the unlinking after a clean
verdict takes one away for good, and what is unlinked nobody needs. This is
`ReferencesResolve`, as between runs nothing is about to be put back. Then the
end of a run (`ExitHonest`): it says that all is complete only if it came to
the end of its plan without a failure, so that what it still had to commit,
which it knows from the journals of all earlier runs (`Carried`,
`RewritesKnown`), is committed (`CommitsMade`), and the verdict that dropped
the bridges is its own (`BridgesDropped`). The
refinement then goes by steps: a rename is `Relocate`, a rewrite `Repoint`, a
revert `Restore`, the emptying of the list `Release`, everything else
stutters.

`SweepProofs`, for any names, items, sweepers, suffixes and kills:
`TypeCorrect`, and `DirectoriesAreSafe`: `Spec => DirectoriesSurvive`, whatever
overlaps, because the removal of a tree fails at the first file in it. Then,
assuming `Alone` (one run at a time, and a user who waits for it, the setting
of the run `sweep`), `FilesAreSafe`: `Spec => FilesSurvive`, and
`NothingIsBuried`: `Spec => NothingBuried`; without `Alone` the first fails
(section 6). `UndoGoesBackwards`: `Spec => []UndoBackwards`, and
`UndoIsThorough`: `Spec => UndoThorough`, for any number of kills. Assuming
only that runs do not overlap (whatever the user does meanwhile, with kills and
entries that cannot be renamed) `JournalIsComplete`: `Spec =>
[]JournalComplete`, and `CheckedJournalIsComplete`: `CheckSpec =>
[]JournalComplete`, the setting of the run `home_check`. The inductive
invariant `Steady` says what a run may rely on when nobody disturbs it: nobody
else is under way (`OneRun`); what is still to do was listed under names of its
own, and what was a link is one (`ListingHolds`); what is about to be filed has
a free place and nothing against it (`AboutToFile`); what is about to be
restored has its name free (`AboutToRestore`); and an empty tree has no new
data (`HollowIsOld`). The journal is accounted for (`Accounted`): each item in
the inbox was put there by a run that was cut short, or has a record that says
where it came from, in the journal, among the moves of the sweep that will
write it there, or, during an undo, in what the undo read and has not struck
out. An undo of everything goes from the end of the journal it read: what is
left is the beginning of the journal backwards (`Backwards`), what it has
passed is restored, or cannot be (`Spent`), and no move is recorded twice
(`Distinct`). A check leaves the home alone, and what it adds, a kill in the
middle of one, is none of `Sweep`'s steps: `CheckedDirectoriesAreSafe` is
`CheckSpec => DirectoriesSurvive`.

`MigratePlanProofs`, for every manifest, every tree of entries one level deep
and every set of files with references: `PlansAreAsAssumed`,
`MovesDoNotFail`, `MigrationsResume`, `EntriesAreNotMislaid` and
`ReferencesLead`, the five properties of the run `plan`. The first part shows
that `Precedes` is a strict total order, that the number of entries before one
(`Rank`) is therefore its place, and that `EntryOrder` has each entry once.
The second gives each action of a plan its turn: lists that are in turn
(`InTurn`) can be put one after the other, and what is left of a plan that is
well made (`WellMade`) is well made. The third shows that what is left of
a plan and what is journaled have, together, every move and every bridge, and
every commit that a tracked file needs (`Planned`), whatever a run before has
come to (`Regular`). The fourth is the inductive invariant `Inv`, which says,
unless the manifest sends two entries to one place, where everything is: what
is journaled has moved and what is not is where it was, or its line is still to
come (`Stands`), what the manifest does not name stayed or went along with its
parent (`GoesAlong`), what is still to move is at home with its place free
(`Clear`), at most one move is not in the journal and only as long as a run is
about to write its line, or has been killed there (`Begun`), and the rest of the
plan has every rewrite that is still to do or has failed (`Pending`, `Behind`).
The preflight of a later plan is therefore empty or finds that one move. A
parent never moves before what is nested in it, because nested moves are
hoisted and none is skipped.

`HostsGuardProofs`, for any units that run the maintenance, any capacity of
the pipe and any number of faults: `TypeCorrect`, and `HonestEnd`: `GuardSpec
=> EndsHonestly`. The inductive part is `Accounts`: what a run has not
repaired is exactly what it failed at and what lies ahead of it, two sets
without a common step. A composition has to show first that the steps of the
monitor leave the maintenance alone, and that a run waits for the installer it
started (`Coupled`).

`BrowserLogProofs`, for any launches, cap, burst and number of signals:
`LogsStayBounded`: `Spec => []NamedFileBounded`. The bound is not inductive,
as it grows with what was let in since the watchdog last looked: `Limit` gives
it for each state of the watchdog, and the copy under way is at most half the
cap (`Bounded`); the verdict's two pieces are written once (`Once`).

`UsageReportProofs`, for any number and length of days and any logs:
`NoSampleLost`: `Spec => []NothingLost`, assuming `Kept` (atop's samples only,
and kills that come before the stamp is touched; section 6 shows both are
needed), and `ReportsOnlyGrow`: `Spec => NeverShrinks`, both with any number of
replays that atop breaks off. The first rests on
three things: the stamp never runs ahead of the clock, and while its file is
empty the run still knows what it was (`StampInv`); what lies behind the mark
is owed, and a run that writes the mark has come past all of its window
(`WindowInv`); what is owed has gone out, goes out with the end of the run, or
was broken off (`OwedInv`). The second on `CatchUpInv`: a report in the making
holds at least what the one it replaces holds, if atop gave all there was.

`UsageTotalsProofs`, for any processes and names, any memory function, clock
rate, number of CPUs, length and number of days, length of the table and of its
lists of siblings: `ChargesAreFounded`,
`ChargesAreExact`, `SharesFitTheBox`, `MemoryIsTrue` and `TableIsFair`, the five
properties of the run `usage_totals`, each as `Spec => []` of it. The inductive
invariant `Inv` is about the logs and not about the report: any sample of a log
`Leads` the later ones, and the present moment. A process of the later one has
had since exactly what its process id has had, or it is new and has had all its
time since; and all together have had no more than the CPUs give in that time.
That a process is new can be told from its identity because identities only
grow (`IdsInv`). A report is then a function of logs in this order
(`ReportInv`), and the rest is about that function. One process id: what it is
charged lies between its first and last sample, unless the first sample alone
tells of it (`DeltaBounded`). One log: the programs share the process ids out
among them, so their sums are one sum (`FoldBounded`, `FoldExact`,
`FoldPeaks`). Several: by induction over the days (`AllDays`). The table: the
rows are classes of an equivalence, rounding keeps the order (`RoundGrows`), and
what either cut leaves out comes after what it keeps. The sums and merges of the
community modules are recursive functions over sets; the prover takes no
induction rule that has a formula for a parameter, so the module proves one
whose parameter is a set (`Growing`, `Shrinking`, `Counting`), from the
well-foundedness of the natural numbers, and first of all that these functions
exist.

`AutoUpdateProofs`, for any number of runs and kills: `TypeCorrect`, and
`Exclusion`: `Spec => []ExclusiveUntilIntruded`. The inductive part is
`OwnLock`: whoever is past the lock finds its own pid in the file until a run
that had not the lock has come to its EXIT trap.

Assumptions: `ConstantsAssumption` (the sets and functions of a manifest),
`PlanAssumption` (no action twice, phases in order, each item of the kind its
phase needs, a move for each entry, a bridge for each bridged one, a commit for
the directory of each tracked file, and the suite without bridges) of
`Migrate`; its substance is an invariant of `MigratePlan`, checked by `plan`
and proved. `PlanConstants` of `MigratePlan`: what names entries is finite, an
entry that holds others is a directory, and entries nest one level deep. The
last is the model's: the code takes keys of any depth, deepest first
(`_home_tidy_manifest.py:115`), and the model has one level of what is hoisted.
`UpdateConstants` and `PidsAreNoStrings` of `AutoUpdate`. The shape of the
constants of `Sweep`, `HostsMonitor`, `Maintenance`, `BrowserLog` and
`UsageReport`; `GuardConstants` (each unit runs an installer of its own, which
is not the monitor's) and `NoneAssumption` (what stands for no stamp and no
report is neither a number nor a set of samples). `MachineAssumption` and
`ReportAssumption` of `UsageTotals`: there is a CPU, a second has ticks, memory
is a natural number, names have a word, a day has seconds, and the process ids
are finitely many. `NamesAssumption`: no word of a name but the last ends in a
parenthesis; the parser takes the first that does for the end of the name
(section 6). TLC evaluates every assumption of every module. `Alone`, `Overlap
= "never"` and `Kept` are hypotheses of theorems and not of modules.

Only model-checked: everything about liveness and fairness (out of the
prover's reach): `Settles`, `StraysFiled`, `NagPersists`, `NagCeases`,
`PromiseKept`, `Restored`, `TroubleIsForgotten`, `KeepsUpdating`,
`StaysArmed`, `TakenDown`, `WatchdogEnds` and `EveryDayReported`. Every
invariant and every action property that a passing run checks is a theorem,
those of the run `sweep`, `JournalComplete` and `NothingLost` under a hypothesis
that the run meets too (`Alone`, `Overlap = "never"`, `Kept`).

## 5. What is not modelled

- The regular expressions that find a path in a text, TOML, parsing of pmon,
  the GPU tables and the Markdown: functions of text without state, with unit
  tests of their own. So is the rewriting of the keys of `claude.json`, where
  two spellings of one project become one.
- The native helper that reads atop's records in place of
  `_usage_report_parsing.py` when a compiler is there
  (`_usage_report_atop.py:101`): its source is a program of its own, and its
  build is trusted by its time stamp.
- The checker of code roots that `check` calls: another program's, of which
  `HomeCheck` takes the answer.
- The installers (`install_home_tidy.sh`, `install_usage_monitoring.sh`,
  `lib/packages.sh`, `lib/distro_detect.sh`, `lib/system_services.sh`):
  straight-line scripts. `install_usage_monitoring.sh:48` derives `REPO_DIR`
  from a directory layout that this checkout has not, so the path it wires
  lies outside of it.
- logrotate, the pre-commit shims under `scripts/`.
- A kill inside the write of `home-tidy.toml` (`_home_tidy_manifest.py:219`,
  which empties the file first): it leaves a manifest without entries, and every
  later command fails on it, also the re-run that `Settles` speaks of.
- Files that cannot be read while the plan is made, `skip_paths`, and the files
  below `.git` and of virtual environments that `_merge_journaled` leaves out.
- `ReferencesResolve` of `Migrate` has no reference whose own directory has a
  bridge: that case is in `ReferencesFollow` of `MigratePlan`.
- A catch-up without `run.sh`, which ends with status 1 before it does anything
  (`lib/catchup_timer.sh:27`).
- Within the modelled parts: two migrations at once, a user who edits files
  between plan and rewrite, a hook that stops a service again on a resumed
  run, an item of the inbox that goes away while `check` asks for its age, the
  rollover of the GPU log at midnight, SIGKILL of the browser wrapper (nothing
  in it could react), torn journal lines.

## 6. Where the code departs from what is written

Two departures have a run that fails, and keeps failing until the code
changes:

- `migrate_resumable` (`Resumable`): after a kill between the rename
  (`_home_tidy_apply.py:137`) and its journal line (224) no run gets past the
  preflight, which misses the source. The header calls the state resumable.
- `update_overlap` (`MutualExclusion`): a refused run's EXIT trap
  (`auto-system-update.sh:20`) removes the lock of the run that holds it.

The others met while modelling are stated as definitions too, in the last part
of their module or as noted here. Each is seen by putting it in place of the
properties of a configuration, with the changes given.

| Definition | In | Written | Done |
|---|---|---|---|
| `CompleteMeansRepointed` | `migrate`, `Tracked = {}` | "re-points every reference the audit could find" (`src/README.md:33`) | a resumed run finds the bridge and no longer looks into the moved directory (`_home_tidy_locations.py:105`) |
| `CompleteMeansCommitted` | `migrate` | "Rewrites already applied on an earlier run still need committing" (`_home_tidy_plan_refs.py:99`) | one whose journal line was not written is forgotten |
| `BridgesStay` | `migrate` | "otherwise they stay until their expiry" (`_home_tidy_verify.py:7`) | a kill leaves them parked |
| `CompleteDropsBridges` | `migrate` | "drops them at once" (`src/README.md:38`) | a kill after the list was emptied leaves the links |
| `JournalComplete` | `sweep`, overlapping: `Spec`, `Sweepers = {1, 2}`, `MaxSuffix = 1`, `UserActs = Overlap = "always"` | "Every move is appended to moves.jsonl" (`_home_tidy_sweep.py:7`) | only by a run that ends (213) |
| `EveryMoveJournaled` | `home_check`, also with `MaxCrashes = 0` | "Every move is appended to moves.jsonl so undo can replay it backwards" (`_home_tidy_sweep.py:7`) | not what a run has moved before it is killed or meets an entry that cannot be renamed (211) |
| `EveryStrayFiled` | `sweep` | "everything else is swept to ~/inbox by an hourly user timer" (`src/README.md:21`) | not those that sort after an entry that cannot be renamed: each run ends there (211) |
| `AlwaysTold` | `home_check` | "refresh the report so the nag reflects the new state" (`home_tidy.py:72`) | not where sweeps end with an exception, before their check (`home_tidy.py:86`) |
| `NeverOverwrites` | `sweep`, overlapping | "so a sweep never overwrites" (76) | two runs take the same free name (207, 211) |
| `GraceRespected` | `sweep`, overlapping | "entries younger than the grace period are left alone" (3) | the time is that of the listing (180) |
| `OutOfTheWay` | `sweep`, overlapping | "keeps the timer out of the way of a running migration" (6) | the lock is looked at once (157) |
| `OneDeletion` | `sweep`, `Spec` | "The one deletion" (8) | expired bridges go too (178) |
| `LinksFollow` | `plan` | "relative targets are recomputed from there" (`_home_tidy_refs.py:161`) | not by a resumed run: it follows a link in a directory that has moved from the new place, finds nothing it knows, and leaves it (168) |
| `FailuresAreRetried` | `plan` | "leaving a resumable state" (`_home_tidy_apply.py:6`) | a file that could not be written, in a directory that has its bridge by now, is not found by the next run (`_home_tidy_locations.py:105`), which says "migration complete" |
| `EveryPromiseKept` | `home_check`, `Bridges = {b}` | "sweep moves it to inbox/" (`_home_tidy_check.py:91`) | not a directory in the place of a bridge to a repository with less data, which `check` lists as a stray and the sweep passes over |
| `LeastCoupledFirst` | `plan` | "Order is least-coupled first" (`_home_tidy_migrate.py:5`) | nested entries come first (67) |
| `Restored` | `HostsMonitor` alone: `MonitorSpec`, `Installers = {"monitor"}`, one fault, no deadlock check | "restores it if needed" (`hosts-file-monitor.sh:3`) | what happens in the cool-down or before the start is missed (124) |
| `FailureLeavesBreadcrumb` | `Maintenance` alone: `MaintenanceSpec` | "Any failure now surfaces four ways" (`periodic-system-maintenance.sh:13`) | not one that the time limit follows (97) |
| `SuccessIsChecked` | `timer_monitor` | "completed successfully" (`shutdown-timer-monitor.sh:103`) | only is-active is asked (102) |
| `TailKept` | `browser` | "must drop the head, never the tail" (`browser-preexec-wrapper.sh:34`) | after a trim the browser writes into a file without a name (171) |
| `NoSilentEnd` | `browser` | no log should "end mid-stream with no verdict" (133) | a second signal, or a trim in progress, leaves one (138) |
| `NoOrphan` | `browser` | "so no orphan outlives the log" (179) | before the traps are set (159) one does |
| `SettlesAtKeep` | `browser`, `Earlier = {}` | "settles at exactly LOG_KEEP" (100) | not with two launches at once (119) |
| `SkippedNeverLost` | `usage_reports` | "skipped days are never lost" (`usage_report.py:14`) | the stamp moves past a log of which atop gave nothing or not all (`_usage_report_atop.py:80`) |
| `AlwaysGrows` | `usage_reports` | "Generate usage reports for available atop days" (`lib/catchup_timer.sh:56`) | an empty report, with status 0, takes the place of a fuller one when atop fails (44) |
| `NothingInvented` | `usage_totals`, `Closing = {"Web"}` without `NamesAssumption` | "skipping it is what keeps a constant 100 from being charged as CPU to every record" (`_usage_report_parsing.py:78`) | after a name whose inner word ends in a parenthesis the columns are shifted and the clock rate counts as CPU time (62) |
| `NothingLost` | `usage_reports`, `KillAt = {"torn"}` | "skipped days are never lost" (`usage_report.py:14`) | the stamp is emptied before it is written (`_usage_report_logs.py:64`) |
| `NothingLost` | `usage_reports`, `KillAt = {"exit"}` | "After a successful report the timestamp is advanced" (`usage_report.py:14`) | the buffered report may still be in the process (`_usage_report_run.py:181`) |
| `NothingLost` | `usage_reports`, `Kinds <- BothKinds` | "everything since the last report" (11) | GPU rows without an atop sample count as nothing (`_usage_report_run.py:165`) |
| `CountedOnce` | `usage_reports` | "so re-runs do not double-count" (`_usage_report_logs.py:32`) | the second of `now`, and rows that come while it reads, do |
| `DaysAreWhole` | `usage_reports` | "covers one calendar day" (`_usage_report_run.py:3`) | what is logged after a day's last report is never added (`lib/catchup_timer.sh:43`) |
| `OnlyTheWindow` | `usage_totals` | "CPU consumed during the coverage window only, not since process start" (`_usage_report_render.py:98`) | a process in the first sample alone is charged all it ever had (`_usage_report_types.py:47`) |

## 7. Plan

Done, in this order: `Relocation` and `Migrate` (the core: the only program
that moves a user's whole data, and the one with the most ways to be cut
short), `Sweep`, the guards of `/etc/hosts`, `AutoUpdate`, `TimerMonitor`,
`MigratePlan`, `BrowserLog`, `UsageReport`; then the numbers of the report
(`UsageTotals`), the check and its report (`HomeCheck`), the references of the
plan, and the proofs about `Migrate`, `MigratePlan`, `AutoUpdate`, `Sweep`,
`HostsGuard`, `BrowserLog`, `UsageReport` and `UsageTotals`.

Next:

1. `HomeTidy`, composing `Sweep` and `Migrate` over one home directory and one
   lock with a user at work: a lock left by a killed migration that stops all
   sweeps, two migrations at once, files edited between plan and rewrite,
   files put back to a text whose rewrite is journaled, bridges that clash
   when they are brought back, a manifest torn by a kill. The abstract specification is a home directory
   in which every file has exactly one place.
2. The GPU logger's rollover, as a writer of `UsageReport`'s logs, and the
   merging of the GPU's samples beside that of atop's.
3. Keys of `MigratePlan` that nest deeper, and proofs about 1 and 2.
