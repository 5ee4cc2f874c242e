----------------------------- MODULE UsageReport -----------------------------
(***************************************************************************)
(* usage_report.py reports on everything since its last report, and the    *)
(* hourly catch-up reports day by day, both from logs that grow while they *)
(* are read.  `now' is taken when a run starts, the logs are read later,   *)
(* and the time stamp that starts the next window is `now' cut to the      *)
(* second, written only after the report has gone out.                     *)
(*                                                                         *)
(* Time goes in ticks, two to a second; a sample is known by the second    *)
(* it is stamped with, which is all that atop and pmon write down.         *)
(***************************************************************************)
EXTENDS Integers

CONSTANTS
  Kinds,     \* of samples: Atop's, and others' such as those of pmon
  Atop,
  SecondsPerDay,
  MaxDays,   \* bound on the days
  LastTick,  \* bound on the clock beside each of the two programs
  KillAt,    \* where a run of usage_report may be killed, if anywhere
  MaxFaults, \* bound on the runs killed or failed and the replays that atop breaks off
  None

ASSUME KindsAssumption == Atop \in Kinds
ASSUME ClockAssumption == SecondsPerDay \in Nat \ {0} /\ MaxDays \in Nat \ {0}
ASSUME KillAssumption ==
  /\ KillAt \subseteq {"read", "write", "torn", "exit"} /\ MaxFaults \in Nat

Second(tick) == tick \div 2
Day(sec) == sec \div SecondsPerDay
Midnight(day) == day * SecondsPerDay

Days == 0 .. MaxDays - 1
ASSUME TickAssumption ==
  LastTick \in [{"since", "catchup"} -> 0 .. 2 * MaxDays * SecondsPerDay - 1]

Seconds == 0 .. MaxDays * SecondsPerDay - 1
Samples == [kind : Kinds, sec : Seconds]
ASSUME NoneAssumption == None \notin Nat /\ \A S \in SUBSET Samples : S # None

VARIABLES
  program,  \* which of the two runs: "since" or "catchup"
  clock,    \* the tick it is
  logged,   \* the samples in the logs, one log for a kind and a day
  last,     \* last_report.json: a second, or None when missing or unreadable
  pc,       \* of the run: "idle", "read", "write", "torn", "exit"
  run,      \* its arguments and what it has worked out
  times,    \* how many since-last reports that went out hold this sample
  owed,     \* what must be in one: all since the first, up to the latest `now'
  base,     \* where the first of them began
  unread,   \* what atop broke off before, in a run that then moved the time stamp past it
  todo,     \* the catch-up: the days it has still to look at
  today,    \* the day it takes for today
  tmp,      \* the report it has just made, and of which day
  out,      \* the report on file for each day: the samples in it
  faults    \* so far

world == <<program, clock, logged>>
since == <<last, pc, run, times, owed, base, unread>>
catchup == <<todo, today, tmp, out>>
vars == <<world, since, catchup, faults>>

Idle == [tracked |-> FALSE, now |-> 0, start |-> 0, day |-> 0, got |-> {},
         missed |-> {}, flushed |-> FALSE]

Init == /\ program \in {"since", "catchup"} /\ clock = 0 /\ logged = {}
        /\ last = None /\ pc = "idle" /\ run = Idle
        /\ times = [s \in Samples |-> 0] /\ owed = {} /\ base = None /\ unread = {}
        /\ todo = {} /\ today = None /\ tmp = None
        /\ out = [d \in Days |-> None] /\ faults = 0

(***************************************************************************)
(* The clock and the loggers.  A sample may come before or after a run     *)
(* that starts in the same second.                                         *)
(***************************************************************************)
Tick == /\ clock < LastTick[program] /\ clock' = clock + 1
        /\ UNCHANGED <<program, logged, since, catchup, faults>>
Sample(kind) ==
  /\ logged' = logged \union {[kind |-> kind, sec |-> Second(clock)]}
  /\ logged' # logged
  /\ UNCHANGED <<program, clock, since, catchup, faults>>

OfDay(day) == {s \in logged : Day(s.sec) = day}

\* atop replays a log from its beginning.  Where it breaks off nobody asks it why: what it
\* has printed by then, maybe nothing, is what there is.
Replays(samples) ==
  {samples} \union {{s \in samples : s.kind # Atop \/ s.sec < cut} :
                      cut \in IF faults < MaxFaults THEN Seconds ELSE {}}
Failed(samples, got) == faults' = IF got = samples THEN faults ELSE faults + 1

(***************************************************************************)
(* A run that tracks: no --since, no --no-update-state.  The others leave  *)
(* the time stamp alone.                                                   *)
(***************************************************************************)
ResolveStart(sinceDay) ==
  CASE sinceDay # None -> Midnight(sinceDay)
    [] sinceDay = None /\ last # None -> last
    [] OTHER -> Midnight(Day(Second(clock)))

Begin(sinceDay, updates) ==
  /\ pc = "idle" /\ pc' = "read"
  /\ run' = [Idle EXCEPT !.tracked = (sinceDay = None /\ updates), !.now = clock,
               !.start = ResolveStart(sinceDay), !.day = Day(ResolveStart(sinceDay))]
  /\ UNCHANGED <<world, last, times, owed, base, unread, catchup, faults>>

\* The first day from its begin bound on, the later ones in full.
Segment(day, start) == {s \in OfDay(day) : s.sec >= start}

\* A day's log is read as it is by then, rows later than `now' included.
ReadDay ==
  /\ pc = "read" /\ run.day <= Day(Second(run.now))
  /\ LET all == Segment(run.day, run.start) IN
       \E got \in Replays(all) :
         /\ run' = [run EXCEPT !.day = @ + 1, !.got = @ \union got, !.missed = @ \union (all \ got)]
         /\ Failed(all, got)
  /\ UNCHANGED <<world, last, pc, times, owed, base, unread, catchup>>

AllRead == pc = "read" /\ run.day > Day(Second(run.now))
AfterReport == IF run.tracked THEN "write" ELSE "exit"

\* A window without a sample of Atop's is nothing to report, whatever the
\* other logs hold; a tracked run moves its time stamp all the same.
NothingToReport ==
  /\ AllRead /\ \A s \in run.got : s.kind # Atop
  /\ pc' = AfterReport /\ run' = [run EXCEPT !.got = {}]
  /\ UNCHANGED <<world, last, times, owed, base, unread, catchup, faults>>

\* What goes out counts when the run tracks.
Deliver == times' = [s \in Samples |->
  IF run.tracked /\ s \in run.got /\ times[s] < 2 THEN times[s] + 1 ELSE times[s]]

\* The report is one write to a buffered stream: it may go out now, or only
\* when the program ends.
Emit(flushed) ==
  /\ AllRead /\ \E s \in run.got : s.kind = Atop
  /\ pc' = AfterReport /\ run' = [run EXCEPT !.flushed = flushed]
  /\ IF flushed THEN Deliver ELSE UNCHANGED times
  /\ UNCHANGED <<world, last, owed, base, unread, catchup, faults>>

\* write_text opens the file for writing, which empties it, and then writes.
Truncate == /\ pc = "write" /\ pc' = "torn" /\ last' = None
            /\ UNCHANGED <<world, run, times, owed, base, unread, catchup, faults>>

\* Mutant: the stamp is the time of writing.
BuggyWriteLast ==
  /\ pc = "torn" /\ pc' = "exit" /\ last' = Second(clock)
  /\ base' = (IF base = None THEN run.start ELSE base)
  /\ owed' = owed \union {s \in logged : base' <= s.sec /\ s.sec < last'}
  /\ unread' = unread \union run.missed
  /\ UNCHANGED <<world, run, times, catchup, faults>>

WriteLast ==
  /\ pc = "torn" /\ pc' = "exit" /\ last' = Second(run.now)
  /\ base' = (IF base = None THEN run.start ELSE base)
  /\ owed' = owed \union {s \in logged : base' <= s.sec /\ s.sec < last'}
  /\ unread' = unread \union run.missed
  /\ UNCHANGED <<world, run, times, catchup, faults>>

Exit == /\ pc = "exit" /\ pc' = "idle" /\ run' = Idle
        /\ IF run.flushed THEN UNCHANGED times ELSE Deliver
        /\ UNCHANGED <<world, last, owed, base, unread, catchup, faults>>

Killed == /\ pc \in KillAt /\ faults < MaxFaults /\ faults' = faults + 1
          /\ pc' = "idle" /\ run' = Idle
          /\ UNCHANGED <<world, last, times, owed, base, unread, catchup>>

Reports == \/ \E updates \in BOOLEAN : Begin(None, updates)
           \/ \E sinceDay \in 0 .. Day(Second(clock)) : Begin(sinceDay, FALSE)
           \/ ReadDay \/ NothingToReport \/ (\E flushed \in BOOLEAN : Emit(flushed))
           \/ Truncate \/ WriteLast \/ Exit \/ Killed

(***************************************************************************)
(* The catch-up.  The list of logs and the name of the day are taken once, *)
(* when the loop starts.  run.sh is taken to be there: where it is not,    *)
(* the catch-up ends before it has done anything.                          *)
(***************************************************************************)
CatchUpStart ==
  /\ todo = {} /\ tmp = None
  /\ todo' = {Day(s.sec) : s \in {t \in logged : t.kind = Atop}} /\ todo' # {}
  /\ today' = Day(Second(clock))
  /\ UNCHANGED <<world, since, tmp, out, faults>>

Oldest(d) == d \in todo /\ \A e \in todo : d <= e

\* Mutant: only the day itself is reported.
BuggyWanted(d) == d = today
\* The day itself, and every day that has no report.
Wanted(d) == d = today \/ out[d] = None

PassBy(d) == /\ tmp = None /\ Oldest(d) /\ ~Wanted(d) /\ todo' = todo \ {d}
             /\ UNCHANGED <<world, since, today, tmp, out, faults>>

\* A day of which atop gives nothing has a report too, and one that is a success: of nothing.
MakeReport(d) == /\ tmp = None /\ Oldest(d) /\ Wanted(d)
                 /\ \E got \in Replays(OfDay(d)) :
                      /\ tmp' = [day |-> d, got |-> got, whole |-> got = OfDay(d)]
                      /\ Failed(OfDay(d), got)
                 /\ UNCHANGED <<world, since, todo, today, out>>

\* The report takes its place, whatever it replaces.
PutInPlace == /\ tmp # None /\ out' = [out EXCEPT ![tmp.day] = tmp.got]
              /\ todo' = todo \ {tmp.day} /\ tmp' = None
              /\ UNCHANGED <<world, since, today, faults>>

\* Mutant: with the report of before, which is the redirection's doing when
\* it goes straight to the file.
BuggyGiveUp == /\ tmp # None /\ faults < MaxFaults /\ faults' = faults + 1
               /\ todo' = todo \ {tmp.day} /\ tmp' = None
               /\ out' = [out EXCEPT ![tmp.day] = None]
               /\ UNCHANGED <<world, since, today>>

\* The run fails: atop or the log is gone, or it is killed.  The temporary file goes.
GiveUp == /\ tmp # None /\ faults < MaxFaults /\ faults' = faults + 1
          /\ todo' = todo \ {tmp.day} /\ tmp' = None
          /\ UNCHANGED <<world, since, today, out>>

CatchUpLoop == CatchUpStart \/ PutInPlace \/ \E d \in Days : PassBy(d) \/ MakeReport(d)

\* The two programs share nothing but the logs and the clock, so each is
\* checked beside the loggers alone.  The timer starts the catch-up again
\* and again; nothing says when a person asks for a report.
Next == \/ Tick \/ \E kind \in Kinds : Sample(kind)
        \/ program = "since" /\ Reports
        \/ program = "catchup" /\ (CatchUpLoop \/ GiveUp)
Spec == Init /\ [][Next]_vars /\ WF_vars(program = "catchup" /\ CatchUpLoop)

\* No sample falls between two reports: whatever was logged since the first
\* report's window opened, and before the window of the latest one closed, is
\* in some report that has gone out (usage_report.py: "so skipped days are
\* never lost"), but for what atop broke off before.  Runs, kills, days without
\* samples and a stamp that drops the fraction of the second all bear on it.
NothingLost == pc = "idle" => \A s \in owed : times[s] > 0 \/ s \in unread

\* Every day with a log gets its report in the end, though the machine was
\* off, the run failed or midnight passed in the middle of the loop.
EveryDayReported ==
  \A d \in Days :
    (program = "catchup" /\ \E s \in OfDay(d) : s.kind = Atop) ~> out[d] # None

\* What the catch-up has once put on file it never takes away, and it puts in its
\* place one with at least its samples; but for a replay that atop broke off.  A run
\* that fails leaves the report it was to replace.
BrokenOff(d) == tmp # None /\ tmp.day = d /\ ~tmp.whole
NeverShrinks == [][\A d \in Days :
  out[d] # None => out'[d] # None /\ (out[d] \subseteq out'[d] \/ BrokenOff(d))]_vars

-----------------------------------------------------------------------------
(***************************************************************************)
(* What the documentation says, and the code does not do.                  *)
(***************************************************************************)

\* The same of every log: a run that atop has given nothing, or not all there is, moves
\* the time stamp past what it has not seen.
SkippedNeverLost == pc = "idle" => \A s \in owed : times[s] > 0

\* The same of every replay: a report on file gives way to one of an empty day.
AlwaysGrows == [][\A d \in Days :
  out[d] # None => out'[d] # None /\ out[d] \subseteq out'[d]]_vars

\* The other side of NothingLost: no sample is in two of the reports made since the
\* last one (_usage_report_logs.py: the bounds are set "so re-runs do not
\* double-count").
CountedOnce == \A s \in Samples : times[s] <= 1

\* The report on file for a day that was over when the catch-up last went
\* through all the days holds every sample of that day.
DaysAreWhole ==
  (todo = {} /\ today # None) =>
    \A d \in Days : (d < today /\ out[d] # None) => out[d] = OfDay(d)
=============================================================================
