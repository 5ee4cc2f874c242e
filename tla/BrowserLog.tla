------------------------------ MODULE BrowserLog -----------------------------
(***************************************************************************)
(* browser-preexec-wrapper.sh: every launch of a browser has a log of its  *)
(* own, which four processes touch: the wrapper (header, verdict), the     *)
(* browser (its stderr, through a descriptor opened once), the watchdog    *)
(* (trims the file by renaming a shorter one over it) and the rotation of  *)
(* a later launch (removes the older logs).  A log is the sequence of the  *)
(* pieces written to it; a launch stands for its log's name.               *)
(***************************************************************************)
EXTENDS Integers, FiniteSets, SequencesExt

CONSTANTS
  Launches,
  Earlier,    \* those of them that are over, and have left their logs
  Keep,       \* LOG_KEEP
  Cap,        \* LOG_MAX_BYTES, in pieces
  Burst,      \* the most a browser writes from one check to the next
  MaxOut,     \* bound on the pieces of a browser
  MaxSignals, \* bound on the signals to the wrappers
  Gone

ASSUME SizesAssumption == Keep \in Nat \ {0} /\ Cap \in Nat \ {0} /\ Burst \in Nat \ {0}
ASSUME EarlierAssumption == Earlier \subseteq Launches
ASSUME BoundsAssumption == MaxOut \in Nat /\ MaxSignals \in Nat

Head1 == <<"header">>
Out(n) == <<"out", n>>
Verdict == <<"exit code">>
Snapshot == <<"post-exit">>
Note == <<"trimmed">>
Half == Cap \div 2

VARIABLES
  file,     \* by launch: what its log's name leads to, or Gone
  recent,   \* the logs in the directory, the one written last at the end
  linked,   \* the browser's descriptor is the file that has the name
  alive,    \* the browser runs
  written,  \* the pieces it has written
  burst,    \* those since the watchdog looked
  pc,       \* of the wrapper, see Wrapper
  doomed,   \* what the rotation is about to remove
  flag,     \* exit_recorded
  term,     \* the browser has been sent a SIGTERM
  wd,       \* of the watchdog: "off", "watch", "copied", "moving", "orphan",
            \* "note", "gone"
  trim,     \* the file it moves over the log
  signals

logs == <<file, recent, linked>>
browser == <<alive, written, burst>>
wrapper == <<pc, doomed, flag, term>>
watchdog == <<wd, trim>>
vars == <<logs, browser, wrapper, watchdog, signals>>

Wrapper == {"new", "rotate", "header", "launch", "unarmed", "wait", "record", "code",
            "snapshot", "kill", "end"}

\* What is so when l is one of the earlier launches, and what when it is to come.
ByLaunch(over, tocome) == [l \in Launches |-> IF l \in Earlier THEN over ELSE tocome]

Init ==
  /\ file = ByLaunch(<<Head1, Verdict, Snapshot>>, Gone) /\ recent = SetToSeq(Earlier)
  /\ linked = ByLaunch(TRUE, FALSE) /\ alive = [l \in Launches |-> FALSE]
  /\ written = [l \in Launches |-> 0] /\ burst = [l \in Launches |-> 0]
  /\ pc = ByLaunch("end", "new") /\ doomed = [l \in Launches |-> {}]
  /\ flag = ByLaunch(TRUE, FALSE) /\ term = ByLaunch(TRUE, FALSE)
  /\ wd = ByLaunch("gone", "off") /\ trim = [l \in Launches |-> Gone] /\ signals = 0

Goto(l, where) == pc' = [pc EXCEPT ![l] = where]

\* `>>' onto the name: the file is created when it is not there.
Append2(l, piece) ==
  /\ file' = [file EXCEPT ![l] = Append(IF @ = Gone THEN <<>> ELSE @, piece)]
  /\ recent' = Append(Remove(recent, l), l)

(***************************************************************************)
(* The launch: rotate_logs keeps Keep - 1 logs, the list of the others is  *)
(* made first and worked off afterwards; then the header.                  *)
(***************************************************************************)
Rotate(l) ==
  /\ pc[l] = "new" /\ Goto(l, "rotate")
  /\ doomed' = [doomed EXCEPT ![l] = {recent[i] : i \in 1 .. Len(recent) - (Keep - 1)}]
  /\ UNCHANGED <<logs, browser, flag, term, watchdog, signals>>

RemoveOld(l) ==
  /\ pc[l] = "rotate" /\ doomed[l] # {} /\ \E old \in doomed[l] :
       /\ doomed' = [doomed EXCEPT ![l] = @ \ {old}]
       /\ file' = [file EXCEPT ![old] = Gone] /\ recent' = Remove(recent, old)
       /\ linked' = [linked EXCEPT ![old] = FALSE]
  /\ UNCHANGED <<browser, pc, flag, term, watchdog, signals>>

Rotated(l) == /\ pc[l] = "rotate" /\ doomed[l] = {} /\ Goto(l, "header")
              /\ UNCHANGED <<logs, browser, doomed, flag, term, watchdog, signals>>

WriteHeader(l) ==
  /\ pc[l] = "header" /\ Goto(l, "launch") /\ Append2(l, Head1)
  /\ UNCHANGED <<linked, browser, doomed, flag, term, watchdog, signals>>

\* The browser and the watchdog are started in the background; the traps are
\* set afterwards.
Start(l) ==
  /\ pc[l] = "launch" /\ Goto(l, "unarmed") /\ alive' = [alive EXCEPT ![l] = TRUE]
  /\ linked' = [linked EXCEPT ![l] = TRUE] /\ wd' = [wd EXCEPT ![l] = "watch"]
  /\ file' = [file EXCEPT ![l] = IF @ = Gone THEN <<>> ELSE @]
  /\ recent' = (IF file[l] = Gone THEN Append(recent, l) ELSE recent)
  /\ UNCHANGED <<written, burst, doomed, flag, term, trim, signals>>
Arm(l) == /\ pc[l] = "unarmed" /\ Goto(l, "wait")
          /\ UNCHANGED <<logs, browser, doomed, flag, term, watchdog, signals>>

(***************************************************************************)
(* The browser writes through its descriptor, whatever has become of the   *)
(* name.                                                                   *)
(***************************************************************************)
Write(l) ==
  /\ alive[l] /\ written[l] < MaxOut /\ burst[l] < Burst
  /\ written' = [written EXCEPT ![l] = @ + 1] /\ burst' = [burst EXCEPT ![l] = @ + 1]
  /\ IF linked[l] THEN Append2(l, Out(written'[l])) ELSE UNCHANGED <<file, recent>>
  /\ UNCHANGED <<linked, alive, wrapper, watchdog, signals>>
Die(l) == /\ alive[l] /\ alive' = [alive EXCEPT ![l] = FALSE]
          /\ UNCHANGED <<logs, written, burst, wrapper, watchdog, signals>>

(***************************************************************************)
(* The watchdog.  Killing it stops the loop, not the mv it has started.    *)
(***************************************************************************)
Size(l) == IF file[l] = Gone THEN 0 ELSE Len(file[l])
\* Mutant: a file that has doubled is too big.
BuggyTooBig(l) == Size(l) > 2 * Cap
TooBig(l) == Size(l) > Cap

Look(l) == /\ wd[l] = "watch" /\ alive[l] /\ burst' = [burst EXCEPT ![l] = 0]
           /\ wd' = [wd EXCEPT ![l] = IF TooBig(l) THEN "copied" ELSE "watch"]
           /\ trim' = [trim EXCEPT ![l] = IF TooBig(l)
                         THEN SubSeq(file[l], Len(file[l]) - Half + 1, Len(file[l])) ELSE @]
           /\ UNCHANGED <<logs, alive, written, wrapper, signals>>
StartMove(l) == /\ wd[l] = "copied" /\ wd' = [wd EXCEPT ![l] = "moving"]
                /\ UNCHANGED <<logs, browser, wrapper, trim, signals>>
Move(l) ==
  /\ wd[l] \in {"moving", "orphan"}
  /\ wd' = [wd EXCEPT ![l] = IF @ = "moving" THEN "note" ELSE "gone"]
  /\ file' = [file EXCEPT ![l] = trim[l]] /\ trim' = [trim EXCEPT ![l] = Gone]
  /\ linked' = [linked EXCEPT ![l] = FALSE] /\ recent' = Append(Remove(recent, l), l)
  /\ UNCHANGED <<browser, wrapper, signals>>
WriteNote(l) == /\ wd[l] = "note" /\ wd' = [wd EXCEPT ![l] = "watch"] /\ Append2(l, Note)
                /\ UNCHANGED <<linked, browser, wrapper, trim, signals>>

\* Mutant: the watchdog goes on for as long as there is a log.
BuggyStopWatching(l) ==
  /\ wd[l] = "watch" /\ ~alive[l] /\ file[l] = Gone /\ wd' = [wd EXCEPT ![l] = "gone"]
  /\ UNCHANGED <<logs, browser, wrapper, trim, signals>>

StopWatching(l) == /\ wd[l] = "watch" /\ ~alive[l] /\ wd' = [wd EXCEPT ![l] = "gone"]
                   /\ UNCHANGED <<logs, browser, wrapper, trim, signals>>

KillWatchdog(l) == wd' = [wd EXCEPT ![l] = IF @ \in {"moving", "orphan"} THEN "orphan" ELSE "gone"]

(***************************************************************************)
(* The end.  `wait' returns and the verdict is recorded, or a signal has   *)
(* it recorded from a trap.  The flag is raised before the verdict is      *)
(* written, in two pieces, and a trap may run between any two of them.     *)
(***************************************************************************)
Waited(l) == /\ pc[l] = "wait" /\ ~alive[l] /\ Goto(l, "record") /\ KillWatchdog(l)
             /\ UNCHANGED <<logs, browser, doomed, flag, term, trim, signals>>
Record(l) == /\ pc[l] = "record" /\ Goto(l, "code") /\ flag' = [flag EXCEPT ![l] = TRUE]
             /\ UNCHANGED <<logs, browser, doomed, term, watchdog, signals>>
WriteCode(l) == /\ pc[l] = "code" /\ Goto(l, "snapshot") /\ Append2(l, Verdict)
                /\ UNCHANGED <<linked, browser, doomed, flag, term, watchdog, signals>>
WriteSnapshot(l) == /\ pc[l] = "snapshot" /\ Goto(l, "kill") /\ Append2(l, Snapshot)
                    /\ UNCHANGED <<linked, browser, doomed, flag, term, watchdog, signals>>

\* Mutant: the trap stops the watchdog only.
BuggyTakeDown(l) == /\ pc[l] = "kill" /\ Goto(l, "end") /\ KillWatchdog(l)
                    /\ UNCHANGED <<logs, browser, doomed, flag, term, trim, signals>>

\* The last of a trap: the browser and the watchdog go.  After a wait that
\* returned, both are gone already and this changes nothing.
TakeDown(l) == /\ pc[l] = "kill" /\ Goto(l, "end") /\ KillWatchdog(l)
               /\ term' = [term EXCEPT ![l] = TRUE]
               /\ UNCHANGED <<logs, browser, doomed, flag, trim, signals>>

\* HUP, INT or TERM: before the traps are set it kills the wrapper and
\* nothing else; after, record_exit does its work unless the flag is up.
Signal(l) ==
  /\ signals < MaxSignals /\ signals' = signals + 1 /\ pc[l] \notin {"new", "end"}
  /\ Goto(l, IF pc[l] \in {"rotate", "header", "launch", "unarmed"} THEN "end"
             ELSE IF flag[l] THEN "kill" ELSE "record")
  /\ UNCHANGED <<logs, browser, doomed, flag, term, watchdog>>

Run(l) == Rotate(l) \/ RemoveOld(l) \/ Rotated(l) \/ WriteHeader(l) \/ Start(l) \/ Arm(l)
          \/ Waited(l) \/ Record(l) \/ WriteCode(l) \/ WriteSnapshot(l) \/ TakeDown(l)
Watch(l) == Look(l) \/ StartMove(l) \/ Move(l) \/ WriteNote(l) \/ StopWatching(l)

Next == \E l \in Launches : Run(l) \/ Watch(l) \/ Write(l) \/ Die(l) \/ Signal(l)

\* The kernel runs the scripts on, and a browser that is told to stop does.
Spec == Init /\ [][Next]_vars
        /\ \A l \in Launches : WF_vars(Run(l)) /\ WF_vars(Watch(l)) /\ WF_vars(term[l] /\ Die(l))

\* The file that bears the log's name stays within the cap, but for what one
\* interval and the trim itself let in and the two pieces of the verdict:
\* the trim works on the file that grows.
NamedFileBounded == \A l \in Launches : Size(l) <= Cap + 2 * Burst + 2

\* A signal to an armed wrapper takes the browser with it, also a signal that
\* comes while another is being handled ("so no orphan outlives the log").
TakenDown == \A l \in Launches : (pc[l] = "end" /\ flag[l]) ~> ~alive[l]

\* The watchdog ends with the browser, though nobody killed it.
WatchdogEnds == \A l \in Launches : (pc[l] = "end" /\ ~alive[l]) ~> wd[l] \in {"off", "gone"}

-----------------------------------------------------------------------------
(***************************************************************************)
(* What the script's comments say, and it does not do.                     *)
(***************************************************************************)

\* What a log says last is what the browser said last: after the wrapper has
\* recorded the exit, a log that is there holds the browser's latest piece
\* (lines 34-36: "trimming must drop the head, never the tail").
TailKept == \A l \in Launches :
  (pc[l] = "end" /\ flag[l] /\ ~alive[l] /\ file[l] # Gone /\ written[l] > 0)
     => Contains(file[l], Out(written[l]))

\* No log ends without a verdict: an armed wrapper that is gone has left the
\* code and the second snapshot in the log, unless a later launch removed it
\* (lines 130-133: from a trap, so that the log does not "end mid-stream with
\* no verdict").
NoSilentEnd == \A l \in Launches :
  (pc[l] = "end" /\ flag[l] /\ wd[l] = "gone" /\ file[l] # Gone)
     => Contains(file[l], Verdict) /\ Contains(file[l], Snapshot)

\* No browser outlives its wrapper for good (lines 178-179: "the browser is
\* taken down with it so no orphan outlives the log describing it").
NoOrphan == \A l \in Launches : pc[l] = "end" ~> ~alive[l]

\* When no launch is under way there are at most Keep logs (line 100: "the
\* directory settles at exactly LOG_KEEP afterwards").
SettlesAtKeep ==
  (\A l \in Launches : pc[l] \notin {"rotate", "header", "launch"}) => Len(recent) <= Keep
=============================================================================
