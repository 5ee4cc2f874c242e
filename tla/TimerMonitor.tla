---------------------------- MODULE TimerMonitor -----------------------------
(***************************************************************************)
(* shutdown-timer-monitor.sh: every 30 seconds, is the shutdown timer      *)
(* still enabled, active, and made of all its files.  Each systemctl call  *)
(* and each look at a file is a step of its own, and whoever tampers acts  *)
(* between them.                                                           *)
(***************************************************************************)
EXTENDS Integers, Sequences

CONSTANT MaxFaults \* bound on tampering and kills together
ASSUME FaultsAssumption == MaxFaults \in Nat

\* The timer unit, the service unit, the check script.
Files == {"timer", "service", "script"}

VARIABLES
  enabled, active, \* the timer, to systemd
  files,   \* those of Files that are there
  pc,      \* "down", "check", "reload", "enable", "start", "verify", "sleep"
  looked,  \* how many of Looks the check has got through
  first,   \* the initial check of start_monitoring is not over
  verdict, \* what the latest restoration logged
  faults

timer == <<enabled, active, files>>
vars == <<timer, pc, looked, first, verdict, faults>>

Init == /\ enabled \in BOOLEAN /\ active \in BOOLEAN /\ files \in SUBSET Files
        /\ pc = "down" /\ looked = 0 /\ first = TRUE /\ verdict = "none" /\ faults = 0

\* What systemctl and the disk answer, and in which order they are asked.
IsEnabled == enabled /\ "timer" \in files
NeedsRestoration == ~IsEnabled \/ ~active \/ files # Files
Looks == <<"enabled", "active", "timer", "service", "script">>
Right(look) == CASE look = "enabled" -> IsEnabled
                 [] look = "active" -> active
                 [] OTHER -> look \in files

\* The polling loop comes straight after the initial check.
AfterCheck == pc' = (IF first THEN "check" ELSE "sleep") /\ first' = FALSE

Launch == /\ pc = "down" /\ pc' = "check" /\ first' = TRUE
          /\ UNCHANGED <<timer, looked, verdict, faults>>

\* timer_needs_restoration ends with the first look that finds something wrong.
Look == /\ pc = "check" /\ looked < Len(Looks) /\ Right(Looks[looked + 1])
        /\ looked' = looked + 1
        /\ UNCHANGED <<timer, pc, first, verdict, faults>>
Healthy == /\ pc = "check" /\ looked = Len(Looks) /\ looked' = 0 /\ AfterCheck
           /\ UNCHANGED <<timer, verdict, faults>>
Detect == /\ pc = "check" /\ looked < Len(Looks) /\ ~Right(Looks[looked + 1])
          /\ pc' = "reload" /\ looked' = 0
          /\ UNCHANGED <<timer, first, verdict, faults>>
Reload == /\ pc = "reload" /\ pc' = "enable"
          /\ UNCHANGED <<timer, looked, first, verdict, faults>>

\* Mutant: a timer that is active is not enabled.
BuggyEnable == /\ pc = "enable" /\ pc' = "start"
               /\ enabled' = (enabled \/ ("timer" \in files /\ ~active))
               /\ UNCHANGED <<active, files, looked, first, verdict, faults>>

\* `systemctl enable' needs the unit file; its failure is ignored.
Enable == /\ pc = "enable" /\ pc' = "start"
          /\ enabled' = (enabled \/ "timer" \in files)
          /\ UNCHANGED <<active, files, looked, first, verdict, faults>>

\* `systemctl start' needs the timer and the service it is to start.
Start == /\ pc = "start" /\ pc' = "verify"
         /\ active' = (active \/ {"timer", "service"} \subseteq files)
         /\ UNCHANGED <<enabled, files, looked, first, verdict, faults>>

Verify == /\ pc = "verify" /\ AfterCheck
          /\ verdict' = (IF active THEN "completed successfully" ELSE "may have failed")
          /\ UNCHANGED <<timer, looked, faults>>

Wake == /\ pc = "sleep" /\ pc' = "check"
        /\ UNCHANGED <<timer, looked, first, verdict, faults>>

Killed == /\ pc # "down" /\ faults < MaxFaults
          /\ pc' = "down" /\ looked' = 0 /\ faults' = faults + 1
          /\ UNCHANGED <<timer, first, verdict>>

Tamper == /\ faults < MaxFaults /\ faults' = faults + 1
          /\ \/ enabled /\ enabled' = FALSE /\ UNCHANGED <<active, files>>
             \/ active /\ active' = FALSE /\ UNCHANGED <<enabled, files>>
             \/ \E f \in files : files' = files \ {f} /\ UNCHANGED <<enabled, active>>
          /\ UNCHANGED <<pc, looked, first, verdict>>

\* Somebody runs the setup script that installs the files again.
Reinstall(f) == /\ f \in Files \ files /\ files' = files \cup {f}
                /\ UNCHANGED <<enabled, active, pc, looked, first, verdict, faults>>

Step == Launch \/ Look \/ Healthy \/ Detect \/ Reload \/ Enable \/ Start \/ Verify \/ Wake
Next == Step \/ Killed \/ Tamper \/ \E f \in Files : Reinstall(f)

\* The monitor runs on, systemd restarts it, and lost files are installed again.
Spec == /\ Init /\ [][Next]_vars
        /\ WF_vars(Step) /\ \A f \in Files : WF_vars(Reinstall(f))

-----------------------------------------------------------------------------
\* However tampering and kills fall between the calls of a restoration, the timer
\* is on again in the end, and stays so once nobody tampers.
StaysArmed == <>[](~NeedsRestoration /\ pc \in {"check", "sleep"})

\* A restoration that logs success has restored what the check looks at.
SuccessIsChecked == [][pc = "verify" /\ pc' # "down" /\ verdict' = "completed successfully"
                         => ~NeedsRestoration]_<<pc, verdict>>
=============================================================================
