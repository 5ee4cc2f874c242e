---------------------------- MODULE HostsMonitor -----------------------------
(***************************************************************************)
(* hosts-file-monitor.sh: /etc/hosts, the installer that writes it (a      *)
(* script of another repository), and the monitor that runs the installer  *)
(* when it finds the file tampered with.  Time is a flag: whether the last *)
(* check is less than EVENT_COOLDOWN_S ago.                                *)
(***************************************************************************)
EXTENDS Integers

CONSTANTS
  Installers, \* those who run the installer; "monitor" is one
  MaxEvents,  \* bound on the events waiting in the pipe from inotifywait
  MaxFaults   \* bound on tampering, failing installers and kills together

ASSUME MonitorConstants ==
  /\ "monitor" \in Installers
  /\ MaxEvents \in Nat \ {0} /\ MaxFaults \in Nat

VARIABLES
  mode,      \* "inotify", or "polling" where inotifywait is not installed
  hosts,     \* "intact", "tampered" (or half written), "missing"
  script,    \* is HOSTS_INSTALL_SCRIPT there
  installer, \* [Installers -> "none", "running", "written", "failed"]
  events,    \* how many events about /etc/hosts wait to be read
  monitor,   \* "down", "waiting", "checking", "restoring"
  cooling,   \* less than EVENT_COOLDOWN_S since last_check_ts
  faults

file == <<hosts, events>>
process == <<monitor, cooling>>
machine == <<mode, script>>
monitorVars == <<file, process, machine, installer, faults>>

MonitorInit ==
  /\ mode \in {"inotify", "polling"}
  /\ hosts \in {"intact", "tampered", "missing"} /\ script = "there"
  /\ installer = [w \in Installers |-> "none"]
  /\ events = 0 /\ monitor = "down" /\ cooling = "no" /\ faults = 0

\* /etc/hosts becomes h.  The watch, if there is one, reports it; a full pipe
\* holds an event that will be read later than this one anyway.
Becomes(h) ==
  /\ hosts' = h
  /\ events' = IF mode = "inotify" /\ monitor # "down" /\ events < MaxEvents
               THEN events + 1 ELSE events

(***************************************************************************)
(* The installer, from how the scripts call it: it writes the file in      *)
(* pieces, and its exit status says whether it got to the end.             *)
(***************************************************************************)
RunInstaller(w) == installer' = [installer EXCEPT ![w] = "running"]

WritePiece(w) == /\ installer[w] = "running"
                 /\ Becomes("tampered")
                 /\ UNCHANGED <<process, machine, installer, faults>>

WriteAll(w) == /\ installer[w] = "running"
               /\ Becomes("intact")
               /\ installer' = [installer EXCEPT ![w] = "written"]
               /\ UNCHANGED <<process, machine, faults>>

InstallerFails(w) == /\ installer[w] = "running" /\ faults < MaxFaults
                     /\ installer' = [installer EXCEPT ![w] = "failed"]
                     /\ faults' = faults + 1
                     /\ UNCHANGED <<file, process, machine>>

(***************************************************************************)
(* The monitor.                                                            *)
(***************************************************************************)

\* Missing, too short, or without the markers of either list.
NeedsRestoration == hosts # "intact"

\* systemd starts the script after RestartSec.
Launch == /\ monitor = "down" /\ (mode = "polling" \/ hosts # "missing")
          /\ monitor' = "waiting" /\ cooling' = "no"
          /\ UNCHANGED <<file, machine, installer, faults>>

\* inotifywait cannot watch a file that is not there: the script ends with it.
LaunchFails == /\ monitor = "down" /\ mode = "inotify" /\ hosts = "missing"
               /\ UNCHANGED monitorVars

\* An event within the cool-down is read and forgotten.
DropEvent == /\ monitor = "waiting" /\ events > 0 /\ cooling = "yes"
             /\ events' = events - 1
             /\ UNCHANGED <<hosts, process, machine, installer, faults>>

HandleEvent == /\ monitor = "waiting" /\ events > 0 /\ cooling = "no"
               /\ events' = events - 1 /\ monitor' = "checking" /\ cooling' = "yes"
               /\ UNCHANGED <<hosts, machine, installer, faults>>

Poll == /\ mode = "polling" /\ monitor = "waiting"
        /\ monitor' = "checking"
        /\ UNCHANGED <<file, cooling, machine, installer, faults>>

Check == /\ monitor = "checking"
         /\ IF NeedsRestoration /\ script = "there"
            THEN monitor' = "restoring" /\ RunInstaller("monitor")
            ELSE monitor' = "waiting" /\ UNCHANGED installer
         /\ UNCHANGED <<file, cooling, machine, faults>>

\* Whatever the exit status, the loop goes on.
Returned == /\ monitor = "restoring" /\ installer["monitor"] \in {"written", "failed"}
            /\ monitor' = "waiting" /\ installer' = [installer EXCEPT !["monitor"] = "none"]
            /\ UNCHANGED <<file, cooling, machine, faults>>

\* Five seconds pass.
CoolDown == /\ cooling = "yes" /\ cooling' = "no"
            /\ UNCHANGED <<file, monitor, machine, installer, faults>>

\* The monitor is killed, with the installer it runs and the events it had not read.
Killed == /\ monitor # "down" /\ faults < MaxFaults
          /\ monitor' = "down" /\ events' = 0
          /\ installer' = [installer EXCEPT !["monitor"] = "none"]
          /\ faults' = faults + 1
          /\ UNCHANGED <<hosts, cooling, machine>>

Tamper(h) == /\ hosts # h /\ faults < MaxFaults
             /\ Becomes(h) /\ faults' = faults + 1
             /\ UNCHANGED <<process, machine, installer>>

\* The repository with the installer is moved away, and deployed again.
Undeploy == /\ script = "there" /\ faults < MaxFaults
            /\ script' = "gone" /\ faults' = faults + 1
            /\ UNCHANGED <<file, process, mode, installer>>
Deploy == /\ script = "gone" /\ script' = "there"
          /\ UNCHANGED <<file, process, mode, installer, faults>>

MonitorStep == Launch \/ LaunchFails \/ DropEvent \/ HandleEvent \/ Poll \/ Check \/ Returned
InstallerStep(w) == WritePiece(w) \/ WriteAll(w) \/ InstallerFails(w)
HostsFault == Killed \/ (\E h \in {"tampered", "missing"} : Tamper(h)) \/ Undeploy

MonitorNext == \/ MonitorStep \/ CoolDown \/ HostsFault \/ Deploy
               \/ \E w \in Installers : InstallerStep(w)

\* systemd restarts the monitor, an installer that runs comes to its end, time
\* passes, and the installer is deployed again.
MonitorFairness ==
  /\ WF_monitorVars(MonitorStep) /\ WF_monitorVars(CoolDown) /\ WF_monitorVars(Deploy)
  /\ \A w \in Installers : WF_monitorVars(WriteAll(w))

MonitorSpec == MonitorInit /\ [][MonitorNext]_monitorVars /\ MonitorFairness

-----------------------------------------------------------------------------
\* Every variable keeps its type; the monitor waits for the installer it started
\* and for no other.
MonitorTypeOK ==
  /\ mode \in {"inotify", "polling"} /\ script \in {"there", "gone"}
  /\ hosts \in {"intact", "tampered", "missing"}
  /\ installer \in [Installers -> {"none", "running", "written", "failed"}]
  /\ events \in 0..MaxEvents /\ cooling \in {"yes", "no"} /\ faults \in 0..MaxFaults
  /\ monitor \in {"down", "waiting", "checking", "restoring"}
  /\ monitor = "restoring" <=> installer["monitor"] # "none"

\* What is wrong with /etc/hosts is put right.
Restored == hosts # "intact" ~> hosts = "intact"
=============================================================================
