-------------------------- MODULE HostsGuardProofs ---------------------------
(***************************************************************************)
(* Theorems about HostsGuard, for any units that run the maintenance, any  *)
(* size of the pipe and any number of faults: types, and that the end of a *)
(* run tells the truth.                                                    *)
(***************************************************************************)
EXTENDS HostsGuard, TLAPS

\* The steps from the k-th on.
Ahead == <<Names, {"makepkg", "hosts"}, {"hosts"}, {}>>

LEMMA AheadOfStep ==
  ASSUME NEW k \in 1..3
  PROVE  /\ Ahead[k] = {Steps[k]} \cup Ahead[k + 1] /\ Steps[k] \notin Ahead[k + 1]
         /\ Steps[k] \in Names
<1>1. k = 1 \/ k = 2 \/ k = 3
  OBVIOUS
<1>2. CASE k = 1
  BY <1>2 DEF Ahead, Steps, Names
<1>3. CASE k = 2
  BY <1>3 DEF Ahead, Steps, Names
<1>4. CASE k = 3
  BY <1>4 DEF Ahead, Steps, Names
<1> QED BY <1>1, <1>2, <1>3, <1>4

-----------------------------------------------------------------------------
(***************************************************************************)
(* The maintenance.                                                        *)
(***************************************************************************)

\* What a run has not repaired is what it failed at and what lies ahead of it.
Accounts ==
  \A u \in Units : Running(u) =>
    /\ undone[u] = run[u].failures \cup Ahead[run[u].step]
    /\ run[u].failures \cap Ahead[run[u].step] = {}

\* A step of the maintenance, whatever happens to /etc/hosts with it.
UnitStep(u) == \/ Trigger(u) \/ NotFound(u) \/ Execute(u) \/ Succeeded(u) \/ StepFailed(u)
               \/ Completed(u) \/ Reported(u) \/ TimedOut(u)
Counted == trouble' = trouble \/ (trouble < MaxTrouble /\ trouble' = trouble + 1)
MaintenanceStep == /\ Counted
                   /\ \/ \E u \in Units : UnitStep(u)
                      \/ \E s \in Names : Misplace(s) \/ Replace(s)
                      \/ Reboot
                      \/ UNCHANGED <<scripts, run, unit, flag, undone>>

MaintenanceInv == MaintenanceTypeOK /\ Accounts

LEMMA MaintenanceKept ==
  ASSUME MaintenanceInv, MaintenanceStep
  PROVE  MaintenanceInv'
<1>t. MaintenanceTypeOK /\ Accounts
  BY DEF MaintenanceInv
<1>c. trouble' \in 0..MaxTrouble
  BY MaintenanceConstants DEF MaintenanceStep, Counted, MaintenanceInv, MaintenanceTypeOK
<1>1. ASSUME NEW u \in Units, UnitStep(u)
      PROVE  MaintenanceInv'
  <2>s. scripts' = scripts
    BY <1>1 DEF UnitStep, Trigger, NotFound, Execute, Succeeded, StepFailed, Completed, Reported, TimedOut
  <2>u. /\ run[u] \in [step : 0..4, busy : BOOLEAN, failures : SUBSET Names]
        /\ run[u].busy => run[u].step \in 1..3
        /\ Running(u) <=> unit[u] = "activating"
        /\ Running(u) => /\ undone[u] = run[u].failures \cup Ahead[run[u].step]
                         /\ run[u].failures \cap Ahead[run[u].step] = {}
        /\ undone[u] \in SUBSET Names
    BY <1>t DEF MaintenanceTypeOK, Accounts
  \* One run changes: to r, its unit to w, what it leaves undone to n.
  <2>1. ASSUME NEW r \in [step : 0..4, busy : BOOLEAN, failures : SUBSET Names],
               NEW w \in {"inactive", "activating", "success", "failed"}, NEW n \in SUBSET Names,
               run' = [run EXCEPT ![u] = r], unit' = [unit EXCEPT ![u] = w],
               undone' = [undone EXCEPT ![u] = n], flag' \subseteq Names,
               r.busy => r.step \in 1..3, r.step # 0 <=> w = "activating",
               r.step # 0 => n = r.failures \cup Ahead[r.step] /\ r.failures \cap Ahead[r.step] = {}
        PROVE  MaintenanceInv'
    <3>1. MaintenanceTypeOK'
      BY <1>t, <1>c, <2>s, <2>1 DEF MaintenanceTypeOK, Running
    <3>2. Accounts'
      BY <1>t, <2>1 DEF MaintenanceTypeOK, Accounts, Running
    <3> QED BY <3>1, <3>2 DEF MaintenanceInv
  <2>2. /\ run = [run EXCEPT ![u] = run[u]] /\ unit = [unit EXCEPT ![u] = unit[u]]
        /\ undone = [undone EXCEPT ![u] = undone[u]] /\ flag \subseteq Names
    BY <1>t DEF MaintenanceTypeOK
  <2>i. Idle \in [step : 0..4, busy : BOOLEAN, failures : SUBSET Names] /\ Idle.step = 0 /\ ~Idle.busy
    BY DEF Idle
  <2>3. CASE Trigger(u)
    <3> DEFINE r == [Idle EXCEPT !.step = 1]
    <3>1. /\ r \in [step : 0..4, busy : BOOLEAN, failures : SUBSET Names]
          /\ r.step = 1 /\ r.failures = {} /\ r.step \in 1..3
      <4>1. Idle.failures = {}
        BY DEF Idle
      <4> QED BY <2>i, <4>1
    <3>2. Ahead[1] = Names
      BY DEF Ahead
    <3>3. run' = [run EXCEPT ![u] = r] /\ unit' = [unit EXCEPT ![u] = "activating"]
          /\ undone' = [undone EXCEPT ![u] = Names] /\ flag' \subseteq Names
      BY <2>2, <2>3 DEF Trigger
    <3>4. /\ Names = r.failures \cup Ahead[r.step] /\ r.failures \cap Ahead[r.step] = {}
          /\ r.step # 0 <=> "activating" = "activating"
      BY <3>1, <3>2
    <3> HIDE DEF r
    <3> QED BY <2>1, <3>1, <3>3, <3>4, ZenonT(30)
  <2>4. ASSUME NEW fs \in SUBSET Names, NEW n \in SUBSET Names, run[u].step \in 1..3,
               run' = [run EXCEPT ![u] = GoOn(u, fs)], unit' = unit, flag' = flag,
               undone' = [undone EXCEPT ![u] = n],
               n = fs \cup Ahead[run[u].step + 1], fs \cap Ahead[run[u].step + 1] = {}
        PROVE  MaintenanceInv'
    <3> DEFINE r == GoOn(u, fs)
    <3>1. /\ r \in [step : 0..4, busy : BOOLEAN, failures : SUBSET Names]
          /\ r.step = run[u].step + 1 /\ r.step # 0 /\ r.busy = FALSE /\ r.failures = fs
      BY <2>4 DEF GoOn
    <3>2. unit[u] = "activating"
      BY <2>4, <2>u DEF Running
    <3>3. run' = [run EXCEPT ![u] = r]
      BY <2>4
    <3>4. r.step # 0 => n = r.failures \cup Ahead[r.step] /\ r.failures \cap Ahead[r.step] = {}
      BY <2>4, <3>1
    <3>5. unit' = [unit EXCEPT ![u] = "activating"] /\ flag' \subseteq Names
      BY <2>2, <2>4, <3>2
    <3>6. undone' = [undone EXCEPT ![u] = n]
      BY <2>4
    <3> HIDE DEF r
    <3> QED BY <2>1, <3>1, <3>3, <3>4, <3>5, <3>6
  <2>5. CASE NotFound(u) \/ StepFailed(u)
    <3>1. run[u].step \in 1..3
      BY <2>5, <2>u DEF NotFound, StepFailed
    <3>2. /\ Ahead[run[u].step] = {ToDo(u)} \cup Ahead[run[u].step + 1]
          /\ ToDo(u) \notin Ahead[run[u].step + 1] /\ ToDo(u) \in Names
      BY <3>1, AheadOfStep DEF ToDo
    <3>3. /\ run' = [run EXCEPT ![u] = GoOn(u, FailLoudly(u))]
          /\ unit' = unit /\ flag' = flag /\ undone' = [undone EXCEPT ![u] = undone[u]]
      BY <2>2, <2>5 DEF NotFound, StepFailed
    <3>4. FailLoudly(u) \in SUBSET Names
      BY <2>u, <3>2 DEF FailLoudly
    <3>5. /\ undone[u] = FailLoudly(u) \cup Ahead[run[u].step + 1]
          /\ FailLoudly(u) \cap Ahead[run[u].step + 1] = {}
      BY <2>u, <3>1, <3>2 DEF FailLoudly, Running
    <3> QED BY <2>4, <2>u, <3>1, <3>3, <3>4, <3>5
  <2>6. CASE Succeeded(u)
    <3>1. run[u].step \in 1..3
      BY <2>6, <2>u DEF Succeeded
    <3>2. /\ Ahead[run[u].step] = {ToDo(u)} \cup Ahead[run[u].step + 1]
          /\ ToDo(u) \notin Ahead[run[u].step + 1] /\ ToDo(u) \in Names
      BY <3>1, AheadOfStep DEF ToDo
    <3> DEFINE n == undone[u] \ {ToDo(u)}
    <3>3. /\ run' = [run EXCEPT ![u] = GoOn(u, run[u].failures)]
          /\ unit' = unit /\ flag' = flag /\ undone' = [undone EXCEPT ![u] = n]
      BY <2>6, <1>t DEF Succeeded, MaintenanceTypeOK
    <3>4. n \in SUBSET Names /\ run[u].failures \in SUBSET Names
      BY <2>u
    <3>5. /\ n = run[u].failures \cup Ahead[run[u].step + 1]
          /\ run[u].failures \cap Ahead[run[u].step + 1] = {}
      BY <2>u, <3>1, <3>2 DEF Running
    <3> HIDE DEF n
    <3> QED BY <2>4, <3>1, <3>3, <3>4, <3>5
  <2>7. CASE Execute(u)
    <3> DEFINE r == [run[u] EXCEPT !.busy = TRUE]
    <3>1. /\ r \in [step : 0..4, busy : BOOLEAN, failures : SUBSET Names]
          /\ r.step = run[u].step /\ r.failures = run[u].failures /\ r.step \in 1..3
      BY <2>7, <2>u DEF Execute
    <3>2. /\ run' = [run EXCEPT ![u] = r] /\ unit' = [unit EXCEPT ![u] = unit[u]]
          /\ undone' = [undone EXCEPT ![u] = undone[u]] /\ flag' \subseteq Names
      BY <2>7, <2>2 DEF Execute
    <3>3. r.step # 0 /\ unit[u] = "activating"
          /\ undone[u] = r.failures \cup Ahead[r.step] /\ r.failures \cap Ahead[r.step] = {}
      BY <3>1, <2>u DEF Running
    <3> HIDE DEF r
    <3> QED BY <2>1, <2>u, <3>1, <3>2, <3>3
  <2>8. CASE Completed(u) \/ Reported(u) \/ TimedOut(u)
    <3>1. PICK w \in {"success", "failed"} :
            /\ run' = [run EXCEPT ![u] = Idle] /\ unit' = [unit EXCEPT ![u] = w]
            /\ undone' = undone /\ flag' \subseteq Names
      BY <2>8, <2>u, <2>2 DEF Completed, Reported, TimedOut
    <3> QED BY <2>1, <2>2, <2>i, <2>u, <3>1
  <2> QED BY <1>1, <2>3, <2>5, <2>6, <2>7, <2>8 DEF UnitStep
<1>2. CASE \E s \in Names : Misplace(s) \/ Replace(s)
  BY <1>2, <1>t, <1>c DEF Misplace, Replace, MaintenanceInv, MaintenanceTypeOK, Accounts, Running
<1>3. CASE Reboot
  <2>1. Idle \in [step : 0..4, busy : BOOLEAN, failures : SUBSET Names] /\ Idle.step = 0 /\ ~Idle.busy
    BY DEF Idle
  <2>2. \A u \in Units : run'[u] = Idle /\ unit'[u] = "inactive"
    BY <1>3 DEF Reboot
  <2>3. MaintenanceTypeOK'
    BY <1>3, <1>t, <1>c, <2>1, <2>2 DEF Reboot, MaintenanceTypeOK, Running
  <2> QED BY <2>1, <2>2, <2>3 DEF MaintenanceInv, Accounts, Running
<1>4. CASE UNCHANGED <<scripts, run, unit, flag, undone>>
  BY <1>4, <1>t, <1>c DEF MaintenanceInv, MaintenanceTypeOK, Accounts, Running
<1> QED BY <1>1, <1>2, <1>3, <1>4 DEF MaintenanceStep

-----------------------------------------------------------------------------
(***************************************************************************)
(* The two together.                                                       *)
(***************************************************************************)

\* To the maintenance, every step of the machine is one of its own or none.
LEMMA GuardIsMaintenance ==
  ASSUME GuardNext
  PROVE  MaintenanceStep
<1>1. CASE MonitorAlone \/ TimePasses \/ FaultAlone \/ \E w \in Installers : InstallerAlone(w)
  BY <1>1 DEF MonitorAlone, TimePasses, FaultAlone, InstallerAlone, MaintenanceStep, Counted,
              maintenanceVars
<1>2. CASE Moved \/ MovedBack
  BY <1>2 DEF Moved, MovedBack, MaintenanceStep, Counted, Replace, Names
<1>3. CASE WholeReboot
  BY <1>3 DEF WholeReboot, Trouble, MaintenanceStep, Counted
<1>4. ASSUME NEW u \in Units,
             \/ UpdateHosts(u) \/ HostsUpdated(u) \/ HostsNotUpdated(u)
             \/ RunKilled(u) \/ Triggered(u) \/ Elsewhere(u)
      PROVE  MaintenanceStep
  <2>1. UnitStep(u) /\ Counted
    BY <1>4 DEF UpdateHosts, HostsUpdated, HostsNotUpdated, RunKilled, Triggered, Elsewhere, Trouble,
                UnitStep, Counted, Trigger, NotFound, Execute, Succeeded, Completed, Reported
  <2> QED BY <2>1 DEF MaintenanceStep
<1> QED BY <1>1, <1>2, <1>3, <1>4 DEF GuardNext

\* What the monitor and the maintenance have to do with each other.
Coupled == /\ \A u \in Units : installer[u] # "none" <=> AtHosts(u) /\ run[u].busy
           /\ script = "there" <=> "hosts" \in scripts

\* A step that is the monitor's own leaves what it shares as it was.
LEMMA MonitorKept ==
  ASSUME GuardTypeOK, MonitorNext, UNCHANGED <<run, scripts>>, ~Undeploy, ~Deploy
  PROVE  MonitorTypeOK' /\ Coupled'
<1> USE MonitorConstants, GuardConstants
<1>t. MonitorTypeOK /\ Coupled
  BY DEF GuardTypeOK, Coupled
<1>1. ASSUME NEW w \in Installers, InstallerStep(w)
      PROVE  MonitorTypeOK' /\ Coupled'
  <2>1. installer[w] = "running" /\ UNCHANGED <<process, machine>> /\ faults' \in 0..MaxFaults
        /\ (installer' = installer \/ \E r \in {"written", "failed"} :
                                         installer' = [installer EXCEPT ![w] = r])
    BY <1>1, <1>t DEF InstallerStep, WritePiece, WriteAll, InstallerFails, MonitorTypeOK
  <2>2. \A v \in Installers : installer'[v] # "none" <=> installer[v] # "none"
    BY <2>1, <1>t DEF MonitorTypeOK
  <2>3. installer' \in [Installers -> {"none", "running", "written", "failed"}]
    BY <2>1, <1>t DEF MonitorTypeOK
  <2>4. hosts' \in {"intact", "tampered", "missing"} /\ events' \in 0..MaxEvents
    BY <1>1, <1>t DEF InstallerStep, WritePiece, WriteAll, InstallerFails, Becomes, MonitorTypeOK, file
  <2>5. MonitorTypeOK'
    BY <2>1, <2>2, <2>3, <2>4, <1>t DEF MonitorTypeOK, process, machine
  <2> QED BY <2>1, <2>2, <2>5, <1>t DEF Coupled, AtHosts, ToDo, machine
<1>2. ASSUME NEW i \in {"none", "running"}, installer' = [installer EXCEPT !["monitor"] = i],
             monitor' \in {"down", "waiting", "restoring"}, monitor' = "restoring" <=> i = "running",
             hosts' = hosts, events' \in 0..MaxEvents, cooling' = cooling, UNCHANGED machine,
             faults' \in 0..MaxFaults
      PROVE  MonitorTypeOK' /\ Coupled'
  <2>1. installer'["monitor"] = i /\ \A u \in Units : installer'[u] = installer[u]
    BY <1>2, <1>t DEF MonitorTypeOK
  <2>2. installer' \in [Installers -> {"none", "running", "written", "failed"}]
    BY <1>2, <1>t DEF MonitorTypeOK
  <2> QED BY <1>2, <2>1, <2>2, <1>t DEF MonitorTypeOK, Coupled, AtHosts, ToDo, machine
<1>3. CASE MonitorStep
  <2>1. CASE Launch \/ LaunchFails \/ DropEvent \/ HandleEvent \/ Poll
    BY <2>1, <1>t DEF Launch, LaunchFails, DropEvent, HandleEvent, Poll, MonitorTypeOK, Coupled, AtHosts,
                      ToDo, monitorVars, file, process, machine
  <2>2. CASE Check
    <3>1. CASE UNCHANGED installer
      BY <2>2, <3>1, <1>t DEF Check, RunInstaller, MonitorTypeOK, Coupled, AtHosts, ToDo, file, machine
    <3>2. CASE ~ UNCHANGED installer
      BY <2>2, <3>2, <1>2, <1>t DEF Check, RunInstaller, MonitorTypeOK, file
    <3> QED BY <3>1, <3>2
  <2>3. CASE Returned
    BY <2>3, <1>2, <1>t DEF Returned, MonitorTypeOK, file
  <2> QED BY <1>3, <2>1, <2>2, <2>3 DEF MonitorStep
<1>4. CASE Killed
  BY <1>4, <1>2, <1>t DEF Killed, MonitorTypeOK
<1>5. CASE CoolDown
  BY <1>5, <1>t DEF CoolDown, MonitorTypeOK, Coupled, AtHosts, ToDo, file, machine
<1>6. ASSUME NEW h \in {"tampered", "missing"}, Tamper(h)
      PROVE  MonitorTypeOK' /\ Coupled'
  BY <1>6, <1>t DEF Tamper, Becomes, MonitorTypeOK, Coupled, AtHosts, ToDo, process, machine
<1> QED BY <1>1, <1>3, <1>4, <1>5, <1>6 DEF MonitorNext, HostsFault

\* A step that is a unit's: its installer starts, comes to its end or is killed with it.
LEMMA UnitKept ==
  ASSUME GuardTypeOK, NEW u \in Units,
         \/ UpdateHosts(u) \/ HostsUpdated(u) \/ HostsNotUpdated(u)
         \/ RunKilled(u) \/ Triggered(u) \/ Elsewhere(u)
  PROVE  MonitorTypeOK' /\ Coupled'
<1> USE MonitorConstants, GuardConstants
<1>t. MonitorTypeOK /\ Coupled
  BY DEF GuardTypeOK, Coupled
<1>r. run \in [Units -> [step : 0..4, busy : BOOLEAN, failures : SUBSET Names]]
      /\ (run[u].busy => run[u].step \in 1..3) /\ u \in Installers /\ u # "monitor"
  BY DEF GuardTypeOK, MaintenanceTypeOK
\* The run of u becomes r, and its installer i.
<1>1. ASSUME NEW i \in {"none", "running"}, NEW r,
             installer' = [installer EXCEPT ![u] = i], run' = [run EXCEPT ![u] = r],
             i # "none" <=> (r.step \in 1..3 /\ Steps[r.step] = "hosts" /\ r.busy),
             UNCHANGED <<file, process, machine, faults, scripts>>
      PROVE  MonitorTypeOK' /\ Coupled'
  <2>1. /\ installer'[u] = i /\ run'[u] = r
        /\ \A v \in Units \ {u} : installer'[v] = installer[v] /\ run'[v] = run[v]
        /\ installer'["monitor"] = installer["monitor"]
        /\ installer' \in [Installers -> {"none", "running", "written", "failed"}]
    BY <1>1, <1>t, <1>r DEF MonitorTypeOK
  <2>2. MonitorTypeOK'
    BY <1>1, <1>t, <2>1 DEF MonitorTypeOK, file, process, machine
  <2>3. \A v \in Units : installer'[v] # "none" <=> AtHosts(v)' /\ run'[v].busy
    BY <1>1, <1>t, <2>1 DEF Coupled, AtHosts, ToDo
  <2> QED BY <1>1, <1>t, <2>2, <2>3 DEF Coupled, machine
<1>g. ASSUME NEW fs
      PROVE  GoOn(u, fs).busy = FALSE
  BY DEF GoOn
<1>i. Idle.busy = FALSE
  BY DEF Idle
<1>2. CASE UpdateHosts(u)
  <2> DEFINE r == [run[u] EXCEPT !.busy = TRUE]
  <2>1. r.step = run[u].step /\ r.busy = TRUE /\ run' = [run EXCEPT ![u] = r]
    BY <1>2, <1>r DEF UpdateHosts, Execute
  <2>2. r.step \in 1..3 /\ Steps[r.step] = "hosts"
    BY <1>2, <2>1 DEF UpdateHosts, AtHosts, ToDo
  <2> HIDE DEF r
  <2> QED BY <1>1, <1>2, <2>1, <2>2 DEF UpdateHosts, Execute, RunInstaller, Alone
<1>3. CASE HostsUpdated(u)
  BY <1>1, <1>3, <1>g DEF HostsUpdated, Succeeded, Ended, Alone
<1>4. CASE HostsNotUpdated(u)
  BY <1>1, <1>4, <1>g DEF HostsNotUpdated, StepFailed, Ended, Alone
<1>5. CASE RunKilled(u)
  BY <1>1, <1>5, <1>i DEF RunKilled, Trouble, TimedOut, Ended, Alone
<1>6. CASE Triggered(u) \/ Elsewhere(u)
  <2>1. scripts' = scripts /\ UNCHANGED <<file, process, machine, installer, faults>>
    BY <1>6 DEF Triggered, Elsewhere, Trigger, NotFound, Completed, Reported, Execute, Succeeded, StepFailed,
                Trouble, monitorVars
  <2>2. /\ \A v \in Units \ {u} : run'[v] = run[v]
        /\ AtHosts(u)' /\ run'[u].busy <=> AtHosts(u) /\ run[u].busy
    <3>1. CASE Trigger(u)
      <4> DEFINE r == [Idle EXCEPT !.step = 1]
      <4>1. run' = [run EXCEPT ![u] = r]
        BY <3>1 DEF Trigger
      <4>2. r.busy = FALSE
        BY DEF Idle
      <4>3. ~ run[u].busy
        BY <3>1, <1>r DEF Trigger, Running
      <4> HIDE DEF r
      <4> QED BY <4>1, <4>2, <4>3, <1>r
    <3>2. CASE NotFound(u)
      BY <3>2, <1>g, <1>r DEF NotFound
    <3>3. CASE Completed(u) \/ Reported(u)
      BY <3>3, <1>i, <1>r DEF Completed, Reported
    <3>4. CASE ~AtHosts(u) /\ Execute(u)
      BY <3>4, <1>r DEF Execute, AtHosts, ToDo
    <3>5. CASE ~AtHosts(u) /\ (Succeeded(u) \/ Trouble(StepFailed(u)))
      BY <3>5, <1>g, <1>r DEF Succeeded, Trouble, StepFailed
    <3> QED BY <1>6, <3>1, <3>2, <3>3, <3>4, <3>5 DEF Triggered, Elsewhere
  <2>3. \A v \in Units \ {u} : (AtHosts(v)' /\ run'[v].busy) <=> (AtHosts(v) /\ run[v].busy)
    BY <2>2 DEF AtHosts, ToDo
  <2> QED BY <2>1, <2>2, <2>3, <1>t DEF Coupled, MonitorTypeOK, file, process, machine
<1> QED BY <1>2, <1>3, <1>4, <1>5, <1>6

\* A reboot, and the repository with the installer moved away or put back.
LEMMA RestKept ==
  ASSUME GuardTypeOK, WholeReboot \/ Moved \/ MovedBack
  PROVE  MonitorTypeOK' /\ Coupled'
<1> USE MonitorConstants, GuardConstants
<1>t. MonitorTypeOK /\ Coupled
  BY DEF GuardTypeOK, Coupled
<1>1. CASE WholeReboot
  <2>1. /\ \A u \in Units : run'[u] = Idle
        /\ \A w \in Installers : installer'[w] = "none"
        /\ scripts' = scripts
    BY <1>1 DEF WholeReboot, Trouble, Reboot
  <2>2. Idle.busy = FALSE
    BY DEF Idle
  <2> QED BY <1>1, <1>t, <2>1, <2>2 DEF WholeReboot, MonitorTypeOK, Coupled, machine
<1>2. CASE Moved
  BY <1>2, <1>t DEF Moved, Undeploy, Misplace, MonitorTypeOK, Coupled, AtHosts, ToDo, file, process
<1>3. CASE MovedBack
  BY <1>3, <1>t DEF MovedBack, Deploy, Replace, MonitorTypeOK, Coupled, AtHosts, ToDo, file, process
<1> QED BY <1>1, <1>2, <1>3

GuardInv == GuardTypeOK /\ Accounts

LEMMA GuardStarts == GuardInit => GuardInv
<1> SUFFICES ASSUME GuardInit PROVE GuardInv
  OBVIOUS
<1> USE MonitorConstants, MaintenanceConstants, GuardConstants
<1>i. Idle \in [step : 0..4, busy : BOOLEAN, failures : SUBSET Names] /\ Idle.step = 0 /\ Idle.busy = FALSE
  BY DEF Idle
<1>1. MonitorTypeOK
  BY DEF GuardInit, MonitorInit, MonitorTypeOK
<1>2. MaintenanceTypeOK /\ Accounts
  BY <1>i DEF GuardInit, MaintenanceInit, MaintenanceTypeOK, Accounts, Running
<1>3. Coupled
  BY <1>i DEF GuardInit, MonitorInit, MaintenanceInit, Coupled, Names
<1> QED BY <1>1, <1>2, <1>3 DEF GuardInv, GuardTypeOK, Coupled

LEMMA GuardStep == GuardInv /\ [GuardNext]_guardVars => GuardInv'
<1> SUFFICES ASSUME GuardInv, [GuardNext]_guardVars PROVE GuardInv'
  OBVIOUS
<1>t. GuardTypeOK /\ MaintenanceInv
  BY DEF GuardInv, GuardTypeOK, MaintenanceInv
<1>1. CASE GuardNext
  <2>1. MaintenanceInv'
    BY <1>1, <1>t, GuardIsMaintenance, MaintenanceKept
  <2>2. MonitorTypeOK' /\ Coupled'
    <3>1. CASE MonitorAlone \/ TimePasses \/ FaultAlone \/ \E w \in Installers : InstallerAlone(w)
      <4>1. MonitorNext /\ ~Undeploy /\ ~Deploy /\ UNCHANGED <<run, scripts>>
        <5>1. UNCHANGED <<run, scripts>> /\ MonitorNext
          BY <3>1 DEF MonitorAlone, TimePasses, FaultAlone, InstallerAlone, MonitorNext, HostsFault,
                      maintenanceVars
        <5>2. script' = script
          BY <3>1 DEF MonitorAlone, TimePasses, FaultAlone, InstallerAlone, MonitorStep, Launch,
                      LaunchFails, DropEvent, HandleEvent, Poll, Check, Returned, CoolDown, Killed,
                      Tamper, InstallerStep, WritePiece, WriteAll, InstallerFails, machine, monitorVars
        <5> QED BY <5>1, <5>2 DEF Undeploy, Deploy
      <4> QED BY <4>1, <1>t, MonitorKept
    <3>2. CASE WholeReboot \/ Moved \/ MovedBack
      BY <3>2, <1>t, RestKept
    <3>3. ASSUME NEW u \in Units, UpdateHosts(u) \/ HostsUpdated(u) \/ HostsNotUpdated(u)
                                  \/ RunKilled(u) \/ Triggered(u) \/ Elsewhere(u)
          PROVE  MonitorTypeOK' /\ Coupled'
      BY <3>3, <1>t, UnitKept
    <3> QED BY <1>1, <3>1, <3>2, <3>3 DEF GuardNext
  <2> QED BY <2>1, <2>2 DEF GuardInv, GuardTypeOK, MaintenanceInv, Coupled
<1>2. CASE UNCHANGED guardVars
  BY <1>2 DEF GuardInv, GuardTypeOK, MonitorTypeOK, MaintenanceTypeOK, Accounts, AtHosts, ToDo, Running,
              guardVars, monitorVars, maintenanceVars, file, process, machine
<1> QED BY <1>1, <1>2

\* Every variable keeps its type; a run waits for the installer it started and for no
\* other, whoever else runs it, whatever is killed.
THEOREM TypeCorrect == GuardSpec => []GuardTypeOK
<1>1. GuardInv => GuardTypeOK
  BY DEF GuardInv
<1> QED BY <1>1, GuardStarts, GuardStep, PTL DEF GuardSpec

\* However many units run the maintenance at once, and whatever fails, is missing or is
\* killed: a run that ends green has done all its repairs, and one that reports a failure
\* reports what it has not done, no less and no more.
THEOREM HonestEnd == GuardSpec => EndsHonestly
<1>1. GuardInv /\ [GuardNext]_guardVars =>
        [\A u \in Units : Running(u) =>
           /\ unit'[u] = "success" => undone[u] = {}
           /\ flag' # flag /\ unit'[u] = "failed" => flag' = undone[u] /\ flag' # {}]_maintenanceVars
  <2> SUFFICES ASSUME GuardInv, GuardNext, NEW u \in Units, Running(u)
               PROVE  /\ unit'[u] = "success" => undone[u] = {}
                      /\ flag' # flag /\ unit'[u] = "failed" => flag' = undone[u] /\ flag' # {}
    BY DEF guardVars
  <2>t. MaintenanceTypeOK /\ Accounts
    BY DEF GuardInv, GuardTypeOK
  <2>u. /\ unit[u] = "activating" /\ undone[u] = run[u].failures \cup Ahead[run[u].step]
        /\ unit \in [Units -> {"inactive", "activating", "success", "failed"}]
    BY <2>t DEF MaintenanceTypeOK, Accounts
  <2>a. Ahead[4] = {}
    BY DEF Ahead
  <2>1. MaintenanceStep
    BY GuardIsMaintenance
  <2>2. ASSUME NEW v \in Units, UnitStep(v)
        PROVE  /\ unit'[u] = "success" => undone[u] = {}
               /\ flag' # flag /\ unit'[u] = "failed" => flag' = undone[u] /\ flag' # {}
    <3>1. CASE Trigger(v) \/ NotFound(v) \/ Execute(v) \/ Succeeded(v) \/ StepFailed(v)
      BY <3>1, <2>u DEF Trigger, NotFound, Execute, Succeeded, StepFailed
    <3>2. CASE Completed(v)
      BY <3>2, <2>u, <2>a DEF Completed
    <3>3. CASE Reported(v)
      BY <3>3, <2>u, <2>a DEF Reported
    <3>4. CASE TimedOut(v)
      BY <3>4, <2>u DEF TimedOut
    <3> QED BY <2>2, <3>1, <3>2, <3>3, <3>4 DEF UnitStep
  <2>3. CASE \E s \in Names : Misplace(s) \/ Replace(s)
    BY <2>3, <2>u DEF Misplace, Replace
  <2>4. CASE Reboot
    BY <2>4, <2>u DEF Reboot
  <2>5. CASE UNCHANGED <<scripts, run, unit, flag, undone>>
    BY <2>5, <2>u
  <2> QED BY <2>1, <2>2, <2>3, <2>4, <2>5 DEF MaintenanceStep
<1> QED BY <1>1, GuardStarts, GuardStep, PTL DEF GuardSpec, EndsHonestly
=============================================================================
