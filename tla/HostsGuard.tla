----------------------------- MODULE HostsGuard ------------------------------
(***************************************************************************)
(* The two that keep /etc/hosts as it should be: the monitor, and the      *)
(* maintenance whose last step runs the same installer.  Neither knows of  *)
(* the other.                                                              *)
(***************************************************************************)
EXTENDS HostsMonitor, Maintenance

ASSUME GuardConstants == Units \subseteq Installers /\ "monitor" \notin Units

guardVars == <<monitorVars, maintenanceVars>>

GuardInit == MonitorInit /\ MaintenanceInit

\* The third step of a run is a run of the installer.
AtHosts(u) == run[u].step \in 1..3 /\ ToDo(u) = "hosts"
Ended(u) == installer' = [installer EXCEPT ![u] = "none"]
Alone == UNCHANGED <<file, process, machine, faults>>

UpdateHosts(u) == AtHosts(u) /\ Execute(u) /\ RunInstaller(u) /\ Alone
HostsUpdated(u) == installer[u] = "written" /\ Succeeded(u) /\ Ended(u) /\ Alone
HostsNotUpdated(u) == /\ installer[u] = "failed" /\ StepFailed(u) /\ Ended(u) /\ Alone
                      /\ UNCHANGED trouble
RunKilled(u) == Trouble(TimedOut(u)) /\ Ended(u) /\ Alone

Triggered(u) == Trigger(u) /\ UNCHANGED monitorVars

\* The steps that have nothing to do with /etc/hosts.
Elsewhere(u) == /\ UNCHANGED monitorVars
                /\ \/ NotFound(u) \/ Completed(u) \/ Reported(u)
                   \/ ~AtHosts(u) /\ (Execute(u) \/ Succeeded(u) \/ Trouble(StepFailed(u)))

\* One repository holds the installer that both run.
Moved == Undeploy /\ Misplace("hosts") /\ UNCHANGED trouble
MovedBack == Deploy /\ Replace("hosts")

WholeReboot == /\ Trouble(Reboot)
               /\ installer' = [w \in Installers |-> "none"]
               /\ monitor' = "down" /\ events' = 0
               /\ UNCHANGED <<hosts, cooling, machine, faults>>

MonitorAlone == MonitorStep /\ UNCHANGED maintenanceVars
TimePasses == CoolDown /\ UNCHANGED maintenanceVars
InstallerAlone(w) == InstallerStep(w) /\ UNCHANGED maintenanceVars
FaultAlone == /\ Killed \/ \E h \in {"tampered", "missing"} : Tamper(h)
              /\ UNCHANGED maintenanceVars

GuardNext == \/ MonitorAlone \/ TimePasses \/ FaultAlone \/ Moved \/ MovedBack \/ WholeReboot
             \/ \E w \in Installers : InstallerAlone(w)
             \/ \E u \in Units : \/ UpdateHosts(u) \/ HostsUpdated(u) \/ HostsNotUpdated(u)
                                 \/ RunKilled(u) \/ Triggered(u) \/ Elsewhere(u)

\* The timer fires for ever; nothing starts the other unit again.
GuardFairness ==
  /\ WF_guardVars(MonitorAlone) /\ WF_guardVars(TimePasses) /\ WF_guardVars(MovedBack)
  /\ WF_guardVars(Triggered("timer"))
  /\ \A w \in Installers : WF_guardVars(WriteAll(w) /\ UNCHANGED maintenanceVars)
  /\ \A u \in Units : WF_guardVars(UpdateHosts(u) \/ HostsUpdated(u) \/ HostsNotUpdated(u))
                      /\ WF_guardVars(Elsewhere(u) /\ trouble' = trouble)

GuardSpec == GuardInit /\ [][GuardNext]_guardVars /\ GuardFairness

-----------------------------------------------------------------------------
\* Every variable keeps its type; a run waits for the installer it started, and
\* the installer both run is there for both or for neither.
GuardTypeOK == /\ MonitorTypeOK /\ MaintenanceTypeOK
               /\ \A u \in Units : installer[u] # "none" <=> AtHosts(u) /\ run[u].busy
               /\ script = "there" <=> "hosts" \in scripts
=============================================================================
