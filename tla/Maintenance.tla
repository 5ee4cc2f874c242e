----------------------------- MODULE Maintenance -----------------------------
(***************************************************************************)
(* periodic-system-maintenance.sh: three repair scripts in a row, every    *)
(* failure reported.  Two units run it, the hourly timer's and the one of  *)
(* system start, and nothing keeps their runs apart.                       *)
(***************************************************************************)
EXTENDS Integers, Sequences

CONSTANTS
  Units,    \* "timer" and "startup"
  MaxTrouble \* bound on failing steps, missing scripts, kills and reboots together

ASSUME MaintenanceConstants == "timer" \in Units /\ MaxTrouble \in Nat

Steps == <<"pacman", "makepkg", "hosts">>
Names == {"pacman", "makepkg", "hosts"}

VARIABLES
  scripts, \* the repair scripts that are where the placeholders point
  run,     \* [Units -> [step, busy, failures]]; step 0 when it does not run
  unit,    \* [Units -> what systemd shows]
  flag,    \* what LAST_RUN_FAILED lists; {} when there is no such file
  undone,  \* [Units -> the repairs the latest run has not done]
  trouble

maintenanceVars == <<scripts, run, unit, flag, undone, trouble>>

Idle == [step |-> 0, busy |-> FALSE, failures |-> {}]
Running(u) == run[u].step # 0
ToDo(u) == Steps[run[u].step]

MaintenanceInit ==
  /\ scripts = Names /\ run = [u \in Units |-> Idle]
  /\ unit = [u \in Units |-> "inactive"] /\ flag = {}
  /\ undone = [u \in Units |-> {}] /\ trouble = 0

\* Mutant: RemainAfterExit for the timer's unit too.
BuggyTrigger(u) == /\ ~Running(u) /\ unit[u] # "success"
                   /\ run' = [run EXCEPT ![u] = [Idle EXCEPT !.step = 1]]
                   /\ unit' = [unit EXCEPT ![u] = "activating"]
                   /\ undone' = [undone EXCEPT ![u] = Names]
                   /\ UNCHANGED <<scripts, flag, trouble>>

\* The timer fires as often as it likes; RemainAfterExit keeps the other unit from
\* running twice in one boot unless it failed.
Trigger(u) == /\ ~Running(u) /\ (u = "timer" \/ unit[u] # "success")
              /\ run' = [run EXCEPT ![u] = [Idle EXCEPT !.step = 1]]
              /\ unit' = [unit EXCEPT ![u] = "activating"]
              /\ undone' = [undone EXCEPT ![u] = Names]
              /\ UNCHANGED <<scripts, flag, trouble>>

\* Mutant: what fail_loudly used not to be.
BuggyFailLoudly(u) == run[u].failures
FailLoudly(u) == run[u].failures \cup {ToDo(u)}

GoOn(u, fs) == [step |-> run[u].step + 1, busy |-> FALSE, failures |-> fs]

\* execute_with_log: a script that is not there, or one that is run to its end.
NotFound(u) == /\ run[u].step \in 1..3 /\ ~run[u].busy /\ ToDo(u) \notin scripts
               /\ run' = [run EXCEPT ![u] = GoOn(u, FailLoudly(u))]
               /\ UNCHANGED <<scripts, unit, flag, undone, trouble>>

Execute(u) == /\ run[u].step \in 1..3 /\ ~run[u].busy /\ ToDo(u) \in scripts
              /\ run' = [run EXCEPT ![u].busy = TRUE]
              /\ UNCHANGED <<scripts, unit, flag, undone, trouble>>

Succeeded(u) == /\ run[u].busy
                /\ run' = [run EXCEPT ![u] = GoOn(u, run[u].failures)]
                /\ undone' = [undone EXCEPT ![u] = @ \ {ToDo(u)}]
                /\ UNCHANGED <<scripts, unit, flag, trouble>>

StepFailed(u) == /\ run[u].busy
                 /\ run' = [run EXCEPT ![u] = GoOn(u, FailLoudly(u))]
                 /\ UNCHANGED <<scripts, unit, flag, undone>>

\* Mutant: the flag of an earlier run is left there.
BuggyCompleted(u) == /\ run[u].step = 4 /\ run[u].failures = {}
                     /\ unit' = [unit EXCEPT ![u] = "success"]
                     /\ run' = [run EXCEPT ![u] = Idle]
                     /\ UNCHANGED <<scripts, flag, undone, trouble>>

Completed(u) == /\ run[u].step = 4 /\ run[u].failures = {}
                /\ flag' = {} /\ unit' = [unit EXCEPT ![u] = "success"]
                /\ run' = [run EXCEPT ![u] = Idle]
                /\ UNCHANGED <<scripts, undone, trouble>>

Reported(u) == /\ run[u].step = 4 /\ run[u].failures # {}
               /\ flag' = run[u].failures /\ unit' = [unit EXCEPT ![u] = "failed"]
               /\ run' = [run EXCEPT ![u] = Idle]
               /\ UNCHANGED <<scripts, undone, trouble>>

\* TimeoutStartSec: systemd kills the run and marks the unit failed.
TimedOut(u) == /\ Running(u)
               /\ run' = [run EXCEPT ![u] = Idle] /\ unit' = [unit EXCEPT ![u] = "failed"]
               /\ UNCHANGED <<scripts, flag, undone>>

Reboot == /\ run' = [u \in Units |-> Idle]
          /\ unit' = [u \in Units |-> "inactive"]
          /\ undone' = [u \in Units |-> {}]
          /\ UNCHANGED <<scripts, flag>>

\* A repair script moves away, as in the reorganisation the header tells of.
Misplace(s) == /\ s \in scripts /\ scripts' = scripts \ {s}
               /\ UNCHANGED <<run, unit, flag, undone>>

Replace(s) == /\ s \in Names \ scripts /\ scripts' = scripts \cup {s}
              /\ UNCHANGED <<run, unit, flag, undone, trouble>>

Trouble(A) == A /\ trouble < MaxTrouble /\ trouble' = trouble + 1

RunStep(u) == NotFound(u) \/ Execute(u) \/ Succeeded(u) \/ Completed(u) \/ Reported(u)

MaintenanceNext ==
  \/ \E u \in Units : \/ Trigger(u) \/ RunStep(u)
                      \/ Trouble(StepFailed(u)) \/ Trouble(TimedOut(u))
  \/ \E s \in Names : Replace(s) \/ Trouble(Misplace(s))
  \/ Trouble(Reboot)

\* The timer fires for ever, runs go on, and what was misplaced is put back.
MaintenanceFairness ==
  /\ WF_maintenanceVars(Trigger("timer"))
  /\ \A u \in Units : WF_maintenanceVars(RunStep(u))
  /\ \A s \in Names : WF_maintenanceVars(Replace(s))

MaintenanceSpec == MaintenanceInit /\ [][MaintenanceNext]_maintenanceVars /\ MaintenanceFairness

-----------------------------------------------------------------------------
\* Every variable keeps its type, and only a run under way has a memory.
MaintenanceTypeOK ==
  /\ scripts \subseteq Names /\ flag \subseteq Names /\ trouble \in 0..MaxTrouble
  /\ run \in [Units -> [step : 0..4, busy : BOOLEAN, failures : SUBSET Names]]
  /\ unit \in [Units -> {"inactive", "activating", "success", "failed"}]
  /\ undone \in [Units -> SUBSET Names]
  /\ \A u \in Units : /\ run[u].busy => run[u].step \in 1..3
                      /\ Running(u) <=> unit[u] = "activating"

\* A run ends with the truth: the unit is green only when every repair was done, and
\* what is reported otherwise is exactly what was not, though steps fail, scripts
\* are missing and the two units run at the same time.
EndsHonestly == [][\A u \in Units : Running(u) =>
   /\ unit'[u] = "success" => undone[u] = {}
   /\ flag' # flag /\ unit'[u] = "failed" => flag' = undone[u] /\ flag' # {}]_maintenanceVars

\* Once the trouble is over the breadcrumb goes away and stays away.
TroubleIsForgotten == <>[](flag = {})

\* Any failure leaves the breadcrumb file.
FailureLeavesBreadcrumb == \A u \in Units : unit[u] = "failed" => flag # {}
=============================================================================
