----------------------------- MODULE AutoUpdate ------------------------------
(***************************************************************************)
(* auto-system-update.sh: the lock file, and the EXIT trap that removes it *)
(* and is set before the lock is taken.  Runs come from the daily timer    *)
(* and from root shells.                                                   *)
(***************************************************************************)
EXTENDS Integers

CONSTANTS
  Runs,    \* those who may run the script
  Timer,   \* the one that runs it every day
  MaxKills \* bound on runs that are terminated or killed

ASSUME UpdateConstants == Timer \in Runs /\ MaxKills \in Nat

NoLock == "no lock"
ASSUME PidsAreNoStrings == NoLock \notin Runs

VARIABLES
  pc,       \* [Runs -> "idle", "locking", "pacman", "yay", "exiting"]
  lock,     \* NoLock, or whose pid LOCK_FILE holds
  intruded, \* has a run come to its EXIT trap without having had the lock
  kills

vars == <<pc, lock, intruded, kills>>

Init == /\ pc = [r \in Runs |-> "idle"] /\ lock = NoLock
        /\ intruded = FALSE /\ kills = 0

Goto(r, l) == pc' = [pc EXCEPT ![r] = l]

Start(r) == /\ pc[r] = "idle" /\ Goto(r, "locking")
            /\ UNCHANGED <<lock, intruded, kills>>

\* Mutant: no noclobber.
BuggyAcquire(r) == /\ pc[r] = "locking"
                   /\ lock' = r /\ Goto(r, "pacman")
                   /\ UNCHANGED <<intruded, kills>>

\* noclobber: the file is created, or the redirection fails.
Acquire(r) == /\ pc[r] = "locking" /\ lock = NoLock
              /\ lock' = r /\ Goto(r, "pacman")
              /\ UNCHANGED <<intruded, kills>>

Refused(r) == /\ pc[r] = "locking" /\ lock # NoLock
              /\ Goto(r, "exiting") /\ intruded' = TRUE
              /\ UNCHANGED <<lock, kills>>

\* Both updates run whether or not they succeed.
Pacman(r) == /\ pc[r] = "pacman" /\ Goto(r, "yay")
             /\ UNCHANGED <<lock, intruded, kills>>

Yay(r) == /\ pc[r] = "yay" /\ Goto(r, "exiting")
          /\ UNCHANGED <<lock, intruded, kills>>

\* Mutant: the run ends and its lock stays.
BuggyCleanup(r) == /\ pc[r] = "exiting" /\ Goto(r, "idle")
                   /\ UNCHANGED <<lock, intruded, kills>>

\* The EXIT trap.
Cleanup(r) == /\ pc[r] = "exiting"
              /\ lock' = NoLock /\ Goto(r, "idle")
              /\ UNCHANGED <<intruded, kills>>

\* SIGTERM from TimeoutStartSec, or a failing log_msg under set -e: the trap runs.
Terminated(r) == /\ pc[r] \in {"locking", "pacman", "yay"} /\ kills < MaxKills
                 /\ kills' = kills + 1 /\ Goto(r, "exiting")
                 /\ intruded' = (intruded \/ pc[r] = "locking")
                 /\ UNCHANGED lock

\* SIGKILL: it does not.
Killed(r) == /\ pc[r] # "idle" /\ kills < MaxKills
             /\ kills' = kills + 1 /\ Goto(r, "idle")
             /\ UNCHANGED <<lock, intruded>>

\* /var/lock is a tmpfs.
Reboot == /\ kills < MaxKills /\ kills' = kills + 1
          /\ pc' = [r \in Runs |-> "idle"] /\ lock' = NoLock
          /\ UNCHANGED intruded

Step(r) == Acquire(r) \/ Refused(r) \/ Pacman(r) \/ Yay(r) \/ Cleanup(r)
Next == (\E r \in Runs : Start(r) \/ Step(r) \/ Terminated(r) \/ Killed(r)) \/ Reboot

Spec == Init /\ [][Next]_vars

\* The timer fires every day and a run goes on to its end.
FairSpec == Spec /\ WF_vars(Start(Timer)) /\ \A r \in Runs : WF_vars(Step(r))

-----------------------------------------------------------------------------
\* Every variable keeps its type.
TypeOK == /\ pc \in [Runs -> {"idle", "locking", "pacman", "yay", "exiting"}]
          /\ lock \in Runs \cup {NoLock}
          /\ intruded \in BOOLEAN /\ kills \in 0..MaxKills

Updating(r) == pc[r] \in {"pacman", "yay"}

\* No two updates run at once.
MutualExclusion == \A r, s \in Runs : Updating(r) /\ Updating(s) => r = s

\* The lock works as long as nobody who was refused it, or ended on the way to it, has
\* run the EXIT trap; a kill that leaves the lock behind does no harm.
ExclusiveUntilIntruded == intruded \/ MutualExclusion

\* Whoever is past the lock has his own pid in it, up to the first intruder: what
\* makes ExclusiveUntilIntruded inductive.
OwnLock == intruded \/ \A r \in Runs : Updating(r) \/ pc[r] = "exiting" => lock = r

\* A lock left behind by a kill never stops the updates for good.
KeepsUpdating == []<>(\E r \in Runs : Updating(r))

=============================================================================
