-------------------------- MODULE AutoUpdateProofs ---------------------------
(***************************************************************************)
(* The update lock, for any number of runs: types first, then OwnLock,     *)
(* which is inductive with them and gives the exclusion.                   *)
(***************************************************************************)
EXTENDS AutoUpdate, TLAPS

\* TypeOK is inductive.
LEMMA TypesStep == TypeOK /\ [Next]_vars => TypeOK'
<1> SUFFICES ASSUME TypeOK, [Next]_vars PROVE TypeOK'
  OBVIOUS
<1> USE DEF TypeOK
<1>1. ASSUME NEW r \in Runs, Start(r) \/ Step(r) PROVE TypeOK'
  BY <1>1 DEF Start, Step, Acquire, Refused, Pacman, Yay, Cleanup, Goto
<1>2. ASSUME NEW r \in Runs, Terminated(r) \/ Killed(r) PROVE TypeOK'
  <2>1. kills' \in 0..MaxKills
    BY <1>2, UpdateConstants DEF Terminated, Killed
  <2>2. QED
    BY <1>2, <2>1 DEF Terminated, Killed, Goto
<1>3. CASE Reboot
  <2>1. kills' \in 0..MaxKills
    BY <1>3, UpdateConstants DEF Reboot
  <2>2. QED
    BY <1>3, <2>1 DEF Reboot
<1>4. CASE UNCHANGED vars
  BY <1>4 DEF vars
<1>5. QED
  BY <1>1, <1>2, <1>3, <1>4 DEF Next

\* Every variable of the update lock keeps its type.
THEOREM TypeCorrect == Spec => []TypeOK
<1>1. Init => TypeOK
  <2>1. 0 \in 0..MaxKills
    BY UpdateConstants
  <2>2. QED
    BY <2>1 DEF Init, TypeOK
<1>2. QED
  BY <1>1, TypesStep, PTL DEF Spec

\* OwnLock is inductive: only the run past the lock removes it, before an intruder.
LEMMA OwnLockStep == TypeOK /\ OwnLock /\ [Next]_vars => OwnLock'
<1> SUFFICES ASSUME TypeOK, OwnLock, [Next]_vars, ~intruded' PROVE OwnLock'
  BY DEF OwnLock
<1> USE DEF TypeOK, OwnLock, Updating
<1>1. ~intruded
  BY DEF Next, Start, Step, Acquire, Refused, Pacman, Yay, Cleanup, Terminated, Killed, Reboot, vars
<1>2. ASSUME NEW r \in Runs, Start(r) \/ Refused(r) \/ Pacman(r) \/ Yay(r) \/ Terminated(r) \/ Killed(r)
      PROVE OwnLock'
  <2>1. lock' = lock /\ \A s \in Runs : s # r => pc'[s] = pc[s]
    BY <1>2 DEF Start, Refused, Pacman, Yay, Terminated, Killed, Goto
  <2>2. Updating(r)' \/ pc'[r] = "exiting" => Updating(r) \/ pc[r] = "exiting"
    BY <1>2 DEF Start, Refused, Pacman, Yay, Terminated, Killed, Goto
  <2>3. QED
    BY <1>1, <2>1, <2>2
<1>3. ASSUME NEW r \in Runs, Acquire(r) PROVE OwnLock'
  \* Nobody else is past a lock that is not there.
  <2>1. \A s \in Runs : pc[s] \in {"idle", "locking"}
    BY <1>1, <1>3, PidsAreNoStrings DEF Acquire
  <2>2. QED
    BY <1>3, <2>1 DEF Acquire, Goto
<1>4. ASSUME NEW r \in Runs, Cleanup(r) PROVE OwnLock'
  \* The lock is r's, so nobody else is past it.
  <2>1. \A s \in Runs : s # r => pc[s] \in {"idle", "locking"}
    BY <1>1, <1>4 DEF Cleanup
  <2>2. QED
    BY <1>4, <2>1 DEF Cleanup, Goto
<1>5. CASE Reboot
  BY <1>5 DEF Reboot
<1>6. CASE UNCHANGED vars
  BY <1>6 DEF vars
<1>7. QED
  BY <1>2, <1>3, <1>4, <1>5, <1>6 DEF Next, Step

\* Whatever the number of runs and kills, two updates overlap only after some run has
\* come to the EXIT trap without the lock.
THEOREM Exclusion == Spec => []ExclusiveUntilIntruded
<1>1. Init => OwnLock
  BY DEF Init, OwnLock, Updating
<1>2. OwnLock => ExclusiveUntilIntruded
  BY DEF OwnLock, ExclusiveUntilIntruded, MutualExclusion
<1>3. QED
  BY <1>1, <1>2, OwnLockStep, TypeCorrect, PTL DEF Spec
=============================================================================
