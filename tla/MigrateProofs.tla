---------------------------- MODULE MigrateProofs ---------------------------
(***************************************************************************)
(* Theorems about Migrate, for every manifest, plan and number of faults.  *)
(*                                                                         *)
(* Frame lemmas say which actions may change a group of variables; every   *)
(* invariant is then proved over the few actions that can disturb it.  The *)
(* invariants come in layers, each proved from the one below.              *)
(***************************************************************************)
EXTENDS Migrate, TLAPS

-----------------------------------------------------------------------------
(***************************************************************************)
(* The plan.                                                               *)
(***************************************************************************)

\* An index of the plan is a natural number, and the action there is an id.
LEMMA PlanTyped ==
  /\ End \in Nat /\ 1 <= End
  /\ \A i \in Nat : 1 <= i /\ i < End => i \in 1..Len(Plan) /\ Plan[i] \in Ids
<1>1. Len(Plan) \in Nat /\ \A i \in 1..Len(Plan) : Plan[i] \in Ids
  BY PlanAssumption
<1> QED BY <1>1 DEF End

\* A run that is at an action has an index of the plan.
LEMMA CurInPlan ==
  ASSUME StepTyped, cur < End
  PROVE  cur \in 1..Len(Plan)
<1>1. cur \in Nat /\ 1 <= cur
  BY DEF StepTyped
<1> QED BY <1>1, PlanTyped

\* The action a run is at is one of the plan, and its item fits its phase.
LEMMA NowTyped ==
  ASSUME StepTyped, cur < End
  PROVE  /\ Now \in Ids
         /\ Now.phase \in {"move", "commit", "push"} => Now.item \in Entries
         /\ Now.phase = "bridge" => Now.item \in Bridged
         /\ Now.phase = "bridges-record" => Now.item = "-"
         /\ Now.phase \in {"rewrite", "link"} => Now.item \in Files
         /\ Now.phase = "project" => Now.item \in Projects
<1>1. cur \in 1..Len(Plan)
  BY CurInPlan
<1>2. Plan[cur] \in Ids
  BY <1>1, PlanAssumption
<1> QED BY <1>1, <1>2, PlanAssumption, ConstantsAssumption DEF Now

-----------------------------------------------------------------------------
(***************************************************************************)
(* Frames: what may change what.                                           *)
(***************************************************************************)

\* Only these actions touch the disk.
LEMMA DiskFrame ==
  ASSUME [Next]_vars
  PROVE  \/ UNCHANGED disk
         \/ Rename \/ Rewrite \/ RenameProject \/ Commit \/ Bridge
         \/ \E e \in Entries : \/ Park(e) \/ Unpark(e) \/ Unlink(e)
                               \/ Recreate(e) \/ ClearAway(e)
         \/ \E f \in Files : Revert(f)
<1>1. CASE UNCHANGED vars
  BY <1>1 DEF vars
<1>2. CASE Begin
  BY <1>2 DEF Begin, Refuse, BuildPlan
<1>3. CASE Fail
  BY <1>3 DEF Fail, Leave
<1>4. CASE Step /\ ~Fail
  BY <1>4 DEF Step, TakeLock, SkipAction, Pretend, Journal, Finish, Command, RecordMove,
              RecordBridges, Verify, AllParked, Suite, AllUnparked, Verdict, Drop,
              AllUnlinked, Leave
<1>5. CASE Disturb
  BY <1>5 DEF Disturb, Unable, Interrupt, Crash, Leave
<1> QED BY <1>1, <1>2, <1>3, <1>4, <1>5 DEF Next

\* Only Journal writes migration.jsonl, only RecordMove the moves journal, and
\* only RecordBridges and Drop the manifest's [bridges]; the lock is made by
\* TakeLock and goes with the process.
LEMMA KeptFrame ==
  ASSUME [Next]_vars
  PROVE  /\ UNCHANGED done \/ Journal
         /\ UNCHANGED moved \/ RecordMove
         /\ UNCHANGED recorded \/ RecordBridges \/ Drop
         /\ UNCHANGED lock \/ TakeLock \/ (lock' = "absent" /\ pc' = "idle")
<1> USE DEF kept
<1>1. CASE UNCHANGED vars
  BY <1>1 DEF vars
<1>2. CASE Begin
  BY <1>2 DEF Begin, Refuse, BuildPlan
<1>3. CASE Fail
  BY <1>3 DEF Fail, Leave, Forget
<1>4. CASE Step /\ ~Fail
  BY <1>4 DEF Step, TakeLock, SkipAction, Pretend, Finish, Command, Rename, Rewrite,
              RenameProject, Commit, Bridge, RecordMove, RecordBridges, Journal, Verify,
              AllParked, Suite, AllUnparked, Verdict, Drop, AllUnlinked, Leave, Forget,
              Park, Unpark, Unlink
<1>5. CASE Disturb
  BY <1>5 DEF Disturb, Unable, Interrupt, Crash, Leave, Forget, Recreate, ClearAway, Revert
<1> QED BY <1>1, <1>2, <1>3, <1>4, <1>5 DEF Next

\* A step of the process that is at an action and stays there.
StaysAt == /\ UNCHANGED <<cur, mode, skip>>
           /\ \/ TakeLock \/ Command \/ Rename \/ RecordMove \/ Rewrite \/ RenameProject
              \/ Commit \/ Bridge \/ RecordBridges \/ Verify \/ AllParked \/ Suite
              \/ AllUnparked \/ Verdict \/ Drop \/ AllUnlinked

\* A failure in a phase that is reported at the end of the run.
GoesOn == /\ Now.phase \in ContinueOnFail
          /\ Executing \/ Blocked
          /\ pc' = "loop" /\ cur' = cur + 1
          /\ failures' = failures \cup {Now}
          /\ UNCHANGED <<mode, skip>>

\* What a step does to the position of the process in its plan.
LEMMA StepFrame ==
  ASSUME [Next]_vars
  PROVE  \/ UNCHANGED <<pc, cur, mode, skip>>
         \/ pc' = "idle" /\ cur' = 1 /\ mode' = mode /\ skip' = {}
         \/ \E m \in {"apply", "dry-run"} : BuildPlan(m)
         \/ StaysAt
         \/ (SkipAction \/ Pretend \/ Journal) /\ UNCHANGED <<mode, skip>>
         \/ GoesOn
<1> USE DEF memory
<1>1. CASE UNCHANGED vars
  BY <1>1 DEF vars
<1>2. CASE Begin
  BY <1>2 DEF Begin, Refuse
<1>3. CASE Fail
  BY <1>3 DEF Fail, Leave, Forget, GoesOn
<1>4. CASE Finish \/ Interrupt \/ Crash
  BY <1>4 DEF Finish, Interrupt, Crash, Leave, Forget
<1>5. CASE SkipAction \/ Pretend \/ Journal
  BY <1>5 DEF SkipAction, Pretend, Journal
<1>6. CASE \E e \in Entries : \/ Park(e) \/ Unpark(e) \/ Unlink(e)
                              \/ Recreate(e) \/ ClearAway(e)
  BY <1>6 DEF Park, Unpark, Unlink, Recreate, ClearAway
<1>7. CASE Unable \/ \E f \in Files : Revert(f)
  BY <1>7 DEF Unable, Revert
<1>8. CASE \/ TakeLock \/ Command \/ Rename \/ RecordMove \/ Rewrite \/ RenameProject
           \/ Commit \/ Bridge \/ RecordBridges \/ Verify \/ AllParked \/ Suite
           \/ AllUnparked \/ Verdict \/ Drop \/ AllUnlinked
  <2>1. UNCHANGED <<cur, mode, skip>>
    BY <1>8 DEF TakeLock, Command, Rename, RecordMove, Rewrite, RenameProject, Commit,
                Bridge, RecordBridges, Verify, AllParked, Suite, AllUnparked, Verdict,
                Drop, AllUnlinked
  <2> QED BY <2>1, <1>8 DEF StaysAt
<1> QED BY <1>1, <1>2, <1>3, <1>4, <1>5, <1>6, <1>7, <1>8 DEF Next, Step, Disturb

-----------------------------------------------------------------------------
(***************************************************************************)
(* Layer 0: types.                                                         *)
(***************************************************************************)

\* The disk keeps its type: every executor writes an occupant to a path of an
\* entry, a state to a file of the plan.
LEMMA DiskStaysTyped ==
  ASSUME TypeOK, [Next]_vars
  PROVE  DiskTyped'
<1> USE DEF TypeOK, DiskTyped, Occupants, disk
<1>1. CASE UNCHANGED disk
  BY <1>1
<1>2. CASE Rename
  <2>1. Now.item \in Entries
    BY <1>2, NowTyped DEF Rename, Due, AtAction
  <2> QED BY <1>2, <2>1 DEF Rename
<1>3. CASE Rewrite
  BY <1>3 DEF Rewrite
<1>4. CASE RenameProject
  BY <1>4 DEF RenameProject
<1>5. CASE Commit
  BY <1>5 DEF Commit
<1>6. CASE Bridge
  BY <1>6 DEF Bridge
<1>7. ASSUME NEW e \in Entries,
             Park(e) \/ Unpark(e) \/ Unlink(e) \/ Recreate(e) \/ ClearAway(e)
      PROVE  DiskTyped'
  <2>1. CASE Park(e)
    BY <2>1 DEF Park
  <2>2. CASE Unpark(e)
    BY <2>2 DEF Unpark
  <2>3. CASE Unlink(e)
    BY <2>3 DEF Unlink
  <2>4. CASE Recreate(e) \/ ClearAway(e)
    BY <2>4 DEF Recreate, ClearAway
  <2> QED BY <1>7, <2>1, <2>2, <2>3, <2>4
<1>8. ASSUME NEW f \in Files, Revert(f) PROVE DiskTyped'
  BY <1>8 DEF Revert
<1> QED BY <1>1, <1>2, <1>3, <1>4, <1>5, <1>6, <1>7, <1>8, DiskFrame

\* So does what a run leaves behind.
LEMMA KeptStaysTyped ==
  ASSUME TypeOK, [Next]_vars
  PROVE  KeptTyped'
<1> USE DEF TypeOK, KeptTyped
<1>1. done' \subseteq Ids
  <2>1. CASE Journal
    <3>1. Now \in Ids
      BY <2>1, NowTyped DEF Journal, StepTyped
    <3> QED BY <2>1, <3>1 DEF Journal
  <2> QED BY <2>1, KeptFrame
<1>2. moved' \subseteq Entries
  <2>1. CASE RecordMove
    <3>1. Now.item \in Entries
      BY <2>1, NowTyped DEF RecordMove, StepTyped
    <3> QED BY <2>1, <3>1 DEF RecordMove
  <2> QED BY <2>1, KeptFrame
<1>3. lock' \in {"absent", "present"}
  BY KeptFrame DEF TakeLock
<1>4. recorded' \subseteq Bridged
  BY KeptFrame DEF RecordBridges, Drop
<1> QED BY <1>1, <1>2, <1>3, <1>4

\* The actions a run executes are at an index of the plan.
LEMMA StaysAtBounds ==
  ASSUME StepTyped, StaysAt
  PROVE  /\ TakeLock \/ cur < End
         /\ pc' \in Steps \ {"idle", "planned"}
         /\ pc' = "loop" => TakeLock
         /\ pc' = "renamed" => Now.phase = "move"
         /\ pc' \in VerifySteps => Now.phase = "verify"
<1> USE DEF StepTyped, StaysAt, Steps, VerifySteps, Due, AtAction
<1>1. CASE TakeLock
  BY <1>1 DEF TakeLock
<1>2. CASE Command \/ Rename \/ RecordMove \/ Rewrite \/ RenameProject
  BY <1>2 DEF Command, Rename, RecordMove, Rewrite, RenameProject
<1>3. CASE Commit \/ Bridge \/ RecordBridges
  BY <1>3 DEF Commit, Bridge, RecordBridges
<1>4. CASE Verify \/ AllParked \/ Suite
  BY <1>4 DEF Verify, AllParked, Suite
<1>5. CASE AllUnparked \/ Verdict \/ Drop \/ AllUnlinked
  BY <1>5 DEF AllUnparked, Verdict, Drop, AllUnlinked
<1> QED BY <1>1, <1>2, <1>3, <1>4, <1>5

\* The next index is one of the plan, or its end.
LEMMA NextIndex ==
  ASSUME StepTyped, cur < End
  PROVE  cur + 1 \in Nat /\ 1 <= cur + 1 /\ cur + 1 <= End
<1>1. cur \in Nat /\ End \in Nat
  BY PlanTyped DEF StepTyped
<1> QED BY <1>1

\* The process is always at an index of its plan, with an action to work on.
LEMMA StepStaysTyped ==
  ASSUME TypeOK, [Next]_vars
  PROVE  StepTyped'
<1> USE DEF TypeOK, Steps, VerifySteps
<1>1. CASE UNCHANGED <<pc, cur, mode, skip>>
  BY <1>1 DEF StepTyped, Now
<1>2. CASE pc' = "idle" /\ cur' = 1
  <2>1. cur' \in Nat /\ 1 <= cur' /\ cur' <= End
    BY <1>2, PlanTyped
  <2> QED BY <1>2, <2>1 DEF StepTyped
<1>3. ASSUME NEW m \in {"apply", "dry-run"}, BuildPlan(m) PROVE StepTyped'
  BY <1>3 DEF StepTyped, BuildPlan
<1>4. CASE StaysAt
  <2>1. cur' = cur /\ Now' = Now
    BY <1>4 DEF StaysAt, Now
  <2>2. cur' \in Nat /\ 1 <= cur' /\ cur' <= End
    BY <2>1 DEF StepTyped
  <2>3. cur < End \/ pc' = "loop"
    BY <1>4, StaysAtBounds DEF TakeLock
  <2> QED BY <1>4, <2>1, <2>2, <2>3, StaysAtBounds DEF StepTyped
<1>5. CASE SkipAction \/ Pretend \/ Journal \/ GoesOn
  <2>1. cur < End /\ cur' = cur + 1 /\ pc' = "loop"
    BY <1>5 DEF SkipAction, Pretend, Journal, GoesOn, Executing, Blocked, Due, AtAction,
                StepTyped
  <2>2. cur' \in Nat /\ 1 <= cur' /\ cur' <= End
    BY <2>1, NextIndex
  <2> QED BY <2>1, <2>2 DEF StepTyped
<1> QED BY <1>1, <1>2, <1>3, <1>4, <1>5, StepFrame

\* The memory of the process keeps its type.
LEMMA MemoryStaysTyped ==
  ASSUME TypeOK, [Next]_vars
  PROVE  MemoryTyped'
<1> USE DEF TypeOK, MemoryTyped, KeptTyped, DiskTyped, memory
<1>1. CASE UNCHANGED vars
  BY <1>1 DEF vars
<1>2. CASE Begin
  BY <1>2 DEF Begin, Refuse, BuildPlan
<1>3. CASE Fail
  <2>1. Now \in Ids
    BY <1>3, NowTyped DEF Fail, Executing, Blocked, Due, AtAction, StepTyped
  <2> QED BY <1>3, <2>1 DEF Fail, Leave, Forget
<1>4. CASE Finish \/ Interrupt \/ Crash
  BY <1>4 DEF Finish, Interrupt, Crash, Leave, Forget
<1>5. CASE Commit \/ Verdict
  <2>1. Now \in Ids
    BY <1>5, NowTyped DEF Commit, Verdict, Due, AtAction, StepTyped, VerifySteps
  <2>2. CASE Commit
    BY <2>1, <2>2 DEF Commit
  <2>3. CASE Verdict
    BY <2>1, <2>3 DEF Verdict
  <2> QED BY <1>5, <2>2, <2>3
<1>6. CASE \/ TakeLock \/ SkipAction \/ Pretend \/ Journal \/ Command \/ Rename
           \/ RecordMove \/ Rewrite \/ RenameProject \/ Bridge \/ RecordBridges
           \/ AllParked \/ AllUnparked \/ AllUnlinked
  BY <1>6 DEF TakeLock, SkipAction, Pretend, Journal, Command, Rename, RecordMove, Rewrite,
              RenameProject, Bridge, RecordBridges, AllParked, AllUnparked, AllUnlinked
<1>7. CASE Verify \/ Suite \/ Drop
  BY <1>7 DEF Verify, Suite, Drop
<1>8. CASE \E e \in Entries : \/ Park(e) \/ Unpark(e) \/ Unlink(e)
                              \/ Recreate(e) \/ ClearAway(e)
  BY <1>8 DEF Park, Unpark, Unlink, Recreate, ClearAway
<1>9. CASE Unable \/ \E f \in Files : Revert(f)
  BY <1>9 DEF Unable, Revert
<1> QED BY <1>1, <1>2, <1>3, <1>4, <1>5, <1>6, <1>7, <1>8, <1>9 DEF Next, Step, Disturb

\* A step makes at most one fault, and none beyond the bound.
LEMMA FaultFrame ==
  ASSUME [Next]_vars
  PROVE  \/ faults' = faults
         \/ faults < MaxFaults /\ faults' = faults + 1
<1>1. CASE UNCHANGED vars
  BY <1>1 DEF vars
<1>2. CASE Begin
  BY <1>2 DEF Begin, Refuse, BuildPlan
<1>3. CASE Fail
  BY <1>3 DEF Fail
<1>4. CASE Commit \/ Suite
  BY <1>4 DEF Commit, Suite
<1>5. CASE Step /\ ~Fail /\ ~Commit /\ ~Suite
  BY <1>5 DEF Step, TakeLock, SkipAction, Pretend, Journal, Finish, Command, Rename,
              RecordMove, Rewrite, RenameProject, Bridge, RecordBridges, Verify, Park,
              AllParked, Unpark, AllUnparked, Verdict, Drop, Unlink, AllUnlinked
<1>6. CASE Disturb
  BY <1>6 DEF Disturb, Unable, Interrupt, Crash, Recreate, ClearAway, Revert
<1> QED BY <1>1, <1>2, <1>3, <1>4, <1>5, <1>6 DEF Next

\* A run ends in one of the ways the program reports.
LEMMA ExitFrame ==
  ASSUME [Next]_vars
  PROVE  exit' = exit \/ exit' \in Exits
<1> USE DEF Exits
<1>1. CASE UNCHANGED vars
  BY <1>1 DEF vars
<1>2. CASE Begin
  BY <1>2 DEF Begin, Refuse, BuildPlan
<1>3. CASE Fail
  BY <1>3 DEF Fail, Leave
<1>4. CASE Finish
  BY <1>4 DEF Finish, Leave
<1>5. CASE Step /\ ~Fail /\ ~Finish
  BY <1>5 DEF Step, TakeLock, SkipAction, Pretend, Journal, Command, Rename, RecordMove,
              Rewrite, RenameProject, Commit, Bridge, RecordBridges, Verify, Park,
              AllParked, Suite, Unpark, AllUnparked, Verdict, Drop, Unlink, AllUnlinked
<1>6. CASE Disturb
  BY <1>6 DEF Disturb, Unable, Interrupt, Crash, Leave, Recreate, ClearAway, Revert
<1> QED BY <1>1, <1>2, <1>3, <1>4, <1>5, <1>6 DEF Next

\* Initially nothing has run.
LEMMA TypeInit == Init => TypeOK
<1> SUFFICES ASSUME Init PROVE TypeOK
  OBVIOUS
<1>1. cur \in Nat /\ 1 <= cur /\ cur <= End
  <2>1. cur = 1
    BY DEF Init
  <2> QED BY <2>1, PlanTyped
<1>2. faults \in Nat /\ faults <= MaxFaults
  <2>1. faults = 0
    BY DEF Init
  <2>2. MaxFaults \in Nat
    BY ConstantsAssumption
  <2> QED BY <2>1, <2>2
<1>3. StepTyped
  BY <1>1 DEF Init, StepTyped, Steps, VerifySteps
<1> QED BY <1>2, <1>3 DEF Init, TypeOK, DiskTyped, KeptTyped, MemoryTyped, Occupants, Exits

\* Every step keeps the types.
LEMMA TypeStep ==
  ASSUME TypeOK, [Next]_vars
  PROVE  TypeOK'
<1>1. DiskTyped' /\ KeptTyped' /\ StepTyped' /\ MemoryTyped'
  BY DiskStaysTyped, KeptStaysTyped, StepStaysTyped, MemoryStaysTyped
<1>2. exit' \in Exits
  BY ExitFrame DEF TypeOK
<1>3. faults' \in Nat /\ faults' <= MaxFaults
  <2>1. MaxFaults \in Nat /\ faults \in Nat /\ faults <= MaxFaults
    BY ConstantsAssumption DEF TypeOK
  <2> QED BY <2>1, FaultFrame
<1> QED BY <1>1, <1>2, <1>3 DEF TypeOK

\* Every variable keeps its type, and every step of a run has an action of the
\* plan to work on: no failure, kill or outside interference leads out of the
\* states the actions of Migrate are written for.
THEOREM TypeCorrect == Spec => []TypeOK
<1>1. Init => TypeOK
  BY TypeInit
<1>2. TypeOK /\ [Next]_vars => TypeOK'
  BY TypeStep
<1> QED BY <1>1, <1>2, PTL DEF Spec

-----------------------------------------------------------------------------
(***************************************************************************)
(* Layer 1: the journal.                                                   *)
(***************************************************************************)

\* Every move comes before every rewrite, bridge and verify of the plan.
LEMMA MovesComeFirst ==
  ASSUME NEW e \in Entries, NEW i \in 1..Len(Plan),
         Plan[i].phase \in {"rewrite", "link", "bridge", "bridges-record", "verify"}
  PROVE  \E k \in 1..Len(Plan) : k < i /\ Plan[k] = Id("move", e)
<1>1. PICK k \in 1..Len(Plan) : Plan[k] = Id("move", e)
  BY PlanAssumption
<1>2. Rank["move"] = 3 /\ Rank["rewrite"] = 4 /\ Rank["link"] = 4 /\ Rank["bridge"] = 11
      /\ Rank["bridges-record"] = 12 /\ Rank["verify"] = 13
  BY DEF Rank, Phases
<1>3. Rank[Plan[k].phase] < Rank[Plan[i].phase]
  BY <1>1, <1>2 DEF Id
<1>4. k < i
  BY <1>3, PlanAssumption
<1> QED BY <1>1, <1>4

\* The journal part of the inductive invariant.
JournalInv == /\ skip \subseteq done
              /\ pc \notin {"idle", "planned", "loop"} => mode = "apply"
              /\ PrefixDone /\ NotYet /\ JournalClosed

\* A step that stays at its action journals nothing, and only --apply executes.
LEMMA StaysAtApplies ==
  ASSUME JournalInv, StaysAt
  PROVE  /\ pc' \notin {"loop", "planned", "idle"} => mode = "apply"
         /\ pc' # "idle" /\ pc # "idle"
<1> USE DEF StaysAt, JournalInv, Due, VerifySteps
<1>1. CASE TakeLock
  BY <1>1 DEF TakeLock
<1>2. CASE Command \/ Rename \/ RecordMove \/ Rewrite \/ RenameProject
  BY <1>2 DEF Command, Rename, RecordMove, Rewrite, RenameProject, AtAction
<1>3. CASE Commit \/ Bridge \/ RecordBridges
  BY <1>3 DEF Commit, Bridge, RecordBridges, AtAction
<1>4. CASE Verify \/ AllParked \/ Suite
  BY <1>4 DEF Verify, AllParked, Suite, AtAction
<1>5. CASE AllUnparked \/ Verdict \/ Drop \/ AllUnlinked
  BY <1>5 DEF AllUnparked, Verdict, Drop, AllUnlinked
<1> QED BY <1>1, <1>2, <1>3, <1>4, <1>5

\* An action that is passed over, or fails without stopping the run, is one the
\* journal has or need not have.
LEMMA PassedOver ==
  ASSUME skip \subseteq done, PassesOver(Now) \/ Now.phase \in ContinueOnFail
  PROVE  Hard(Now) => Now \in done
BY DEF PassesOver, InPlan, Hard, ContinueOnFail, AlwaysRerun

\* A step that journals nothing and stays at its index keeps the invariant, if
\* only --apply gets beyond the loop.
LEMMA JournalKept ==
  ASSUME JournalInv, UNCHANGED <<cur, mode, skip, done>>, pc # "idle",
         pc' # "idle", pc' \notin {"loop", "planned"} => mode = "apply"
  PROVE  JournalInv'
BY DEF JournalInv, PrefixDone, NotYet, JournalClosed, Hard

\* Moving on to the next index keeps it, if the action left behind is journaled
\* or need not be.
LEMMA JournalAdvances ==
  ASSUME TypeOK, JournalInv, cur < End, pc # "idle",
         cur' = cur + 1, pc' = "loop", UNCHANGED <<mode, skip>>,
         done' = done \/ (done' = done \cup {Now} /\ mode = "apply"),
         mode = "apply" => (Hard(Now) => Now \in done')
  PROVE  JournalInv'
<1> USE DEF JournalInv
<1>1. cur \in 1..Len(Plan)
  BY CurInPlan DEF TypeOK
<1>2. ASSUME NEW i \in 1..Len(Plan) PROVE (i < cur + 1 <=> i < cur \/ i = cur) /\ (cur + 1 <= i => cur <= i /\ i # cur)
  BY <1>1
<1>3. ASSUME NEW i \in 1..Len(Plan), Plan[i] = Now PROVE i = cur
  BY <1>1, <1>3, PlanAssumption DEF Now
<1>4. PrefixDone'
  <2> SUFFICES ASSUME mode = "apply", NEW i \in 1..Len(Plan), i < cur + 1, Hard(Plan[i])
               PROVE  Plan[i] \in done'
    BY DEF PrefixDone, Hard
  <2>1. CASE i < cur
    BY <2>1 DEF PrefixDone
  <2>2. CASE i = cur
    BY <2>2 DEF Now
  <2> QED BY <2>1, <2>2, <1>2
<1>5. NotYet'
  <2> SUFFICES ASSUME NEW i \in 1..Len(Plan), cur + 1 <= i, Plan[i] \in done'
               PROVE  Plan[i] \in skip
    BY DEF NotYet
  <2>1. Plan[i] \in done
    BY <1>2, <1>3
  <2> QED BY <2>1, <1>2 DEF NotYet
<1>6. JournalClosed'
  <2> SUFFICES ASSUME NEW i \in 1..Len(Plan), NEW j \in 1..Len(Plan),
                      i < j, Hard(Plan[i]), Plan[j] \in done'
               PROVE  Plan[i] \in done'
    BY DEF JournalClosed, Hard
  <2>1. CASE Plan[j] \in done
    BY <2>1 DEF JournalClosed
  <2>2. CASE Plan[j] \notin done
    <3>1. j = cur /\ mode = "apply"
      BY <2>2, <1>3
    <3> QED BY <3>1 DEF PrefixDone
  <2> QED BY <2>1, <2>2
<1> QED BY <1>4, <1>5, <1>6

\* The journal invariant is inductive.
LEMMA JournalStep ==
  ASSUME TypeOK, JournalInv, [Next]_vars
  PROVE  JournalInv'
<1>1. CASE UNCHANGED done /\ UNCHANGED <<pc, cur, mode, skip>>
  BY <1>1 DEF JournalInv, PrefixDone, NotYet, JournalClosed, Hard
<1>2. CASE pc' = "idle" /\ cur' = 1 /\ mode' = mode /\ skip' = {}
  <2>1. UNCHANGED done
    BY <1>2, KeptFrame DEF Journal
  <2>2. \A i \in 1..Len(Plan) : ~(i < 1)
    OBVIOUS
  <2> QED BY <1>2, <2>1, <2>2 DEF JournalInv, PrefixDone, NotYet, JournalClosed, Hard
<1>3. ASSUME NEW m \in {"apply", "dry-run"}, BuildPlan(m) PROVE JournalInv'
  <2>1. UNCHANGED <<done, cur>> /\ skip' = done /\ pc' = "planned" /\ pc = "idle"
    BY <1>3 DEF BuildPlan, kept
  <2>2. cur = 1 /\ \A i \in 1..Len(Plan) : ~(i < 1)
    BY <2>1 DEF TypeOK, StepTyped
  <2> QED BY <2>1, <2>2 DEF JournalInv, PrefixDone, NotYet, JournalClosed, Hard
<1>4. CASE StaysAt
  <2>1. UNCHANGED done
    <3>1. pc' # "loop" \/ TakeLock
      BY <1>4, StaysAtBounds DEF TypeOK
    <3> QED BY <3>1, KeptFrame DEF Journal, TakeLock
  <2> QED BY <1>4, <2>1, StaysAtApplies, JournalKept DEF StaysAt
<1>5. CASE (SkipAction \/ Pretend) /\ UNCHANGED <<mode, skip>>
  <2>1. /\ cur < End /\ pc # "idle" /\ UNCHANGED done /\ cur' = cur + 1 /\ pc' = "loop"
        /\ mode = "apply" => PassesOver(Now)
    BY <1>5 DEF SkipAction, Pretend, AtAction, kept
  <2> QED BY <1>5, <2>1, PassedOver, JournalAdvances DEF JournalInv
<1>6. CASE Journal /\ UNCHANGED <<mode, skip>>
  <2>1. /\ cur < End /\ pc # "idle" /\ cur' = cur + 1 /\ pc' = "loop" /\ mode = "apply"
        /\ done' = done \/ done' = done \cup {Now}
        /\ Hard(Now) => Now \in done'
    BY <1>6 DEF Journal, TypeOK, StepTyped, JournalInv, Hard
  <2> QED BY <1>6, <2>1, JournalAdvances
<1>7. CASE GoesOn
  <2>1. /\ cur < End /\ pc # "idle" /\ cur' = cur + 1 /\ pc' = "loop"
        /\ UNCHANGED <<mode, skip>> /\ Now.phase \in ContinueOnFail
    BY <1>7 DEF GoesOn, Executing, Blocked, Due, AtAction, TypeOK, StepTyped
  <2>2. done' = done \/ (done' = done \cup {Now} /\ mode = "apply")
    BY KeptFrame DEF Journal, JournalInv
  <2>3. Hard(Now) => Now \in done
    BY <2>1, PassedOver DEF JournalInv
  <2> QED BY <2>1, <2>2, <2>3, JournalAdvances
<1> QED BY <1>1, <1>2, <1>3, <1>4, <1>5, <1>6, <1>7, StepFrame, KeptFrame DEF Journal

-----------------------------------------------------------------------------
(***************************************************************************)
(* Layer 2: the data of the entries.                                       *)
(***************************************************************************)

DataInv == NoEntryLost /\ NoDanglingBridge /\ JournalTruthful

\* An apply that has reached a rewrite, a bridge or a verify has moved every
\* entry.
LEMMA AllMoved ==
  ASSUME TypeOK, JournalInv, DataInv, cur < End, mode = "apply",
         Now.phase \in {"rewrite", "link", "bridge", "bridges-record", "verify"},
         NEW e \in Entries
  PROVE  bucket[e] = "data" /\ Id("move", e) \in done
<1>1. cur \in 1..Len(Plan)
  BY CurInPlan DEF TypeOK
<1>2. PICK k \in 1..Len(Plan) : k < cur /\ Plan[k] = Id("move", e)
  BY <1>1, MovesComeFirst DEF Now
<1>3. Hard(Plan[k])
  BY <1>2 DEF Hard, Id, ContinueOnFail, AlwaysRerun
<1>4. Plan[k] \in done
  BY <1>2, <1>3 DEF JournalInv, PrefixDone
<1> QED BY <1>2, <1>4 DEF DataInv, JournalTruthful

\* The data of an entry that has moved stays where it is.
LEMMA DataStays ==
  ASSUME TypeOK, DataInv, [Next]_vars, NEW e \in Entries, bucket[e] = "data"
  PROVE  bucket'[e] = "data"
<1>1. CASE Rename
  BY <1>1 DEF Rename, CanRename, TypeOK, DiskTyped
<1> QED BY <1>1, DiskFrame
        DEF disk, Rewrite, RenameProject, Commit, Bridge, Park, Unpark, Unlink, Recreate,
            ClearAway, Revert

\* No entry is lost, and no bridge dangles, whatever step the system takes.
LEMMA DataKept ==
  ASSUME TypeOK, JournalInv, DataInv, [Next]_vars
  PROVE  NoEntryLost' /\ NoDanglingBridge'
<1> USE DEF DataInv, NoEntryLost, NoDanglingBridge, TypeOK, DiskTyped
<1>1. CASE UNCHANGED <<root, bucket, parked>>
  BY <1>1
<1>2. CASE Rename
  <2>1. Now.item \in Entries /\ root[Now.item] # "none" /\ bucket[Now.item] = "none"
    BY <1>2, NowTyped DEF Rename, Due, AtAction, CanRename
  <2>2. root[Now.item] = "data"
    BY <2>1
  <2>3. /\ bucket' = [bucket EXCEPT ![Now.item] = "data"]
        /\ root' = [root EXCEPT ![Now.item] = "none"]
        /\ parked' = parked
    BY <1>2, <2>2 DEF Rename
  <2> QED BY <2>1, <2>2, <2>3
<1>3. CASE Bridge
  <2>1. Now.item \in Entries /\ mode = "apply" /\ cur < End /\ Now.phase = "bridge"
    BY <1>3, NowTyped, ConstantsAssumption DEF Bridge, Due, AtAction
  <2>2. bucket[Now.item] = "data"
    BY <2>1, AllMoved
  <2> QED BY <1>3, <2>1, <2>2 DEF Bridge
<1>4. ASSUME NEW e \in Entries,
             Park(e) \/ Unpark(e) \/ Unlink(e) \/ Recreate(e) \/ ClearAway(e)
      PROVE  NoEntryLost' /\ NoDanglingBridge'
  <2>1. CASE Park(e)
    BY <2>1 DEF Park
  <2>2. CASE Unpark(e)
    BY <2>2 DEF Unpark
  <2>3. CASE Unlink(e)
    BY <2>3 DEF Unlink
  <2>4. CASE Recreate(e) \/ ClearAway(e)
    BY <2>4 DEF Recreate, ClearAway
  <2> QED BY <1>4, <2>1, <2>2, <2>3, <2>4
<1>5. CASE Rewrite \/ RenameProject \/ Commit
  BY <1>1, <1>5 DEF Rewrite, RenameProject, Commit
<1>6. ASSUME NEW f \in Files, Revert(f) PROVE NoEntryLost' /\ NoDanglingBridge'
  BY <1>1, <1>6 DEF Revert
<1> QED BY <1>1, <1>2, <1>3, <1>4, <1>5, <1>6, DiskFrame DEF disk

\* A step that leaves a move to be journaled has made it.
LEMMA MoveInFlight ==
  ASSUME TypeOK, DataInv, [Next]_vars,
         pc' = "renamed" \/ (pc' = "journal" /\ Now'.phase = "move")
  PROVE  bucket'[Now'.item] = "data"
<1> SUFFICES ASSUME ~UNCHANGED <<pc, cur>> PROVE bucket'[Now'.item] = "data"
  <2>1. CASE UNCHANGED <<pc, cur>>
    <3>1. Now' = Now /\ bucket[Now.item] = "data" /\ cur < End /\ Now.phase = "move"
      BY <2>1 DEF Now, DataInv, JournalTruthful, TypeOK, StepTyped
    <3>2. Now.item \in Entries
      BY <3>1, NowTyped DEF TypeOK
    <3> QED BY <3>1, <3>2, DataStays
  <2> QED BY <2>1
<1>1. StaysAt
  BY StepFrame DEF BuildPlan, SkipAction, Pretend, Journal, GoesOn, AtAction
<1>2. Now' = Now
  BY <1>1 DEF StaysAt, Now
<1>3. CASE Rename
  <2>1. Now.item \in Entries /\ root[Now.item] # "none" /\ bucket[Now.item] = "none"
    BY <1>3, NowTyped DEF Rename, Due, AtAction, CanRename, TypeOK
  <2>2. root[Now.item] = "data"
    BY <2>1 DEF DataInv, NoEntryLost
  <2> QED BY <1>2, <1>3, <2>1, <2>2 DEF Rename, TypeOK, DiskTyped
<1>4. CASE RecordMove
  <2>1. bucket[Now.item] = "data" /\ bucket' = bucket
    BY <1>4 DEF RecordMove, DataInv, JournalTruthful, disk
  <2> QED BY <1>2, <2>1
<1>5. CASE TakeLock \/ Command \/ Rewrite \/ RenameProject \/ Commit \/ Bridge \/ RecordBridges
  BY <1>2, <1>5 DEF TakeLock, Command, Rewrite, RenameProject, Commit, Bridge,
                    RecordBridges, Due
<1>6. CASE Verify \/ AllParked \/ Suite \/ AllUnparked \/ Verdict \/ Drop \/ AllUnlinked
  <2>1. Now.phase = "verify"
    BY <1>6 DEF Verify, AllParked, Suite, AllUnparked, Verdict, Drop, AllUnlinked, Due,
                TypeOK, StepTyped, VerifySteps
  <2> QED BY <1>2, <1>6, <2>1 DEF Verify, AllParked, Suite, AllUnparked, Verdict, Drop,
                                  AllUnlinked
<1> QED BY <1>1, <1>3, <1>4, <1>5, <1>6 DEF StaysAt

\* The data invariant is inductive.
LEMMA DataStep ==
  ASSUME TypeOK, JournalInv, DataInv, [Next]_vars
  PROVE  DataInv'
<1>1. ASSUME NEW e \in Entries, Id("move", e) \in done' PROVE bucket'[e] = "data"
  <2>1. CASE Id("move", e) \in done
    BY <2>1, DataStays DEF DataInv, JournalTruthful
  <2>2. CASE Id("move", e) \notin done
    <3>1. Journal /\ Now = Id("move", e)
      BY <1>1, <2>2, KeptFrame DEF Journal
    <3>2. bucket[e] = "data"
      BY <3>1 DEF Journal, DataInv, JournalTruthful, Id
    <3> QED BY <3>2, DataStays
  <2> QED BY <2>1, <2>2
<1> QED BY <1>1, MoveInFlight, DataKept DEF DataInv, JournalTruthful, Id

-----------------------------------------------------------------------------
(***************************************************************************)
(* Layer 3: references and the lock.                                       *)
(***************************************************************************)

\* A reference is re-pointed only after every move of the plan.
LEMMA RefsStep ==
  ASSUME TypeOK, JournalInv, DataInv, RefsFollowData, [Next]_vars
  PROVE  RefsFollowData'
<1> SUFFICES ASSUME NEW f \in Files, refs'[f] # "old" PROVE bucket'[Target[f]] = "data"
  BY DEF RefsFollowData
<1>1. Target[f] \in Entries
  BY ConstantsAssumption
<1>2. CASE refs[f] # "old"
  BY <1>1, <1>2, DataStays DEF RefsFollowData
<1>3. CASE refs[f] = "old"
  <2>1. Rewrite
    BY <1>3, DiskFrame
       DEF disk, Rename, RenameProject, Commit, Bridge, Park, Unpark, Unlink, Recreate,
           ClearAway, Revert, TypeOK, DiskTyped
  <2>2. cur < End /\ mode = "apply" /\ Now.phase \in {"rewrite", "link"} /\ bucket' = bucket
    BY <2>1 DEF Rewrite, Due, AtAction
  <2> QED BY <1>1, <2>2, AllMoved
<1> QED BY <1>2, <1>3

\* A run past its planning holds the lock.
LEMMA LockStep ==
  ASSUME TypeOK, LockHeld, [Next]_vars
  PROVE  LockHeld'
<1>1. CASE lock' = "absent" /\ pc' = "idle"
  BY <1>1 DEF LockHeld
<1>2. CASE TakeLock
  BY <1>2 DEF TakeLock, LockHeld
<1>3. CASE UNCHANGED lock /\ ~TakeLock
  <2>1. CASE pc \notin {"idle", "planned"}
    BY <1>3, <2>1 DEF LockHeld
  <2>2. CASE pc \in {"idle", "planned"}
    <3>1. ~StaysAt
      BY <1>3, <2>2 DEF StaysAt, Command, Rename, RecordMove, Rewrite, RenameProject, Commit,
           Bridge, RecordBridges, Verify, AllParked, Suite, AllUnparked, Verdict, Drop,
           AllUnlinked, Due, AtAction
    <3>2. pc' \in {"idle", "planned"}
      BY <2>2, <3>1, StepFrame
         DEF BuildPlan, SkipAction, Pretend, Journal, GoesOn, AtAction, Executing, Blocked, Due
    <3> QED BY <3>2 DEF LockHeld
  <2> QED BY <2>1, <2>2
<1> QED BY <1>1, <1>2, <1>3, KeptFrame

\* The invariants of the layers so far hold together, in every state of every
\* execution.
SafetyInv == TypeOK /\ JournalInv /\ DataInv /\ RefsFollowData /\ LockHeld

LEMMA SafetyInit == Init => SafetyInv
<1> SUFFICES ASSUME Init PROVE SafetyInv
  OBVIOUS
<1>1. TypeOK
  BY TypeInit
<1>2. \A i \in 1..Len(Plan) : ~(i < 1)
  OBVIOUS
<1>3. JournalInv
  BY <1>2 DEF Init, JournalInv, PrefixDone, NotYet, JournalClosed
<1>4. DataInv /\ RefsFollowData
  BY ConstantsAssumption
     DEF Init, DataInv, NoEntryLost, NoDanglingBridge, JournalTruthful, RefsFollowData
<1> QED BY <1>1, <1>3, <1>4 DEF Init, SafetyInv, LockHeld

\* Through any sequence of crashes, failures, interruptions, re-runs and outside
\* interference: the data of an entry is at exactly one of its two paths, no
\* bridge dangles, no reference runs ahead of its entry, the journal has no gap,
\* and an acting run holds the lock.
THEOREM Safety == Spec => [](NoEntryLost /\ NoDanglingBridge /\ RefsFollowData
                             /\ JournalClosed /\ LockHeld)
<1>1. Init => SafetyInv
  BY SafetyInit
<1>2. SafetyInv /\ [Next]_vars => SafetyInv'
  BY TypeStep, JournalStep, DataStep, RefsStep, LockStep DEF SafetyInv
<1>3. SafetyInv => NoEntryLost /\ NoDanglingBridge /\ RefsFollowData /\ JournalClosed /\ LockHeld
  BY DEF SafetyInv, DataInv, JournalInv
<1> QED BY <1>1, <1>2, <1>3, PTL DEF Spec

\* A bridge, at its old path or parked beside it, always leads somewhere.
THEOREM BridgesLead == Spec => []NoDanglingBridge
BY Safety, PTL

\* What the journal has as done had every earlier hard action done before it.
THEOREM NoGapInJournal == Spec => []JournalClosed
BY Safety, PTL

-----------------------------------------------------------------------------
(***************************************************************************)
(* Layer 4: the verdict that drops the bridges.                            *)
(***************************************************************************)

DropInv == AllOrNone /\ VerdictSound /\ DropOnlyWhenClean

\* A watched reference no tool reverts never goes back to the old path.
LEMMA RefsStay ==
  ASSUME TypeOK, [Next]_vars, NEW f \in Files \ Tracked, refs[f] # "old"
  PROVE  refs'[f] # "old"
BY DiskFrame
   DEF disk, Rename, Rewrite, RenameProject, Commit, Bridge, Park, Unpark, Unlink,
       Recreate, ClearAway, Revert, TypeOK, DiskTyped

\* The bridges are recorded before that is journaled, never after.
LEMMA RecordedOnce ==
  ASSUME TypeOK, JournalInv, RecordBridges
  PROVE  Id("bridges-record", "-") \notin done
<1>1. cur < End /\ Now.phase = "bridges-record" /\ Now \notin skip /\ pc # "idle"
  BY DEF RecordBridges, Due, AtAction, PassesOver, AlwaysRerun
<1>2. cur \in 1..Len(Plan) /\ Now.item = "-" /\ Now \in Ids
  BY <1>1, CurInPlan, NowTyped DEF TypeOK
<1>3. Now = Id("bridges-record", "-")
  BY <1>1, <1>2 DEF Ids, Id
<1>4. Now \notin done
  BY <1>1, <1>2 DEF JournalInv, NotYet, Now
<1> QED BY <1>3, <1>4

\* The manifest lists all bridges or none.
LEMMA AllOrNoneStep ==
  ASSUME TypeOK, JournalInv, AllOrNone, [Next]_vars
  PROVE  AllOrNone'
<1>1. recorded' \in {{}, Bridged}
  BY KeptFrame DEF RecordBridges, Drop, AllOrNone
<1>2. ASSUME pc' = "journal", Now'.phase = "bridges-record" PROVE recorded' = Bridged
  <2>1. CASE UNCHANGED <<pc, cur>>
    <3>1. recorded = Bridged /\ Now' = Now
      BY <1>2, <2>1 DEF AllOrNone, Now
    <3> QED BY <1>2, <2>1, <3>1, KeptFrame DEF RecordBridges, Drop
  <2>2. CASE ~UNCHANGED <<pc, cur>>
    <3>1. StaysAt
      BY <1>2, <2>2, StepFrame DEF BuildPlan, SkipAction, Pretend, Journal, GoesOn, AtAction
    <3>2. Now' = Now
      BY <3>1 DEF StaysAt, Now
    <3>3. CASE TakeLock \/ Command \/ Rename \/ RecordMove \/ Rewrite \/ RenameProject
               \/ Commit \/ Bridge \/ RecordBridges
      BY <1>2, <3>2, <3>3
         DEF TakeLock, Command, Rename, RecordMove, Rewrite, RenameProject, Commit, Bridge,
             RecordBridges, Due, TypeOK, StepTyped
    <3>4. CASE Verify \/ AllParked \/ Suite \/ AllUnparked \/ Verdict \/ Drop \/ AllUnlinked
      BY <1>2, <3>2, <3>4
         DEF Verify, AllParked, Suite, AllUnparked, Verdict, Drop, AllUnlinked, Due, TypeOK,
             StepTyped, VerifySteps
    <3> QED BY <3>1, <3>3, <3>4 DEF StaysAt
  <2> QED BY <2>1, <2>2
<1> QED BY <1>1, <1>2 DEF AllOrNone

\* A clean word of the bridgeless suite means what it says: with every bridge
\* aside and every entry moved, only a re-pointed reference resolves.
LEMMA CleanSuite ==
  ASSUME TypeOK, JournalInv, DataInv, DropInv, Suite, Bridgeless, outcome' = "clean"
  PROVE  Clean
<1> SUFFICES ASSUME NEW f \in Watched \ Tracked, Target[f] \in recorded PROVE refs[f] # "old"
  BY DEF Clean
<1>1. pc = "suite" /\ cur < End /\ Now.phase = "verify" /\ mode = "apply"
  BY DEF Suite, TypeOK, StepTyped, VerifySteps, JournalInv
<1>2. Target[f] \in Entries /\ f \in Watched
  BY ConstantsAssumption
<1>3. bucket[Target[f]] = "data"
  BY <1>1, <1>2, AllMoved
<1>4. root[Target[f]] # "data"
  BY <1>2, <1>3 DEF DataInv, NoEntryLost
<1>5. root[Target[f]] # "bridge"
  BY <1>1 DEF DropInv, VerdictSound
<1>6. Resolves(f)
  BY <1>2 DEF Suite
<1> QED BY <1>4, <1>5, <1>6 DEF Resolves

\* Only the suite changes its outcome while a run lasts, and only parking and
\* starting a loop change what is left of it.
LEMMA OutcomeFrame ==
  ASSUME [Next]_vars, UNCHANGED <<pc, cur>>, pc \in VerifySteps
  PROVE  /\ UNCHANGED <<outcome, recorded>>
         /\ UNCHANGED todo \/ \E e \in Entries : Park(e) \/ Unpark(e) \/ Unlink(e)
<1> USE DEF VerifySteps, memory, kept
<1>1. CASE UNCHANGED vars
  BY <1>1 DEF vars
<1>2. CASE Begin
  BY <1>2 DEF Begin, Refuse, BuildPlan
<1>3. CASE Fail
  BY <1>3 DEF Fail, Leave, Forget
<1>4. CASE \E e \in Entries : Park(e) \/ Unpark(e) \/ Unlink(e)
  BY <1>4 DEF Park, Unpark, Unlink
<1>5. CASE Step /\ ~Fail /\ ~\E e \in Entries : Park(e) \/ Unpark(e) \/ Unlink(e)
  BY <1>5 DEF Step, TakeLock, SkipAction, Pretend, Journal, Finish, Leave, Forget, Command,
              Rename, RecordMove, Rewrite, RenameProject, Commit, Bridge, RecordBridges,
              Verify, AllParked, Suite, AllUnparked, Verdict, Drop, AllUnlinked, Due, AtAction
<1>6. CASE Disturb
  BY <1>6 DEF Disturb, Unable, Interrupt, Crash, Leave, Forget, Recreate, ClearAway, Revert
<1> QED BY <1>1, <1>2, <1>3, <1>4, <1>5, <1>6 DEF Next

\* References that are clean stay clean while the manifest is left alone.
LEMMA CleanStays ==
  ASSUME TypeOK, [Next]_vars, Clean, UNCHANGED recorded
  PROVE  Clean'
<1> SUFFICES ASSUME NEW f \in Watched \ Tracked, Target[f] \in recorded PROVE refs'[f] # "old"
  BY DEF Clean
<1>1. f \in Files \ Tracked /\ refs[f] # "old"
  BY ConstantsAssumption DEF Clean
<1> QED BY <1>1, RefsStay

\* Inside a step of verify, moving bridges aside one by one makes progress.
LEMMA ParkingProgress ==
  ASSUME TypeOK, DropInv, [Next]_vars, UNCHANGED <<pc, cur>>, pc \in VerifySteps
  PROVE  /\ pc = "park" => \A e \in recorded' \ todo' : root'[e] # "bridge"
         /\ pc = "suite" /\ Bridgeless => \A e \in recorded' : root'[e] # "bridge"
<1>1. recorded' = recorded /\ recorded \subseteq Entries
  BY OutcomeFrame, ConstantsAssumption DEF TypeOK, KeptTyped
<1>2. ASSUME NEW e \in Entries, root[e] # "bridge", pc \in {"park", "suite"}
      PROVE  root'[e] # "bridge"
  BY <1>2, DiskFrame
     DEF disk, Rename, Rewrite, RenameProject, Commit, Bridge, Park, Unpark, Unlink,
         Recreate, ClearAway, Revert, TypeOK, DiskTyped, Due, AtAction
<1>3. ASSUME pc = "park", NEW e \in recorded, e \notin todo' PROVE root'[e] # "bridge"
  <2>1. CASE e \notin todo
    BY <1>1, <1>2, <1>3, <2>1 DEF DropInv, VerdictSound
  <2>2. CASE e \in todo
    <3>1. Park(e)
      BY <1>3, <2>2, OutcomeFrame DEF Park, Unpark, Unlink
    <3> QED BY <1>1, <3>1 DEF Park, TypeOK, DiskTyped
  <2> QED BY <2>1, <2>2
<1>4. ASSUME pc = "suite", Bridgeless, NEW e \in recorded PROVE root'[e] # "bridge"
  BY <1>1, <1>2, <1>4 DEF DropInv, VerdictSound
<1> QED BY <1>1, <1>3, <1>4

\* The verdict is sound in every state.
LEMMA VerdictStep ==
  ASSUME TypeOK, JournalInv, DataInv, DropInv, [Next]_vars
  PROVE  VerdictSound'
<1> USE DEF VerifySteps
<1>1. CASE pc' \notin VerifySteps
  BY <1>1 DEF VerdictSound
<1>2. CASE UNCHANGED <<pc, cur>> /\ pc \in VerifySteps
  <2>1. UNCHANGED <<outcome, recorded>> /\ (Bridgeless' <=> Bridgeless)
    BY <1>2, OutcomeFrame DEF Bridgeless, Now
  <2>2. Clean => Clean'
    BY <2>1, CleanStays
  <2> QED BY <1>2, <2>1, <2>2, ParkingProgress DEF VerdictSound, DropInv
<1>3. CASE pc' \in VerifySteps /\ ~UNCHANGED <<pc, cur>>
  <2>1. StaysAt
    BY <1>3, StepFrame DEF BuildPlan, SkipAction, Pretend, Journal, GoesOn, AtAction
  <2>2. Bridgeless' <=> Bridgeless
    BY <2>1 DEF StaysAt, Bridgeless, Now
  <2>3. CASE Verify
    BY <2>2, <2>3 DEF Verify, VerdictSound, kept, disk
  <2>4. CASE AllParked
    BY <2>2, <2>4 DEF AllParked, VerdictSound, DropInv, kept, disk, memory
  <2>5. CASE Suite
    <3>1. outcome' = "clean" /\ Bridgeless => Clean'
      <4>1. UNCHANGED <<recorded, refs>>
        BY <2>5 DEF Suite, kept, disk
      <4> QED BY <2>5, <4>1, CleanSuite DEF Clean
    <3> QED BY <2>2, <2>5, <3>1 DEF Suite, VerdictSound
  <2>6. CASE AllUnparked \/ Verdict
    <3>1. UNCHANGED <<recorded, refs, outcome>>
      BY <2>6 DEF AllUnparked, Verdict, kept, disk, memory
    <3> QED BY <2>2, <2>6, <3>1 DEF AllUnparked, Verdict, VerdictSound, DropInv, Clean
  <2>7. CASE Drop
    BY <2>2, <2>7 DEF Drop, VerdictSound, DropInv
  <2>8. ~TakeLock /\ ~AllUnlinked
    BY <1>3 DEF TakeLock, AllUnlinked
  <2> QED BY <1>3, <2>1, <2>3, <2>4, <2>5, <2>6, <2>7, <2>8
          DEF StaysAt, Command, Rename, RecordMove, Rewrite, RenameProject, Commit, Bridge,
              RecordBridges
<1> QED BY <1>1, <1>2, <1>3

\* The bridges are given up only on such a verdict.
LEMMA DropStep ==
  ASSUME TypeOK, JournalInv, DropInv, [Next]_vars
  PROVE  DropOnlyWhenClean'
<1> SUFFICES ASSUME NEW f \in Watched \ Tracked, Dropped(Target[f])' PROVE refs'[f] # "old"
  BY DEF DropOnlyWhenClean, Dropped
<1>1. f \in Files \ Tracked /\ Target[f] \in Entries
  BY ConstantsAssumption
<1>2. /\ Id("bridges-record", "-") \in done'
      /\ Target[f] \in Bridged \ recorded'
  BY DEF Dropped
<1>3. CASE Dropped(Target[f])
  BY <1>1, <1>3, RefsStay DEF DropInv, DropOnlyWhenClean
<1>4. CASE Drop
  <2>1. UNCHANGED <<done, refs>> /\ pc = "drop"
    BY <1>4 DEF Drop, disk
  <2>2. Clean
    BY <2>1 DEF DropInv, VerdictSound
  <2>3. Target[f] \in recorded => refs[f] # "old"
    BY <2>2 DEF Clean
  <2>4. Target[f] \notin recorded => Dropped(Target[f])
    BY <1>2, <2>1 DEF Dropped
  <2> QED BY <1>3, <2>1, <2>3, <2>4
<1>5. CASE Journal /\ ~Dropped(Target[f])
  <2>1. recorded' = recorded
    BY <1>5 DEF Journal
  <2>2. Now = Id("bridges-record", "-")
    BY <1>2, <1>5, <2>1 DEF Journal, Dropped
  <2>3. recorded = Bridged
    BY <1>5, <2>2 DEF Journal, DropInv, AllOrNone, Id
  <2> QED BY <1>2, <2>1, <2>3
<1>6. CASE RecordBridges
  BY <1>2, <1>6 DEF RecordBridges
<1> QED BY <1>2, <1>3, <1>4, <1>5, <1>6, KeptFrame DEF Dropped

\* The bridges are given up only when no watched reference still spells an old
\* path, whatever cuts the suite, the parking or the run short.
THEOREM BridgesOutliveReferences == Spec => []DropOnlyWhenClean
<1>1. Init => SafetyInv /\ DropInv
  BY SafetyInit
     DEF Init, DropInv, AllOrNone, VerdictSound, DropOnlyWhenClean, Dropped
<1>2. SafetyInv /\ DropInv /\ [Next]_vars => (SafetyInv /\ DropInv)'
  BY TypeStep, JournalStep, DataStep, RefsStep, LockStep, AllOrNoneStep, VerdictStep, DropStep
     DEF SafetyInv, DropInv
<1>3. DropInv => DropOnlyWhenClean
  BY DEF DropInv
<1> QED BY <1>1, <1>2, <1>3, PTL DEF Spec

-----------------------------------------------------------------------------
(***************************************************************************)
(* Layer 5: a bridge stays for as long as a reference needs it.            *)
(***************************************************************************)

\* No watched reference spells the old path of e any more.
Unneeded(e) == \A f \in Watched \ Tracked : Target[f] = e => refs[f] # "old"

\* The entry has moved, and its bridge is there, parked, or not needed.
Linked(e) == /\ bucket[e] = "data"
             /\ root[e] = "bridge" \/ e \in parked \/ Unneeded(e)

LinkInv ==
  /\ \A e \in Entries \ Resurrected : /\ root[e] # "other"
                                      /\ Id("bridge", e) \in done => Linked(e)
  /\ pc = "journal" /\ Now.phase = "bridge" /\ Now.item \notin Resurrected
       => Linked(Now.item)
  /\ pc = "unlink" => \A e \in todo : Unneeded(e)

\* What no reference needs, none will need again.
LEMMA UnneededStays ==
  ASSUME TypeOK, [Next]_vars, NEW e, Unneeded(e)
  PROVE  Unneeded(e)'
<1> SUFFICES ASSUME NEW f \in Watched \ Tracked, Target[f] = e PROVE refs'[f] # "old"
  BY DEF Unneeded
<1>1. f \in Files \ Tracked /\ refs[f] # "old"
  BY ConstantsAssumption DEF Unneeded
<1> QED BY <1>1, RefsStay

\* Only a verify that has dropped the bridges takes one away for good.
LEMMA LinkedStays ==
  ASSUME TypeOK, DataInv, LinkInv, [Next]_vars, NEW e \in Entries, Linked(e)
  PROVE  Linked(e)'
<1> USE DEF TypeOK, DiskTyped
<1>1. bucket[e] = "data" /\ bucket'[e] = "data"
  BY DataStays DEF Linked
<1>2. CASE Unneeded(e)
  BY <1>1, <1>2, UnneededStays DEF Linked
<1>3. CASE root[e] = "bridge" /\ ~Unneeded(e)
  <2>1. ~Unlink(e)
    BY <1>3 DEF Unlink, LinkInv
  <2>2. root'[e] = "bridge" \/ Park(e)
    BY <1>1, <1>3, <2>1, DiskFrame
       DEF disk, Rename, CanRename, Rewrite, RenameProject, Commit, Bridge, Park, Unpark,
           Unlink, Recreate, ClearAway, Revert
  <2> QED BY <1>1, <1>3, <2>2 DEF Linked, Park
<1>4. CASE e \in parked
  <2>1. e \in parked' \/ (Unpark(e) /\ root'[e] = "bridge")
    BY <1>4, DiskFrame
       DEF disk, Rename, Rewrite, RenameProject, Commit, Bridge, Park, Unpark, Unlink,
           Recreate, ClearAway, Revert
  <2> QED BY <1>1, <2>1 DEF Linked
<1> QED BY <1>2, <1>3, <1>4 DEF Linked

\* A bridge that is about to be journaled has been made.
LEMMA BridgeMade ==
  ASSUME TypeOK, JournalInv, DataInv, LinkInv, [Next]_vars,
         pc' = "journal", Now'.phase = "bridge",
         NEW e, e = Now'.item, e \notin Resurrected
  PROVE  Linked(e)'
<1>1. CASE UNCHANGED <<pc, cur>>
  <2>1. Now' = Now /\ pc = "journal" /\ cur < End
    BY <1>1 DEF Now, TypeOK, StepTyped
  <2>2. e \in Entries /\ Linked(e)
    BY <2>1, NowTyped, ConstantsAssumption DEF LinkInv, TypeOK, Linked, Unneeded
  <2> QED BY <2>2, LinkedStays
<1>2. CASE ~UNCHANGED <<pc, cur>>
  <2>1. StaysAt
    BY <1>2, StepFrame DEF BuildPlan, SkipAction, Pretend, Journal, GoesOn, AtAction
  <2>2. Now' = Now
    BY <2>1 DEF StaysAt, Now
  <2>3. Bridge
    <3>1. CASE TakeLock \/ Command \/ Rename \/ RecordMove \/ Rewrite \/ RenameProject
               \/ Commit \/ RecordBridges
      BY <2>2, <3>1 DEF TakeLock, Command, Rename, RecordMove, Rewrite, RenameProject, Commit,
                        RecordBridges, Due, TypeOK, StepTyped
    <3>2. CASE Verify \/ AllParked \/ Suite \/ AllUnparked \/ Verdict \/ Drop \/ AllUnlinked
      BY <2>2, <3>2 DEF Verify, AllParked, Suite, AllUnparked, Verdict, Drop, AllUnlinked, Due,
                        TypeOK, StepTyped, VerifySteps
    <3> QED BY <2>1, <3>1, <3>2 DEF StaysAt
  <2>4. cur < End /\ mode = "apply" /\ Now.phase = "bridge"
    BY <2>3 DEF Bridge, Due, AtAction
  <2>5. e \in Entries /\ bucket[e] = "data" /\ e = Now.item
    BY <2>2, <2>4, AllMoved, NowTyped, ConstantsAssumption DEF TypeOK
  <2>6. root[e] \in {"none", "bridge"}
    BY <2>5 DEF DataInv, NoEntryLost, LinkInv, TypeOK, DiskTyped, Occupants
  <2> QED BY <2>2, <2>3, <2>5, <2>6 DEF Bridge, Linked, TypeOK, DiskTyped
<1> QED BY <1>1, <1>2

\* The links that go are those of a clean verdict.
LEMMA UnlinkedUnneeded ==
  ASSUME TypeOK, DropInv, LinkInv, [Next]_vars, pc' = "unlink"
  PROVE  \A e \in todo' : Unneeded(e)'
<1>1. CASE UNCHANGED <<pc, cur>>
  <2>1. todo' \subseteq todo
    BY <1>1, OutcomeFrame DEF VerifySteps, Park, Unpark, Unlink
  <2> QED BY <1>1, <2>1, UnneededStays DEF LinkInv
<1>2. CASE ~UNCHANGED <<pc, cur>>
  <2>1. StaysAt
    BY <1>2, StepFrame DEF BuildPlan, SkipAction, Pretend, Journal, GoesOn, AtAction
  <2>2. Drop
    BY <2>1 DEF StaysAt, TakeLock, Command, Rename, RecordMove, Rewrite, RenameProject, Commit,
                Bridge, RecordBridges, Verify, AllParked, Suite, AllUnparked, Verdict,
                AllUnlinked
  <2>3. Clean /\ todo' = recorded
    BY <2>2 DEF Drop, DropInv, VerdictSound
  <2>4. \A e \in todo' : Unneeded(e)
    BY <2>3 DEF Clean, Unneeded
  <2> QED BY <2>4, UnneededStays
<1> QED BY <1>1, <1>2

LEMMA LinkStep ==
  ASSUME TypeOK, JournalInv, DataInv, DropInv, LinkInv, [Next]_vars
  PROVE  LinkInv'
<1>1. ASSUME NEW e \in Entries \ Resurrected PROVE root'[e] # "other"
  <2>1. root[e] # "other"
    BY DEF LinkInv
  <2> QED BY <2>1, DiskFrame
          DEF disk, Rename, Rewrite, RenameProject, Commit, Bridge, Park, Unpark, Unlink,
              Recreate, ClearAway, Revert, TypeOK, DiskTyped
<1>2. ASSUME NEW e \in Entries \ Resurrected, Id("bridge", e) \in done' PROVE Linked(e)'
  <2>1. CASE Id("bridge", e) \in done
    BY <2>1, LinkedStays DEF LinkInv
  <2>2. CASE Id("bridge", e) \notin done
    <3>1. Journal /\ Now = Id("bridge", e)
      BY <1>2, <2>2, KeptFrame DEF Journal
    <3>2. Linked(e)
      BY <3>1 DEF Journal, LinkInv, Id
    <3> QED BY <3>2, LinkedStays
  <2> QED BY <2>1, <2>2
<1>3. ASSUME pc' = "journal", Now'.phase = "bridge", Now'.item \notin Resurrected
      PROVE  Linked(Now.item)'
  <2>1. PICK e : e = Now'.item
    OBVIOUS
  <2>2. Linked(e)'
    BY <1>3, <2>1, BridgeMade
  <2> QED BY <2>1, <2>2 DEF Linked, Unneeded
<1> QED BY <1>1, <1>2, <1>3, UnlinkedUnneeded DEF LinkInv

\* Between runs, however the last one ended, a watched reference to an entry
\* that has had its bridge leads to the data.
THEOREM ReferencesLead == Spec => []ReferencesResolve
<1>1. Init => SafetyInv /\ DropInv /\ LinkInv
  BY SafetyInit
     DEF Init, DropInv, AllOrNone, VerdictSound, DropOnlyWhenClean, Dropped, LinkInv
<1>2. SafetyInv /\ DropInv /\ LinkInv /\ [Next]_vars => (SafetyInv /\ DropInv /\ LinkInv)'
  BY TypeStep, JournalStep, DataStep, RefsStep, LockStep, AllOrNoneStep, VerdictStep, DropStep,
     LinkStep DEF SafetyInv, DropInv
<1>3. SafetyInv /\ LinkInv => ReferencesResolve
  BY ConstantsAssumption
     DEF SafetyInv, RefsFollowData, LinkInv, Linked, Unneeded, ReferencesResolve, Resolves
<1> QED BY <1>1, <1>2, <1>3, PTL DEF Spec

-----------------------------------------------------------------------------
(***************************************************************************)
(* Layer 6: what a run means by "migration complete".                      *)
(***************************************************************************)

CompleteInv == RewritesKnown /\ CommitsMade /\ BridgesDropped /\ ExitHonest

\* While a run lasts its list of failures only grows, and what it found to change
\* is what its planner found.
LEMMA MemoryFrame ==
  ASSUME [Next]_vars
  PROVE  \/ pc' = "idle" /\ cur' = 1
         \/ \E m \in {"apply", "dry-run"} : BuildPlan(m)
         \/ failures \subseteq failures' /\ UNCHANGED planned
<1> USE DEF memory
<1>1. CASE UNCHANGED vars
  BY <1>1 DEF vars
<1>2. CASE Begin
  BY <1>2 DEF Begin, Refuse
<1>3. CASE Fail \/ Finish
  BY <1>3 DEF Fail, Finish, Leave, Forget
<1>4. CASE Step /\ ~Fail /\ ~Finish
  BY <1>4 DEF Step, TakeLock, SkipAction, Pretend, Journal, Command, Rename, RecordMove,
              Rewrite, RenameProject, Commit, Bridge, RecordBridges, Verify, Park,
              AllParked, Suite, Unpark, AllUnparked, Verdict, Drop, Unlink, AllUnlinked
<1>5. CASE Disturb
  BY <1>5 DEF Disturb, Unable, Interrupt, Crash, Leave, Forget, Recreate, ClearAway, Revert
<1> QED BY <1>1, <1>2, <1>3, <1>4, <1>5 DEF Next

\* A process that has just come to an action's journaling has executed the action.
LEMMA Executed ==
  ASSUME TypeOK, [Next]_vars, pc' = "journal", ~UNCHANGED <<pc, cur>>
  PROVE  /\ StaysAt /\ Now' = Now /\ cur < End
         /\ Now.phase = "rewrite" => Rewrite
         /\ Now.phase = "commit" => Commit
         /\ Now.phase = "verify" => Verdict \/ AllUnlinked
<1>1. StaysAt
  BY StepFrame DEF BuildPlan, SkipAction, Pretend, Journal, GoesOn, AtAction
<1>2. Now' = Now
  BY <1>1 DEF StaysAt, Now
<1>3. CASE TakeLock \/ Verify \/ AllParked \/ Suite \/ AllUnparked \/ Drop \/ Rename
  BY <1>3 DEF TakeLock, Verify, AllParked, Suite, AllUnparked, Drop, Rename
<1>4. CASE Command \/ RecordMove \/ Rewrite \/ RenameProject \/ Commit \/ Bridge \/ RecordBridges
  BY <1>1, <1>2, <1>4 DEF Command, RecordMove, Rewrite, RenameProject, Commit, Bridge,
       RecordBridges, Due, AtAction, TypeOK, StepTyped
<1>5. CASE Verdict \/ AllUnlinked
  BY <1>1, <1>2, <1>5 DEF Verdict, AllUnlinked, TypeOK, StepTyped, VerifySteps
<1> QED BY <1>1, <1>3, <1>4, <1>5 DEF StaysAt

\* A journaled rewrite is one the run that is under way knows of.
LEMMA RewritesStep ==
  ASSUME TypeOK, JournalInv, RewritesKnown, [Next]_vars
  PROVE  RewritesKnown'
<1>1. ASSUME pc' # "idle", NEW f \in Files, Id("rewrite", f) \in done'
      PROVE  Id("rewrite", f) \in skip' \/ f \in planned'
  <2>1. CASE \E m \in {"apply", "dry-run"} : BuildPlan(m)
    BY <1>1, <2>1 DEF BuildPlan, kept
  <2>2. CASE ~\E m \in {"apply", "dry-run"} : BuildPlan(m)
    <3>1. UNCHANGED <<planned, skip>> /\ pc # "idle"
      <4>1. UNCHANGED planned
        BY <1>1, <2>2, MemoryFrame
      <4>2. UNCHANGED skip /\ (UNCHANGED pc \/ pc # "idle")
        BY <1>1, <2>2, StepFrame, StaysAtApplies
           DEF StaysAt, SkipAction, Pretend, Journal, GoesOn, Executing, Blocked, Due, AtAction
      <4> QED BY <1>1, <4>1, <4>2
    <3>2. CASE Id("rewrite", f) \in done
      BY <3>1, <3>2 DEF RewritesKnown
    <3>3. CASE Id("rewrite", f) \notin done
      <4>1. Journal /\ Now = Id("rewrite", f)
        BY <1>1, <3>3, KeptFrame DEF Journal
      <4>2. Now.phase = "rewrite" /\ Now.item = f
        BY <4>1 DEF Id
      <4> QED BY <3>1, <4>1, <4>2 DEF Journal, RewritesKnown
    <3> QED BY <3>2, <3>3
  <2> QED BY <2>1, <2>2
<1>2. ASSUME pc' = "journal", Now'.phase = "rewrite" PROVE Now'.item \in planned'
  <2>1. UNCHANGED planned
    BY <1>2, MemoryFrame DEF BuildPlan
  <2>2. CASE UNCHANGED <<pc, cur>>
    BY <1>2, <2>1, <2>2 DEF RewritesKnown, Now
  <2>3. CASE ~UNCHANGED <<pc, cur>>
    <3>1. Rewrite /\ Now' = Now
      BY <1>2, <2>3, Executed
    <3>2. Now.item \in planned
      BY <3>1 DEF Rewrite, Due, PassesOver, InPlan
    <3> QED BY <2>1, <3>1, <3>2
  <2> QED BY <2>2, <2>3
<1> QED BY <1>1, <1>2 DEF RewritesKnown

\* Whoever has an action of the plan behind it is in the run that carried it out, and
\* what that run failed at is still on its list.
LEMMA SameRun ==
  ASSUME TypeOK, [Next]_vars, NEW i \in 1..Len(Plan), Carried(i)'
  PROVE  UNCHANGED <<mode, skip, planned>> /\ failures \subseteq failures'
<1>1. ~(pc' = "idle" /\ cur' = 1)
  BY DEF Carried
<1>2. ASSUME NEW m \in {"apply", "dry-run"} PROVE ~BuildPlan(m)
  <2>1. BuildPlan(m) => cur' = 1 /\ pc' = "planned"
    BY DEF BuildPlan, TypeOK, StepTyped
  <2> QED BY <2>1 DEF Carried
<1> QED BY <1>1, <1>2, StepFrame, MemoryFrame DEF StaysAt, GoesOn

\* An action without a failure that a run for real has just put behind it was passed
\* over, or executed.
LEMMA JustCarried ==
  ASSUME TypeOK, [Next]_vars, NEW i \in 1..Len(Plan), Carried(i)', ~Carried(i),
         mode' = "apply", failures' = {}
  PROVE  /\ i = cur /\ Now = Plan[i]
         /\ \/ PassesOver(Now)
            \/ /\ pc' = "journal"
               /\ Now.phase = "commit" => Commit
               /\ Now.phase = "verify" => Verdict \/ AllUnlinked
<1>1. UNCHANGED mode
  BY SameRun
<1>2. CASE cur' = cur
  <2>1. i = cur /\ pc' = "journal" /\ pc # "journal"
    BY <1>2 DEF Carried
  <2> QED BY <2>1, Executed DEF Now
<1>3. CASE cur' # cur
  <2>1. (SkipAction \/ Pretend \/ Journal) \/ GoesOn
    <3>1. ~(pc' = "idle" /\ cur' = 1)
      BY DEF Carried
    <3> QED BY <1>3, <3>1, StepFrame DEF BuildPlan, StaysAt
  <2>2. cur' = cur + 1 /\ pc' = "loop" /\ cur \in Nat
    BY <2>1 DEF SkipAction, Pretend, Journal, GoesOn, AtAction, TypeOK, StepTyped
  <2>3. i = cur /\ pc # "journal"
    BY <2>2 DEF Carried
  <2>4. SkipAction
    BY <1>1, <2>1, <2>3 DEF Pretend, Journal, GoesOn
  <2> QED BY <2>3, <2>4 DEF SkipAction, Now
<1> QED BY <1>2, <1>3

\* A file turns up rewritten and uncommitted only in a rewrite.
LEMMA NewFrame ==
  ASSUME TypeOK, [Next]_vars, NEW f \in Files, refs'[f] = "new"
  PROVE  refs[f] = "new" \/ Rewrite
BY DiskFrame
   DEF disk, Rename, RenameProject, Commit, Bridge, Park, Unpark, Unlink, Recreate,
       ClearAway, Revert, TypeOK, DiskTyped

\* No rewrite comes after a commit.
LEMMA RewritesBeforeCommits ==
  ASSUME TypeOK, Rewrite, NEW i \in 1..Len(Plan), Plan[i].phase = "commit"
  PROVE  ~Carried(i)'
<1>1. cur < End /\ Now.phase \in {"rewrite", "link"} /\ pc' = "journal" /\ cur' = cur
  BY DEF Rewrite, Due, AtAction
<1>2. cur \in 1..Len(Plan)
  BY <1>1, CurInPlan DEF TypeOK
<1>3. Rank["rewrite"] < Rank["commit"] /\ Rank["link"] < Rank["commit"]
  BY DEF Rank, Phases
<1>4. cur < i
  BY <1>1, <1>2, <1>3, PlanAssumption DEF Now
<1> QED BY <1>1, <1>2, <1>4 DEF Carried

\* A commit that is not reported as failed has committed all it had to.
LEMMA CommitsStep ==
  ASSUME TypeOK, CommitsMade, [Next]_vars
  PROVE  CommitsMade'
<1> SUFFICES ASSUME mode' = "apply", failures' = {}, NEW i \in 1..Len(Plan),
                    Plan[i].phase = "commit", Carried(i)',
                    NEW f \in Candidates(Plan[i].item)'
             PROVE  refs'[f] # "new"
  BY DEF CommitsMade
<1>1. UNCHANGED <<mode, skip, planned>> /\ failures = {}
  BY SameRun
<1>2. f \in Candidates(Plan[i].item)
  BY <1>1 DEF Candidates
<1>3. f \in Files
  BY <1>2, ConstantsAssumption DEF Candidates
<1>4. ~Rewrite
  BY RewritesBeforeCommits
<1>5. CASE Carried(i)
  <2>1. refs[f] # "new"
    BY <1>1, <1>2, <1>5 DEF CommitsMade
  <2> QED BY <1>3, <1>4, <2>1, NewFrame
<1>6. CASE ~Carried(i)
  <2>1. Now = Plan[i]
    BY <1>6, JustCarried
  <2>2. ~PassesOver(Now)
    BY <1>2, <2>1 DEF PassesOver, InPlan, AlwaysRerun
  <2>3. Commit
    BY <1>6, <2>1, <2>2, JustCarried
  <2>4. PICK S : /\ S # {g \in Candidates(Now.item) : refs[g] = "new"}
                       => failures' = failures \cup {Now}
                 /\ refs' = [g \in Files |-> IF g \in S THEN "committed" ELSE refs[g]]
    BY <2>3 DEF Commit
  <2>5. S = {g \in Candidates(Now.item) : refs[g] = "new"}
    BY <2>4
  <2> QED BY <1>2, <1>3, <2>1, <2>4, <2>5
<1> QED BY <1>5, <1>6

\* The bridges are recorded before the suite runs without them.
LEMMA RecordedBeforeVerify ==
  ASSUME TypeOK, RecordBridges, NEW i \in 1..Len(Plan), Plan[i].phase = "verify"
  PROVE  ~Carried(i)'
<1>1. cur < End /\ Now.phase = "bridges-record" /\ pc' = "journal" /\ cur' = cur
  BY DEF RecordBridges, Due, AtAction
<1>2. cur \in 1..Len(Plan)
  BY <1>1, CurInPlan DEF TypeOK
<1>3. Rank["bridges-record"] < Rank["verify"]
  BY DEF Rank, Phases
<1>4. cur < i
  BY <1>1, <1>2, <1>3, PlanAssumption DEF Now
<1> QED BY <1>1, <1>2, <1>4 DEF Carried

\* A bridgeless verify that is not reported as failing has dropped the bridges.
LEMMA DroppedStep ==
  ASSUME TypeOK, BridgesDropped, [Next]_vars
  PROVE  BridgesDropped'
<1>1. ASSUME pc' \in {"unpark", "verdict"} PROVE outcome' # "not run"
  <2>1. CASE UNCHANGED <<pc, cur>>
    BY <1>1, <2>1, OutcomeFrame DEF BridgesDropped, VerifySteps
  <2>2. CASE ~UNCHANGED <<pc, cur>>
    <3>1. StaysAt
      BY <1>1, <2>2, StepFrame DEF BuildPlan, SkipAction, Pretend, Journal, GoesOn, AtAction
    <3>2. Suite \/ AllUnparked
      BY <1>1, <3>1
         DEF StaysAt, TakeLock, Command, Rename, RecordMove, Rewrite, RenameProject, Commit,
             Bridge, RecordBridges, Verify, AllParked, Verdict, Drop, AllUnlinked
    <3> QED BY <3>2 DEF Suite, AllUnparked, BridgesDropped, memory
  <2> QED BY <2>1, <2>2
<1>2. ASSUME pc' = "unlink" PROVE recorded' = {}
  <2>1. CASE UNCHANGED <<pc, cur>>
    BY <1>2, <2>1, OutcomeFrame DEF BridgesDropped, VerifySteps
  <2>2. CASE ~UNCHANGED <<pc, cur>>
    <3>1. StaysAt
      BY <1>2, <2>2, StepFrame DEF BuildPlan, SkipAction, Pretend, Journal, GoesOn, AtAction
    <3>2. Drop
      BY <1>2, <3>1
         DEF StaysAt, TakeLock, Command, Rename, RecordMove, Rewrite, RenameProject, Commit,
             Bridge, RecordBridges, Verify, AllParked, Suite, AllUnparked, Verdict, AllUnlinked
    <3> QED BY <3>2 DEF Drop
  <2> QED BY <2>1, <2>2
<1>3. ASSUME mode' = "apply", failures' = {}, NEW i \in 1..Len(Plan),
             Plan[i] = Id("verify", "bridgeless"), Carried(i)', recorded' # {}
      PROVE  FALSE
  <2>1. UNCHANGED mode /\ failures = {}
    BY <1>3, SameRun
  <2>2. Plan[i].phase = "verify" /\ Plan[i].item = "bridgeless"
    BY <1>3 DEF Id
  <2>3. recorded' = recorded
    BY <1>3, <2>2, RecordedBeforeVerify, KeptFrame DEF Drop
  <2>4. ~Carried(i)
    BY <1>3, <2>1, <2>3 DEF BridgesDropped
  <2>5. Now = Plan[i]
    BY <1>3, <2>4, JustCarried
  <2>6. ~PassesOver(Now)
    BY <2>2, <2>5 DEF PassesOver, InPlan, AlwaysRerun
  <2>7. pc' = "journal" /\ (Verdict \/ AllUnlinked)
    BY <1>3, <2>2, <2>4, <2>5, <2>6, JustCarried
  <2>8. CASE AllUnlinked
    BY <1>3, <2>3, <2>8 DEF AllUnlinked, BridgesDropped
  <2>9. CASE Verdict
    <3>1. outcome = "clean"
      BY <1>3, <2>9 DEF Verdict, BridgesDropped, TypeOK, MemoryTyped
    <3>2. Bridgeless
      BY <2>2, <2>5 DEF Bridgeless
    <3> QED BY <1>3, <2>3, <2>7, <2>9, <3>1, <3>2 DEF Verdict
  <2> QED BY <2>7, <2>8, <2>9
<1> QED BY <1>1, <1>2, <1>3 DEF BridgesDropped

\* How a step may change what the last run is said to have come to.
LEMMA ExitMeaning ==
  ASSUME TypeOK, [Next]_vars
  PROVE  \/ exit' = exit /\ (pc' = "idle" <=> pc = "idle")
         \/ exit' = "running"
         \/ exit' \in {"refused", "unresolved", "killed"} /\ pc' = "idle"
         \/ /\ Finish /\ failures = {}
            /\ exit' = "complete" /\ pc' = "idle"
<1>1. CASE UNCHANGED vars
  BY <1>1 DEF vars
<1>2. CASE Begin
  BY <1>2 DEF Begin, Refuse, BuildPlan
<1>3. CASE Fail
  BY <1>3 DEF Fail, Leave, Forget, Executing, Blocked, Due, AtAction
<1>4. CASE Finish
  BY <1>4 DEF Finish, Leave, Forget, TypeOK, MemoryTyped
<1>5. CASE Step /\ ~Fail /\ ~Finish
  BY <1>5 DEF Step, TakeLock, SkipAction, Pretend, Journal, Command, Rename, RecordMove,
              Rewrite, RenameProject, Commit, Bridge, RecordBridges, Verify, Park,
              AllParked, Suite, Unpark, AllUnparked, Verdict, Drop, Unlink, AllUnlinked,
              Due, AtAction
<1>6. CASE Disturb
  BY <1>6 DEF Disturb, Unable, Interrupt, Crash, Leave, Forget, Recreate, ClearAway, Revert
<1> QED BY <1>1, <1>2, <1>3, <1>4, <1>5, <1>6 DEF Next

\* A run that comes to its end with nothing on its list has moved every entry, dropped
\* the bridges and committed whatever the journal has as rewritten.
LEMMA EndOfRun ==
  ASSUME TypeOK, JournalInv, DataInv, CompleteInv, Finish, mode = "apply", failures = {}
  PROVE  /\ recorded = {} /\ \A e \in Entries : bucket[e] = "data"
         /\ \A f \in Tracked \ Links : Id("rewrite", f) \in done => refs[f] # "new"
<1>1. cur = End /\ pc = "loop"
  BY DEF Finish
<1>2. ASSUME NEW i \in 1..Len(Plan) PROVE i < cur /\ Carried(i)
  BY <1>1, PlanTyped DEF Carried, End
<1>3. ASSUME NEW e \in Entries PROVE bucket[e] = "data"
  <2>1. PICK i \in 1..Len(Plan) : Plan[i] = Id("move", e)
    BY PlanAssumption
  <2>2. Hard(Plan[i])
    BY <2>1 DEF Hard, Id, ContinueOnFail, AlwaysRerun
  <2>3. Plan[i] \in done
    BY <1>2, <2>2 DEF JournalInv, PrefixDone
  <2> QED BY <2>1, <2>3 DEF DataInv, JournalTruthful
<1>4. recorded = {}
  <2>1. PICK i \in 1..Len(Plan) : Plan[i] = Id("verify", "bridgeless")
    BY PlanAssumption
  <2> QED BY <1>2, <2>1 DEF CompleteInv, BridgesDropped
<1>5. ASSUME NEW f \in Tracked \ Links, Id("rewrite", f) \in done PROVE refs[f] # "new"
  <2>1. f \in Files
    BY ConstantsAssumption
  <2>2. Id("rewrite", f) \in skip \/ f \in planned
    BY <1>1, <1>5, <2>1 DEF CompleteInv, RewritesKnown
  <2>3. PICK i \in 1..Len(Plan) : Plan[i] = Id("commit", InDir[f])
    BY PlanAssumption
  <2>4. Plan[i].phase = "commit" /\ Plan[i].item = InDir[f]
    BY <2>3 DEF Id
  <2>5. f \in Candidates(Plan[i].item)
    BY <2>2, <2>4 DEF Candidates
  <2> QED BY <1>2, <2>4, <2>5 DEF CompleteInv, CommitsMade
<1> QED BY <1>3, <1>4, <1>5

\* What "migration complete" said stays true until the next run begins.
LEMMA CompleteStays ==
  ASSUME TypeOK, DataInv, CompleteInv, [Next]_vars, exit = "complete", Completed'
  PROVE  CompleteMeansDone'
<1>0. pc = "idle" /\ exit' = "complete" /\ mode' = "apply"
  BY DEF CompleteInv, ExitHonest, Completed
<1>1. pc = "idle" /\ Completed
  BY <1>0, StepFrame
     DEF BuildPlan, StaysAt, SkipAction, Pretend, Journal, AtAction, GoesOn, Executing,
         Blocked, Due, Completed
<1>2. UNCHANGED <<done, recorded>>
  BY <1>1, KeptFrame DEF Journal, RecordBridges, Drop, Due, AtAction
<1>3. ASSUME NEW e \in Entries PROVE bucket'[e] = "data"
  BY <1>1, DataStays DEF CompleteInv, ExitHonest, CompleteMeansDone
<1>4. ASSUME NEW f \in Tracked \ Links, Id("rewrite", f) \in done' PROVE refs'[f] # "new"
  <2>1. f \in Files /\ ~Rewrite
    BY <1>1, ConstantsAssumption DEF Rewrite, Due, AtAction
  <2>2. refs[f] # "new"
    BY <1>1, <1>2, <1>4 DEF CompleteInv, ExitHonest, CompleteMeansDone
  <2> QED BY <2>1, <2>2, NewFrame
<1>5. recorded' = {}
  BY <1>1, <1>2 DEF CompleteInv, ExitHonest, CompleteMeansDone
<1> QED BY <1>3, <1>4, <1>5 DEF CompleteMeansDone

LEMMA HonestStep ==
  ASSUME TypeOK, JournalInv, DataInv, CompleteInv, [Next]_vars
  PROVE  ExitHonest'
<1>1. pc' # "idle" => exit' = "running"
  BY ExitMeaning DEF CompleteInv, ExitHonest
<1>2. ASSUME Completed' PROVE CompleteMeansDone'
  <2>1. CASE exit = "complete"
    BY <1>2, <2>1, CompleteStays DEF Completed
  <2>2. CASE exit # "complete"
    <3>1. Finish /\ failures = {} /\ mode = "apply"
      BY <1>2, <2>2, ExitMeaning DEF Completed, Finish, Leave, Forget
    <3>2. UNCHANGED <<done, recorded, refs, bucket>>
      BY <3>1 DEF Finish, Leave, disk
    <3> QED BY <3>1, <3>2, EndOfRun DEF CompleteMeansDone
  <2> QED BY <2>1, <2>2
<1> QED BY <1>1, <1>2 DEF ExitHonest, CompleteMeansDone, Completed

\* Whatever runs were cut short before it: an apply that says "migration complete" leaves
\* every entry in its bucket, no bridge in the manifest, and no file that the journal has
\* as rewritten without its commit.
THEOREM CompleteIsDone == Spec => []CompleteMeansDone
<1>1. Init => SafetyInv /\ CompleteInv
  <2> SUFFICES ASSUME Init PROVE CompleteInv
    BY SafetyInit
  <2>1. cur = 1 /\ pc = "idle"
    BY DEF Init
  <2>2. \A i \in 1..Len(Plan) : ~(i < 1)
    OBVIOUS
  <2>3. \A i \in 1..Len(Plan) : ~Carried(i)
    BY <2>1, <2>2 DEF Carried
  <2> QED BY <2>1, <2>3
          DEF Init, CompleteInv, RewritesKnown, CommitsMade, BridgesDropped, ExitHonest,
              CompleteMeansDone, Completed
<1>2. SafetyInv /\ CompleteInv /\ [Next]_vars => (SafetyInv /\ CompleteInv)'
  <2>1. SafetyInv /\ [Next]_vars => SafetyInv'
    BY TypeStep, JournalStep, DataStep, RefsStep, LockStep DEF SafetyInv
  <2>2. SafetyInv /\ CompleteInv /\ [Next]_vars => CompleteInv'
    BY RewritesStep, CommitsStep, DroppedStep, HonestStep DEF SafetyInv, CompleteInv
  <2> QED BY <2>1, <2>2
<1>3. CompleteInv => CompleteMeansDone
  BY DEF CompleteInv, ExitHonest
<1> QED BY <1>1, <1>2, <1>3, PTL DEF Spec

-----------------------------------------------------------------------------
(***************************************************************************)
(* Refinement: Migrate implements Relocation.                              *)
(***************************************************************************)

\* The three variables of Relocation, as Migrate's mapping defines them.
Where == [e \in Entries |-> IF bucket[e] = "data" THEN "new" ELSE "old"]
Refs == [f \in Files |-> IF refs[f] = "old" THEN "old" ELSE "new"]
Released == {e \in Entries : Dropped(e)}

\* Journal and RecordBridges release nothing; only Drop does, and what it
\* releases is every bridge of the map, or nothing.
LEMMA ReleasedFrame ==
  ASSUME TypeOK, JournalInv, DropInv, [Next]_vars, ~Drop
  PROVE  Released' = Released
<1>1. CASE UNCHANGED <<done, recorded>>
  BY <1>1 DEF Released, Dropped
<1>2. CASE RecordBridges
  <2>1. UNCHANGED done
    BY <1>2 DEF RecordBridges
  <2> QED BY <1>2, <2>1, RecordedOnce DEF Released, Dropped
<1>3. CASE Journal
  <2>1. recorded' = recorded
    BY <1>3 DEF Journal
  <2>2. CASE Id("bridges-record", "-") \in done' /\ Id("bridges-record", "-") \notin done
    <3>1. Now = Id("bridges-record", "-")
      BY <1>3, <2>2 DEF Journal
    <3>2. recorded = Bridged
      BY <1>3, <3>1 DEF Journal, DropInv, AllOrNone, Id
    <3> QED BY <2>1, <2>2, <3>2 DEF Released, Dropped
  <2>3. CASE ~(Id("bridges-record", "-") \in done' /\ Id("bridges-record", "-") \notin done)
    BY <1>3, <2>1, <2>3 DEF Journal, Released, Dropped
  <2> QED BY <2>2, <2>3
<1> QED BY <1>1, <1>2, <1>3, KeptFrame DEF Journal, RecordBridges

\* A rename relocates its entry; nothing else does.
LEMMA WhereFrame ==
  ASSUME TypeOK, DataInv, [Next]_vars
  PROVE  \/ Where' = Where
         \/ \E e \in Entries : /\ Rename /\ Where[e] = "old"
                               /\ Where' = [Where EXCEPT ![e] = "new"]
<1>1. CASE Rename
  <2>1. Now.item \in Entries /\ root[Now.item] # "none" /\ bucket[Now.item] = "none"
    BY <1>1, NowTyped DEF Rename, Due, AtAction, CanRename, TypeOK
  <2>2. root[Now.item] = "data"
    BY <2>1 DEF DataInv, NoEntryLost
  <2>3. bucket' = [bucket EXCEPT ![Now.item] = "data"]
    BY <1>1, <2>2 DEF Rename
  <2>4. Where[Now.item] = "old"
    BY <2>1 DEF Where
  <2>5. Where' = [Where EXCEPT ![Now.item] = "new"]
    BY <2>1, <2>3 DEF Where, TypeOK, DiskTyped
  <2> QED BY <1>1, <2>1, <2>4, <2>5
<1>2. CASE ~Rename
  <2>1. bucket' = bucket
    BY <1>2, DiskFrame DEF disk, Rewrite, RenameProject, Commit, Bridge, Park, Unpark, Unlink,
                           Recreate, ClearAway, Revert
  <2> QED BY <2>1 DEF Where
<1> QED BY <1>1, <1>2

\* A rewrite re-points its file, and its entry is there; a revert restores one.
LEMMA RefsFrame ==
  ASSUME TypeOK, JournalInv, DataInv, [Next]_vars
  PROVE  \/ Refs' = Refs
         \/ \E f \in Files : /\ Rewrite /\ Where[Target[f]] = "new"
                             /\ Refs' = [Refs EXCEPT ![f] = "new"]
         \/ \E f \in Files : Revert(f) /\ Refs' = [Refs EXCEPT ![f] = "old"]
<1> USE DEF TypeOK, DiskTyped
<1>1. CASE Rewrite
  <2>1. cur < End /\ mode = "apply" /\ Now.phase \in {"rewrite", "link"} /\ Now.item \in Files
    BY <1>1, NowTyped DEF Rewrite, Due, AtAction
  <2>2. bucket[Target[Now.item]] = "data" /\ Target[Now.item] \in Entries
    BY <2>1, AllMoved, ConstantsAssumption
  <2>3. Refs' = [Refs EXCEPT ![Now.item] = "new"]
    BY <1>1, <2>1 DEF Rewrite, Refs
  <2> QED BY <1>1, <2>1, <2>2, <2>3 DEF Where
<1>2. ASSUME NEW f \in Files, Revert(f) PROVE Refs' = [Refs EXCEPT ![f] = "old"]
  BY <1>2 DEF Revert, Refs
<1>3. CASE Commit
  BY <1>3 DEF Commit, Refs
<1>4. CASE UNCHANGED refs
  BY <1>4 DEF Refs
<1> QED BY <1>1, <1>2, <1>3, <1>4, DiskFrame
        DEF disk, Rename, RenameProject, Bridge, Park, Unpark, Unlink, Recreate, ClearAway

\* Every step of Migrate is a step of Relocation under the mapping, or changes
\* none of its variables.
LEMMA StepRefines ==
  ASSUME SafetyInv, DropInv, [Next]_vars
  PROVE  [R!RNext]_(R!rvars)
<1> USE DEF SafetyInv
<1>1. CASE Rename
  <2>1. PICK e \in Entries : \/ Where[e] = "old" /\ Where' = [Where EXCEPT ![e] = "new"]
                             \/ Where' = Where
    BY <1>1, WhereFrame, NowTyped DEF TypeOK, Rename, Due, AtAction
  <2>2. Refs' = Refs /\ Released' = Released
    BY <1>1, ReleasedFrame DEF Rename, Drop, Refs, Due, AtAction
  <2> QED BY <2>1, <2>2 DEF R!RNext, R!Relocate, R!rvars, Where, Refs, Released
<1>2. CASE Drop
  <2>1. Where' = Where /\ Refs' = Refs
    BY <1>2 DEF Drop, disk, Where, Refs
  <2>2. \E E \in SUBSET Entries : /\ Released' = Released \cup E
                                  /\ \A f \in Watched \ Tracked : Target[f] \in E => refs[f] # "old"
    <3>1. CASE Id("bridges-record", "-") \in done
      <4>1. Released' = Bridged /\ Released = Bridged \ recorded /\ recorded \subseteq Entries
        BY <1>2, <3>1, ConstantsAssumption DEF Drop, Released, Dropped, TypeOK, KeptTyped
      <4>2. Clean
        BY <1>2 DEF Drop, DropInv, VerdictSound
      <4> QED BY <4>1, <4>2, ConstantsAssumption DEF Clean, TypeOK, KeptTyped
    <3>2. CASE Id("bridges-record", "-") \notin done
      <4>1. Released' = {} /\ Released = {}
        BY <1>2, <3>2 DEF Drop, Released, Dropped
      <4> QED BY <4>1
    <3> QED BY <3>1, <3>2
  <2>3. \A f \in Watched : f \in Files
    BY ConstantsAssumption
  <2> QED BY <2>1, <2>2, <2>3 DEF R!RNext, R!Release, Where, Refs, Released
<1>3. CASE ~Rename /\ ~Drop
  <2>1. Where' = Where /\ Released' = Released
    BY <1>3, WhereFrame, ReleasedFrame
  <2>2. CASE Refs' = Refs
    BY <2>1, <2>2 DEF R!rvars, Where, Refs, Released
  <2>3. ASSUME NEW f \in Files, Where[Target[f]] = "new", Refs' = [Refs EXCEPT ![f] = "new"]
        PROVE  R!RNext
    BY <2>1, <2>3 DEF R!RNext, R!Repoint, Where, Refs, Released
  <2>4. ASSUME NEW f \in Files, Revert(f), Refs' = [Refs EXCEPT ![f] = "old"]
        PROVE  R!RNext
    BY <2>1, <2>4 DEF R!RNext, R!Restore, Where, Refs, Released, Revert
  <2> QED BY <2>2, <2>3, <2>4, RefsFrame
<1> QED BY <1>1, <1>2, <1>3

\* `migrate --apply', with its journal, lock, crashes and re-runs, implements
\* the promise of Relocation: an entry moves once, a reference follows its entry,
\* and an old path is given up only when no watched reference needs it.
THEOREM Refinement == Spec => Implements
<1>1. Init => SafetyInv /\ DropInv
  BY SafetyInit
     DEF Init, DropInv, AllOrNone, VerdictSound, DropOnlyWhenClean, Dropped
<1>2. Init => R!RInit
  BY DEF Init, R!RInit, Dropped
<1>3. SafetyInv /\ DropInv /\ [Next]_vars => (SafetyInv /\ DropInv)'
  BY TypeStep, JournalStep, DataStep, RefsStep, LockStep, AllOrNoneStep, VerdictStep, DropStep
     DEF SafetyInv, DropInv
<1>4. SafetyInv /\ DropInv /\ [Next]_vars => [R!RNext]_(R!rvars)
  BY StepRefines
<1> QED BY <1>1, <1>2, <1>3, <1>4, PTL DEF Spec, Implements, R!RSpec
=============================================================================
