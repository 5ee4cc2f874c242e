-------------------------- MODULE UsageReportProofs -------------------------
(***************************************************************************)
(* No sample is lost between two reports, and no report on file shrinks,   *)
(* but for what atop has broken off, for days of any length and every      *)
(* interleaving with the loggers.                                          *)
(***************************************************************************)
EXTENDS UsageReport, TLAPS

\* What the first theorem is about: the only samples are Atop's, and a run is
\* killed before it touches the time stamp or not at all.
Kept == Kinds = {Atop} /\ KillAt \subseteq {"read", "write"}

Run == [tracked : BOOLEAN, now : Nat, start : Nat, day : Nat, got : SUBSET Samples,
        missed : SUBSET Samples, flushed : BOOLEAN]

SinceTyped == /\ program \in {"since", "catchup"} /\ clock \in 0 .. LastTick[program]
              /\ logged \subseteq Samples
              /\ last \in Nat \cup {None} /\ base \in Nat \cup {None}
              /\ pc \in {"idle", "read", "write", "torn", "exit"}
              /\ run \in Run /\ times \in [Samples -> 0 .. 2] /\ owed \subseteq Samples
              /\ unread \subseteq Samples

-----------------------------------------------------------------------------
\* An earlier second is of no later day.
LEMMA DayMonotone ==
  ASSUME NEW a \in Nat, NEW b \in Nat, a <= b
  PROVE  Day(a) \in Nat /\ Day(b) \in Nat /\ Day(a) <= Day(b)
BY KindsAssumption, ClockAssumption DEF Day

LEMMA SecondMonotone ==
  ASSUME NEW a \in Nat, NEW b \in Nat, a <= b
  PROVE  Second(a) \in Nat /\ Second(b) \in Nat /\ Second(a) <= Second(b)
BY DEF Second

LEMMA MidnightIsASecond == ASSUME NEW d \in Nat PROVE Midnight(d) \in Nat
BY ClockAssumption DEF Midnight

\* The clock is a tick, and the second it shows may be that of a sample.
LEMMA ClockTyped ==
  ASSUME program \in {"since", "catchup"}, clock \in 0 .. LastTick[program]
  PROVE  clock \in Nat /\ Second(clock) \in Seconds /\ Second(clock) \in Nat
<1> DEFINE n == MaxDays * SecondsPerDay
<1>1. n \in Nat
  BY ClockAssumption
<1>2. LastTick[program] \in 0 .. 2 * n - 1
  <2>1. 2 * n = 2 * MaxDays * SecondsPerDay
    BY ClockAssumption
  <2> QED BY <2>1, TickAssumption
<1>3. Seconds = 0 .. n - 1
  BY DEF Seconds
<1> HIDE DEF n
<1> QED BY <1>1, <1>2, <1>3 DEF Second

LEMMA SegmentTyped ==
  ASSUME SinceTyped, NEW d, NEW b PROVE Segment(d, b) \in SUBSET Samples
BY DEF SinceTyped, Segment, OfDay

\* The counts stay counts, and no delivered sample is taken back.
LEMMA Delivered ==
  ASSUME SinceTyped, Deliver
  PROVE  /\ times' \in [Samples -> 0 .. 2]
         /\ \A s \in Samples : times[s] > 0 => times'[s] > 0
         /\ run.tracked => \A s \in run.got : times'[s] > 0
<1>1. \A s \in Samples :
        times'[s] = IF run.tracked /\ s \in run.got /\ times[s] < 2 THEN times[s] + 1 ELSE times[s]
  BY DEF Deliver
<1>2. times \in [Samples -> 0 .. 2] /\ run.got \subseteq Samples
  BY DEF SinceTyped, Run
<1>3. times' \in [Samples -> 0 .. 2]
  BY <1>2 DEF Deliver
<1> QED BY <1>1, <1>2, <1>3

-----------------------------------------------------------------------------
(***************************************************************************)
(* Reports since the last one.                                             *)
(***************************************************************************)

\* Where the next window opens; while the file is empty, only the run knows.
Mark == IF pc = "torn" THEN run.start ELSE last

\* What the run has to report to move the time stamp to its `now'.
Window == {s \in logged : run.start <= s.sec /\ s.sec < Second(run.now)}

\* And what it has come past, with what atop broke off.
Seen == run.got \cup run.missed

StampInv ==
  /\ pc # "torn" => (last = None <=> base = None)
  /\ last # None => last <= Second(clock)
  /\ pc # "idle" => run.now <= clock
  /\ pc \in {"write", "torn"} => run.tracked
  /\ pc \in {"read", "write"} /\ run.tracked /\ last # None => run.start = last
  /\ pc = "torn" /\ base # None => run.start <= Second(clock)

WindowInv ==
  /\ base # None => \A s \in logged : base <= s.sec /\ s.sec < Mark => s \in owed
  /\ pc = "read" => ~run.flushed /\ \A s \in Window : Day(s.sec) < run.day => s \in Seen
  /\ pc \in {"write", "torn"} => Window \subseteq Seen

\* What is owed has gone out, or goes out with the end of the run, or was broken off.
Covered(s) == times[s] > 0 \/ s \in unread \/ (pc = "exit" /\ run.tracked /\ ~run.flushed /\ s \in run.got)

OwedInv == /\ \A s \in owed : Covered(s)
           /\ run.tracked /\ run.flushed => \A s \in run.got : times[s] > 0

SinceInv == SinceTyped /\ StampInv /\ WindowInv /\ OwedInv

LEMMA SinceInit == Init => SinceInv
<1> SUFFICES ASSUME Init PROVE SinceInv
  OBVIOUS
<1>1. SinceTyped
  BY TickAssumption, ClockAssumption DEF Init, SinceTyped, Run, Idle
<1> QED BY <1>1, NoneAssumption
        DEF Init, SinceInv, StampInv, WindowInv, OwedInv, Idle, Window, Seen

\* A tick, or a sample: it is no earlier than any `now' and any time stamp.
LEMMA WorldStep ==
  ASSUME SinceInv, Tick \/ \E kind \in Kinds : Sample(kind)
  PROVE  SinceInv'
<1> USE DEF since
<1>0. clock \in Nat /\ clock' \in Nat /\ clock <= clock' /\ UNCHANGED since
      /\ program' = program
  BY ClockTyped DEF SinceInv, SinceTyped, Tick, Sample
<1>1. Second(clock) <= Second(clock)' /\ Second(clock)' \in Nat /\ Second(clock) \in Nat
  BY <1>0, SecondMonotone DEF Second
<1>2. \A s \in logged' : s \in logged \/ s.sec = Second(clock)
  BY DEF Tick, Sample, catchup
<1>3. SinceTyped'
  <2>1. logged' \subseteq Samples
    BY ClockTyped DEF SinceInv, SinceTyped, Tick, Sample, Samples
  <2>2. clock' \in 0 .. LastTick[program]
    BY <1>0, TickAssumption DEF SinceInv, SinceTyped, Tick, Sample
  <2> QED BY <1>0, <2>1, <2>2 DEF SinceInv, SinceTyped
<1>4. StampInv'
  BY <1>0, <1>1 DEF SinceInv, SinceTyped, StampInv, Run
<1>5. pc # "idle" => \A s \in Window' : s \in Window
  <2>1. pc # "idle" => Second(run.now) <= Second(clock)
    BY <1>0, SecondMonotone DEF SinceInv, StampInv, SinceTyped, Run
  <2> QED BY <1>0, <1>1, <1>2, <2>1, SecondMonotone
          DEF Window, SinceInv, SinceTyped, Run
<1>6. base # None => \A s \in logged' : base <= s.sec /\ s.sec < Mark => s \in logged
  BY <1>0, <1>1, <1>2 DEF Mark, SinceInv, StampInv, SinceTyped, Run
<1>7. WindowInv'
  BY <1>0, <1>5, <1>6 DEF SinceInv, WindowInv, Mark, Seen
<1>8. OwedInv'
  BY <1>0 DEF SinceInv, OwedInv, Covered
<1> QED BY <1>3, <1>4, <1>7, <1>8 DEF SinceInv

\* A run starts where the last one's time stamp says, and begins with that day.
LEMMA BeginStep ==
  ASSUME SinceInv, NEW d \in Nat \cup {None}, \E updates \in BOOLEAN : Begin(d, updates)
  PROVE  SinceInv'
<1> USE DEF world, catchup
<1>0. clock \in Nat /\ Second(clock) \in Nat /\ Day(Second(clock)) \in Nat
  BY ClockTyped, DayMonotone DEF SinceInv, SinceTyped
<1>1. ResolveStart(d) \in Nat
  BY <1>0, MidnightIsASecond DEF ResolveStart, SinceInv, SinceTyped
<1>2. PICK start \in Nat : start = ResolveStart(d)
  BY <1>1
<1>3. Day(start) \in Nat
  BY DayMonotone
<1> PICK updates \in BOOLEAN : Begin(d, updates)
  OBVIOUS
<1>4. /\ run' = [Idle EXCEPT !.tracked = (d = None /\ updates), !.now = clock, !.start = start,
                             !.day = Day(start)]
      /\ pc = "idle" /\ pc' = "read"
      /\ UNCHANGED <<program, clock, logged, last, times, owed, base, unread>>
  BY <1>2 DEF Begin
<1>5. /\ run' \in Run /\ run'.tracked = (d = None /\ updates) /\ run'.now = clock
      /\ run'.start = start /\ run'.day = Day(start) /\ run'.got = {} /\ run'.missed = {}
      /\ ~run'.flushed
  BY <1>0, <1>3, <1>4 DEF Idle, Run
<1>6. SinceTyped'
  BY <1>4, <1>5 DEF SinceInv, SinceTyped
<1>7. run'.tracked /\ last # None => run'.start = last
  BY <1>2, <1>5 DEF ResolveStart
<1>8. StampInv'
  BY <1>0, <1>4, <1>5, <1>7 DEF SinceInv, StampInv
<1>9. \A s \in Window' : ~(Day(s.sec) < Day(start))
  <2> SUFFICES ASSUME NEW s \in logged, start <= s.sec PROVE ~(Day(s.sec) < Day(start))
    BY <1>4, <1>5 DEF Window
  <2>1. s.sec \in Nat
    BY DEF SinceInv, SinceTyped, Samples, Seconds
  <2> QED BY <2>1, DayMonotone
<1>10. WindowInv'
  BY <1>4, <1>5, <1>9 DEF SinceInv, WindowInv, Mark, Seen
<1>11. OwedInv'
  BY <1>4, <1>5 DEF SinceInv, OwedInv, Covered
<1> QED BY <1>6, <1>8, <1>10, <1>11 DEF SinceInv

\* Reading a day leaves none of the window on that day unread.
LEMMA ReadStep ==
  ASSUME SinceInv, ReadDay
  PROVE  SinceInv'
<1> USE DEF world, catchup
<1>1. PICK all \in SUBSET Samples : all = Segment(run.day, run.start)
  BY SegmentTyped DEF SinceInv
<1>2. PICK more \in SUBSET all :
        run' = [run EXCEPT !.day = run.day + 1, !.got = run.got \cup more,
                           !.missed = run.missed \cup (all \ more)]
  BY <1>1 DEF ReadDay, Replays
<1>a. pc = "read" /\ UNCHANGED <<program, clock, logged, last, pc, times, owed, base, unread>>
  BY DEF ReadDay
<1>3. /\ run' \in Run /\ run'.tracked = run.tracked /\ run'.now = run.now
      /\ run'.start = run.start /\ run'.day = run.day + 1 /\ run'.flushed = run.flushed
      /\ run'.got = run.got \cup more /\ run'.missed = run.missed \cup (all \ more)
  <2>1. run \in Run
    BY DEF SinceInv, SinceTyped
  <2>2. /\ run.day + 1 \in Nat /\ run.got \cup more \in SUBSET Samples
        /\ run.missed \cup (all \ more) \in SUBSET Samples
    BY <2>1 DEF Run
  <2> HIDE DEF Samples
  <2> QED BY <1>2, <2>1, <2>2 DEF Run
<1>4. SinceTyped' /\ StampInv'
  BY <1>a, <1>3 DEF SinceInv, SinceTyped, StampInv
<1>5. ASSUME NEW s \in Window', Day(s.sec) < run.day + 1 PROVE s \in Seen'
  <2>1. s \in Window
    BY <1>a, <1>3 DEF Window
  <2>2. Day(s.sec) \in Nat /\ run.day \in Nat
    <3>1. s.sec \in Nat
      BY <2>1 DEF Window, SinceInv, SinceTyped, Samples, Seconds
    <3> QED BY <3>1, DayMonotone DEF SinceInv, SinceTyped, Run
  <2>3. CASE Day(s.sec) < run.day
    BY <1>a, <1>3, <2>1, <2>3 DEF SinceInv, WindowInv, Seen
  <2>4. CASE Day(s.sec) = run.day
    BY <1>1, <1>3, <2>1, <2>4 DEF Window, Segment, OfDay, Seen
  <2> QED BY <1>5, <2>2, <2>3, <2>4
<1>6. WindowInv' /\ OwedInv'
  BY <1>a, <1>3, <1>5 DEF SinceInv, WindowInv, OwedInv, Covered, Mark
<1> QED BY <1>4, <1>6 DEF SinceInv

\* When the days up to `now' are read, the whole window is.
LEMMA WindowRead ==
  ASSUME SinceInv, AllRead
  PROVE  Window \subseteq Seen
<1> SUFFICES ASSUME NEW s \in Window PROVE s \in Seen
  OBVIOUS
<1>1. s.sec \in Nat /\ run.now \in Nat /\ run.day \in Nat /\ pc = "read"
  BY DEF Window, SinceInv, SinceTyped, Samples, Seconds, Run, AllRead
<1>2. Second(run.now) \in Nat /\ s.sec <= Second(run.now)
  BY <1>1, SecondMonotone DEF Window
<1>3. /\ Day(s.sec) \in Nat /\ Day(Second(run.now)) \in Nat
      /\ Day(s.sec) <= Day(Second(run.now))
  BY <1>1, <1>2, DayMonotone
<1>4. Day(Second(run.now)) < run.day
  BY <1>1, <1>3 DEF AllRead
<1> QED BY <1>1, <1>3, <1>4 DEF SinceInv, WindowInv

\* The report goes out, or waits for the end, or there is none to make.
LEMMA EmitStep ==
  ASSUME SinceInv, Kept, NothingToReport \/ \E flushed \in BOOLEAN : Emit(flushed)
  PROVE  SinceInv'
<1> USE DEF world, catchup
<1>0. /\ pc = "read" /\ pc' = (IF run.tracked THEN "write" ELSE "exit")
      /\ Window \subseteq Seen /\ ~run.flushed
      /\ UNCHANGED <<program, clock, logged, last, owed, base, unread>>
  BY WindowRead DEF NothingToReport, Emit, AfterReport, AllRead, SinceInv, WindowInv
<1>1. CASE NothingToReport
  <2>1. run.got = {}
    BY <1>1 DEF NothingToReport, Kept, SinceInv, SinceTyped, Run, Samples
  <2>2. UNCHANGED <<run, times>>
    BY <1>1, <2>1 DEF NothingToReport, SinceInv, SinceTyped, Run
  <2> QED BY <1>0, <2>2
          DEF SinceInv, SinceTyped, StampInv, WindowInv, OwedInv, Covered, Mark, Window, Seen
<1>2. ASSUME NEW flushed \in BOOLEAN, Emit(flushed) PROVE SinceInv'
  <2>1. /\ run' \in Run /\ run'.tracked = run.tracked /\ run'.now = run.now
        /\ run'.start = run.start /\ run'.day = run.day /\ run'.got = run.got
        /\ run'.missed = run.missed /\ run'.flushed = flushed
    BY <1>2 DEF Emit, SinceInv, SinceTyped, Run
  <2>2. /\ times' \in [Samples -> 0 .. 2]
        /\ \A s \in Samples : times[s] > 0 => times'[s] > 0
        /\ flushed /\ run.tracked => \A s \in run.got : times'[s] > 0
    <3>1. CASE flushed
      BY <1>2, <3>1, Delivered DEF Emit, SinceInv
    <3>2. CASE ~flushed
      BY <1>2, <3>2 DEF Emit, SinceInv, SinceTyped
    <3> QED BY <3>1, <3>2
  <2>3. SinceTyped' /\ StampInv'
    BY <1>0, <2>1, <2>2 DEF SinceInv, SinceTyped, StampInv
  <2>4. WindowInv'
    BY <1>0, <2>1 DEF SinceInv, WindowInv, Mark, Window, Seen
  <2>5. OwedInv'
    BY <1>0, <2>1, <2>2 DEF SinceInv, SinceTyped, OwedInv, Covered
  <2> QED BY <2>3, <2>4, <2>5 DEF SinceInv
<1> QED BY <1>1, <1>2

\* The time stamp moves to `now' once all before it is in the report.
LEMMA StampStep ==
  ASSUME SinceInv, Kept, Truncate \/ WriteLast \/ Exit \/ Killed
  PROVE  SinceInv'
<1> USE DEF world, catchup
<1>1. CASE Truncate
  <2>1. /\ pc = "write" /\ pc' = "torn" /\ last' = None
        /\ UNCHANGED <<program, clock, logged, run, times, owed, base, unread>>
    BY <1>1 DEF Truncate
  <2> QED BY <2>1
          DEF SinceInv, SinceTyped, StampInv, WindowInv, OwedInv, Covered, Mark, Window, Seen
<1>2. CASE WriteLast
  <2>1. /\ pc = "torn" /\ pc' = "exit" /\ last' = Second(run.now)
        /\ base' = (IF base = None THEN run.start ELSE base)
        /\ owed' = owed \cup {s \in logged : base' <= s.sec /\ s.sec < last'}
        /\ unread' = unread \cup run.missed
        /\ UNCHANGED <<program, clock, logged, run, times>>
    BY <1>2 DEF WriteLast
  <2>2. last' \in Nat /\ last' <= Second(clock) /\ run.now <= clock /\ run.tracked
    BY <2>1, ClockTyped, SecondMonotone DEF SinceInv, SinceTyped, StampInv, Run
  <2>3. base' \in Nat
    BY <2>1 DEF SinceInv, SinceTyped, Run
  <2>4. SinceTyped'
    BY <2>1, <2>2, <2>3 DEF SinceInv, SinceTyped, Run
  <2>5. StampInv' /\ WindowInv'
    BY <2>1, <2>2, <2>3, NoneAssumption DEF StampInv, WindowInv, Mark
  <2>6. ASSUME NEW s \in logged, base' <= s.sec, s.sec < last' PROVE s \in owed \cup Seen
    <3>1. CASE run.start <= s.sec
      BY <2>1, <2>6, <3>1 DEF SinceInv, WindowInv, Window
    <3>2. CASE ~(run.start <= s.sec)
      <4>1. s.sec < run.start
        BY <3>2 DEF SinceInv, SinceTyped, Run, Samples, Seconds
      <4>2. base # None
        BY <2>1, <2>6, <3>2
      <4> QED BY <2>1, <2>6, <4>1, <4>2 DEF SinceInv, WindowInv, Mark
    <3> QED BY <3>1, <3>2
  <2>7. OwedInv'
    BY <2>1, <2>2, <2>6 DEF SinceInv, OwedInv, Covered, Seen
  <2> QED BY <2>4, <2>5, <2>7 DEF SinceInv
<1>3. CASE Exit
  <2>1. /\ pc = "exit" /\ pc' = "idle" /\ run' = Idle
        /\ UNCHANGED <<program, clock, logged, last, owed, base, unread>>
    BY <1>3 DEF Exit
  <2>2. /\ times' \in [Samples -> 0 .. 2]
        /\ \A s \in Samples : times[s] > 0 => times'[s] > 0
        /\ ~run.flushed /\ run.tracked => \A s \in run.got : times'[s] > 0
    <3>1. CASE ~run.flushed
      BY <1>3, <3>1, Delivered DEF Exit, SinceInv
    <3>2. CASE run.flushed
      BY <1>3, <3>2 DEF Exit, SinceInv, SinceTyped
    <3> QED BY <3>1, <3>2 DEF SinceInv, SinceTyped, Run
  <2>3. Idle \in Run /\ ~Idle.tracked
    BY DEF Idle, Run
  <2>4. SinceTyped' /\ StampInv' /\ WindowInv'
    BY <2>1, <2>2, <2>3 DEF SinceInv, SinceTyped, StampInv, WindowInv, Mark
  <2>5. OwedInv'
    BY <2>1, <2>2, <2>3 DEF SinceInv, SinceTyped, OwedInv, Covered
  <2> QED BY <2>4, <2>5 DEF SinceInv
<1>4. CASE Killed
  <2>1. /\ pc \in {"read", "write"} /\ pc' = "idle" /\ run' = Idle
        /\ UNCHANGED <<program, clock, logged, last, times, owed, base, unread>>
    BY <1>4 DEF Killed, Kept
  <2>2. Idle \in Run /\ ~Idle.tracked
    BY DEF Idle, Run
  <2>3. SinceTyped' /\ StampInv' /\ WindowInv' /\ OwedInv'
    BY <2>1, <2>2
       DEF SinceInv, SinceTyped, StampInv, WindowInv, OwedInv, Covered, Mark
  <2> QED BY <2>3 DEF SinceInv
<1> QED BY <1>1, <1>2, <1>3, <1>4

\* For days of any length, any bounds and any number of kills before the time
\* stamp is touched: whatever was logged since the first report's window opened
\* and before the latest one closed is in a report that has gone out, or atop broke
\* it off when a run came past it.
THEOREM NoSampleLost == ASSUME Kept PROVE Spec => []NothingLost
<1>1. Init => SinceInv
  BY SinceInit
<1>2. SinceInv /\ [Next]_vars => SinceInv'
  <2> SUFFICES ASSUME SinceInv, [Next]_vars PROVE SinceInv'
    OBVIOUS
  <2>1. CASE UNCHANGED <<world, since>>
    BY <2>1 DEF world, since, SinceInv, SinceTyped, StampInv, WindowInv, OwedInv, Covered, Mark,
                Window, Seen
  <2>2. CASE Tick \/ \E kind \in Kinds : Sample(kind)
    BY <2>2, WorldStep
  <2>3. CASE Reports
    <3>1. ASSUME NEW d \in 0 .. Day(Second(clock)), Begin(d, FALSE) PROVE SinceInv'
      <4> \E updates \in BOOLEAN : Begin(d, updates)
        BY <3>1
      <4>1. Second(clock) \in Nat
        BY ClockTyped DEF SinceInv, SinceTyped
      <4>2. Day(Second(clock)) \in Nat
        BY <4>1, DayMonotone
      <4> QED BY <4>2, BeginStep
    <3>2. ASSUME \E updates \in BOOLEAN : Begin(None, updates) PROVE SinceInv'
      BY <3>2, BeginStep
    <3> QED BY <2>3, <3>1, <3>2, ReadStep, EmitStep, StampStep, Kept DEF Reports
  <2>4. CASE CatchUpLoop \/ GiveUp
    BY <2>1, <2>4 DEF CatchUpLoop, CatchUpStart, PutInPlace, PassBy, MakeReport, GiveUp
  <2> QED BY <2>1, <2>2, <2>3, <2>4 DEF Next, vars
<1>3. SinceInv => NothingLost
  BY DEF SinceInv, OwedInv, Covered, NothingLost
<1> QED BY <1>1, <1>2, <1>3, PTL DEF Spec

-----------------------------------------------------------------------------
(***************************************************************************)
(* The catch-up.                                                           *)
(***************************************************************************)

\* A report, in its place or in the making, holds samples of its day, and the
\* one in the making at least those of the one it replaces, if atop gave all there was.
CatchUpInv ==
  /\ out \in [Days -> (SUBSET Samples) \cup {None}] /\ logged \subseteq Samples
  /\ clock \in 0 .. LastTick[program] /\ program \in {"since", "catchup"}
  /\ \A d \in Days : out[d] # None => out[d] \subseteq OfDay(d)
  /\ tmp # None => /\ tmp.day \in Days /\ tmp.got \in SUBSET Samples
                   /\ tmp.got \subseteq OfDay(tmp.day)
                   /\ tmp.whole /\ out[tmp.day] # None => out[tmp.day] \subseteq tmp.got

LEMMA CatchUpStep ==
  ASSUME CatchUpInv, [Next]_vars
  PROVE  /\ CatchUpInv'
         /\ \A d \in Days :
              out[d] # None => out'[d] # None /\ (out[d] \subseteq out'[d] \/ BrokenOff(d))
<1>1. CASE UNCHANGED <<logged, catchup, program, clock>>
  BY <1>1 DEF CatchUpInv, catchup, OfDay
<1>2. CASE Tick \/ \E kind \in Kinds : Sample(kind)
  <2>1. /\ logged \subseteq logged' /\ UNCHANGED <<out, tmp, program>>
        /\ clock' \in 0 .. LastTick[program]
    BY <1>2, TickAssumption DEF Tick, Sample, catchup, CatchUpInv
  <2>2. logged' \subseteq Samples
    BY <1>2, ClockTyped DEF Tick, Sample, CatchUpInv, Samples
  <2>3. \A d \in Days : OfDay(d) \subseteq OfDay(d)'
    BY <2>1 DEF OfDay
  <2>4. tmp # None => OfDay(tmp.day) \subseteq OfDay(tmp.day)'
    BY <2>1, <2>3 DEF OfDay
  <2> QED BY <2>1, <2>2, <2>3, <2>4 DEF CatchUpInv
<1>3. CASE Reports
  BY <1>1, <1>3 DEF Reports, Begin, ReadDay, NothingToReport, Emit, Truncate, WriteLast, Exit,
                    Killed, world
<1>4. CASE CatchUpStart \/ GiveUp \/ \E d \in Days : PassBy(d)
  BY <1>4 DEF CatchUpStart, GiveUp, PassBy, CatchUpInv, OfDay, world
<1>5. ASSUME NEW d \in Days, MakeReport(d)
      PROVE  CatchUpInv' /\ UNCHANGED out
  <2>1. PICK got \in SUBSET OfDay(d) : tmp' = [day |-> d, got |-> got, whole |-> got = OfDay(d)]
    BY <1>5 DEF MakeReport, Replays
  <2>2. UNCHANGED <<out, logged, program, clock>> /\ OfDay(d) \in SUBSET Samples
    BY <1>5 DEF MakeReport, world, OfDay, CatchUpInv
  <2>3. /\ tmp'.day = d /\ tmp'.got \subseteq OfDay(tmp'.day)
        /\ tmp'.whole => tmp'.got = OfDay(d)
    BY <2>1
  <2> QED BY <2>1, <2>2, <2>3 DEF CatchUpInv, OfDay
<1>6. CASE PutInPlace
  <2>1. /\ tmp # None /\ out' = [out EXCEPT ![tmp.day] = tmp.got] /\ tmp' = None
        /\ UNCHANGED <<logged, program, clock>>
    BY <1>6 DEF PutInPlace, world
  <2>2. tmp.got # None /\ tmp.got \in SUBSET Samples /\ tmp.day \in Days
    BY <2>1, NoneAssumption DEF CatchUpInv
  <2> QED BY <2>1, <2>2 DEF CatchUpInv, OfDay, BrokenOff
<1> QED BY <1>1, <1>2, <1>3, <1>4, <1>5, <1>6 DEF Next, CatchUpLoop, vars, world

\* For days of any length and any number of failures: the catch-up takes no report
\* away that it has once put on file, and no sample out of one but for a replay that
\* atop broke off.
THEOREM ReportsOnlyGrow == Spec => NeverShrinks
<1>1. Init => CatchUpInv
  <2> SUFFICES ASSUME Init PROVE CatchUpInv
    OBVIOUS
  <2>1. clock \in 0 .. LastTick[program] /\ program \in {"since", "catchup"}
    BY SinceInit DEF SinceInv, SinceTyped
  <2>2. tmp = None /\ logged = {} /\ out = [d \in Days |-> None]
    BY DEF Init
  <2> QED BY <2>1, <2>2 DEF CatchUpInv
<1>2. CatchUpInv /\ [Next]_vars => CatchUpInv'
  BY CatchUpStep
<1>3. CatchUpInv /\ [Next]_vars =>
        [\A d \in Days : out[d] # None =>
           out'[d] # None /\ (out[d] \subseteq out'[d] \/ BrokenOff(d))]_vars
  BY CatchUpStep
<1> QED BY <1>1, <1>2, <1>3, PTL DEF Spec, NeverShrinks
=============================================================================
