-------------------------- MODULE BrowserLogProofs --------------------------
(***************************************************************************)
(* The log of a browser stays bounded, for every number of launches, every *)
(* cap and however much the browser writes between two looks.              *)
(***************************************************************************)
EXTENDS BrowserLog, TLAPS

Pieces == {Head1, Verdict, Snapshot, Note} \cup {Out(n) : n \in Nat}
Contents == Seq(Pieces) \cup {Gone}
Watchdog == {"off", "watch", "copied", "moving", "orphan", "note", "gone"}

\* The type of what the bound depends on.
Shape == /\ file \in [Launches -> Contents] /\ trim \in [Launches -> Contents]
         /\ linked \in [Launches -> BOOLEAN] /\ alive \in [Launches -> BOOLEAN]
         /\ flag \in [Launches -> BOOLEAN]
         /\ written \in [Launches -> Nat] /\ burst \in [Launches -> 0 .. Burst]
         /\ pc \in [Launches -> Wrapper] /\ wd \in [Launches -> Watchdog]

\* Before the browser is started nothing is in the log but the header.
Early(l) == pc[l] \in {"new", "rotate", "header", "launch"} =>
               /\ wd[l] = "off" /\ ~alive[l] /\ ~linked[l] /\ burst[l] = 0
               /\ Size(l) <= IF pc[l] = "launch" THEN 1 ELSE 0

\* The pieces of the verdict that may be in the log, which is recorded once.
Recorded(l) == IF pc[l] \in {"kill", "end"} THEN 2 ELSE IF pc[l] = "snapshot" THEN 1 ELSE 0
Once(l) == pc[l] \in {"code", "snapshot", "kill"} => flag[l]

\* What the file that has the name may hold: the browser no longer writes to it
\* once it was moved there, until then the trim is late by one interval.
Limit(l) == Recorded(l) + (IF wd[l] = "watch" THEN Cap + burst[l]
                           ELSE IF wd[l] = "note" THEN Half
                           ELSE Cap + Burst + burst[l])
Bounded(l) == /\ Size(l) <= Limit(l)
              /\ wd[l] = "note" => ~linked[l]
              /\ wd[l] \in {"copied", "moving", "orphan"}
                   => trim[l] \in Seq(Pieces) /\ Len(trim[l]) <= Half

Fits(l) == Early(l) /\ Once(l) /\ Bounded(l)
Inv == Shape /\ \A l \in Launches : Fits(l)

-----------------------------------------------------------------------------
LEMMA HalfIsLess == Half \in Nat /\ Half + 1 <= Cap
BY SizesAssumption DEF Half

\* Appending a piece makes a log of pieces, longer by one.
LEMMA Appended ==
  ASSUME NEW s \in Contents, NEW p \in Pieces
  PROVE  LET t == Append(IF s = Gone THEN <<>> ELSE s, p) IN
         /\ t \in Seq(Pieces)
         /\ Len(t) = 1 + IF s = Gone THEN 0 ELSE Len(s)
BY DEF Contents

LEMMA SizeIsNat ==
  ASSUME NEW l \in Launches
  PROVE  (Shape => Size(l) \in Nat) /\ (Shape' => Size(l)' \in Nat)
BY DEF Shape, Contents, Size

\* One of the processes appends to the log of a launch.
LEMMA SizeGrows ==
  ASSUME Shape, NEW l \in Launches, NEW p \in Pieces, Append2(l, p)
  PROVE  /\ file' \in [Launches -> Contents]
         /\ Size(l)' <= Size(l) + 1
         /\ \A k \in Launches \ {l} : file'[k] = file[k]
<1> DEFINE t == Append(IF file[l] = Gone THEN <<>> ELSE file[l], p)
<1>1. file[l] \in Contents
  BY DEF Shape
<1>2. t \in Seq(Pieces) /\ Len(t) = 1 + IF file[l] = Gone THEN 0 ELSE Len(file[l])
  BY <1>1, Appended
<1>3. file' = [file EXCEPT ![l] = t]
  BY DEF Append2
<1>4. file'[l] = t /\ \A k \in Launches \ {l} : file'[k] = file[k]
  BY <1>3 DEF Shape
<1>5. file' \in [Launches -> Contents]
  BY <1>2, <1>3 DEF Shape, Contents
<1>6. Size(l)' <= Size(l) + 1
  <2>1. Size(l) = IF file[l] = Gone THEN 0 ELSE Len(file[l])
    BY DEF Size
  <2>2. Size(l)' = IF t = Gone THEN 0 ELSE Len(t)
    BY <1>4 DEF Size
  <2>3. Size(l) \in Nat
    BY SizeIsNat
  <2> HIDE DEF t
  <2> QED BY <1>2, <2>1, <2>2, <2>3
<1> QED BY <1>4, <1>5, <1>6

\* The pieces are pieces.
LEMMA PiecesTyped ==
  /\ {Head1, Verdict, Snapshot, Note} \subseteq Pieces
  /\ \A n \in Nat : Out(n) \in Pieces
BY DEF Pieces

\* What a launch does not touch of another keeps it fitting.
LEMMA OthersFit ==
  ASSUME NEW k \in Launches, Fits(k),
         file'[k] = file[k], trim'[k] = trim[k], linked'[k] = linked[k], alive'[k] = alive[k],
         flag'[k] = flag[k], burst'[k] = burst[k], pc'[k] = pc[k], wd'[k] = wd[k]
  PROVE  Fits(k)'
BY DEF Fits, Early, Once, Bounded, Limit, Recorded, Size, Half
-----------------------------------------------------------------------------
LEMMA InvInit == Init => Inv
<1> SUFFICES ASSUME Init PROVE Inv
  OBVIOUS
<1> USE SizesAssumption, EarlierAssumption, PiecesTyped
<1>1. <<Head1, Verdict, Snapshot>> \in Seq(Pieces) /\ Len(<<Head1, Verdict, Snapshot>>) = 3
  OBVIOUS
<1>2. Shape
  BY <1>1 DEF Init, Shape, Contents, ByLaunch, Wrapper, Watchdog
<1>3. ASSUME NEW l \in Earlier PROVE Fits(l)
  <2>1. file[l] = <<Head1, Verdict, Snapshot>> /\ pc[l] = "end" /\ wd[l] = "gone"
        /\ burst[l] = 0 /\ flag[l]
    BY <1>3 DEF Init, ByLaunch
  <2>2. Size(l) \in 0 .. 3
    BY <1>1, <2>1 DEF Size
  <2> QED BY <2>1, <2>2 DEF Fits, Early, Once, Bounded, Limit, Recorded
<1>4. ASSUME NEW l \in Launches \ Earlier PROVE Fits(l)
  <2>1. file[l] = Gone /\ pc[l] = "new" /\ wd[l] = "off" /\ burst[l] = 0
        /\ ~alive[l] /\ ~linked[l]
    BY <1>4 DEF Init, ByLaunch
  <2>2. Size(l) = 0
    BY <2>1 DEF Size
  <2> QED BY <2>1, <2>2 DEF Fits, Early, Once, Bounded, Limit, Recorded
<1> QED BY <1>2, <1>3, <1>4 DEF Inv

\* A step of one launch is about that launch.
LEMMA OneLaunch ==
  ASSUME Inv, NEW l \in Launches, Shape', Fits(l)',
         \A k \in Launches \ {l} :
            /\ file'[k] = file[k] /\ trim'[k] = trim[k] /\ linked'[k] = linked[k]
            /\ alive'[k] = alive[k] /\ flag'[k] = flag[k] /\ burst'[k] = burst[k]
            /\ pc'[k] = pc[k] /\ wd'[k] = wd[k]
  PROVE  Inv'
<1>1. ASSUME NEW k \in Launches \ {l} PROVE Fits(k)'
  BY <1>1, OthersFit DEF Inv
<1> QED BY <1>1 DEF Inv

\* The launch of a browser, up to its wait.
LEMMA LaunchSteps ==
  ASSUME Inv, NEW l \in Launches,
         Rotate(l) \/ Rotated(l) \/ WriteHeader(l) \/ Start(l) \/ Arm(l)
  PROVE  Inv'
<1> USE SizesAssumption DEF Goto, logs, browser, wrapper, watchdog
<1>0. Fits(l) /\ Size(l) \in Nat /\ burst[l] \in Nat
  BY SizeIsNat DEF Inv, Shape
<1>1. CASE Rotate(l) \/ Rotated(l) \/ Arm(l)
  <2>1. Shape'
    BY <1>1 DEF Inv, Shape, Rotate, Rotated, Arm, Wrapper
  <2>2. Size(l)' = Size(l)
    BY <1>1 DEF Rotate, Rotated, Arm, Size
  <2>3. pc[l] \in {"new", "rotate", "unarmed"} /\ pc'[l] \in {"rotate", "header", "wait"}
        /\ (pc'[l] = "wait" <=> pc[l] = "unarmed")
    BY <1>1 DEF Rotate, Rotated, Arm, Inv, Shape
  <2>4. Fits(l)'
    BY <1>0, <1>1, <2>2, <2>3 DEF Rotate, Rotated, Arm, Fits, Early, Once, Bounded, Limit, Recorded
  <2> QED BY <1>1, <2>1, <2>4, OneLaunch DEF Rotate, Rotated, Arm, Inv, Shape
<1>2. CASE WriteHeader(l)
  <2>1. /\ file' \in [Launches -> Contents] /\ Size(l)' <= Size(l) + 1
        /\ \A k \in Launches \ {l} : file'[k] = file[k]
    BY <1>2, SizeGrows, PiecesTyped DEF WriteHeader, Inv
  <2>2. Shape'
    BY <1>2, <2>1 DEF Inv, Shape, WriteHeader, Wrapper
  <2>3. pc[l] = "header" /\ pc'[l] = "launch"
    BY <1>2 DEF WriteHeader, Inv, Shape
  <2>4. Fits(l)'
    BY <1>0, <1>2, <2>1, <2>2, <2>3, SizeIsNat
       DEF WriteHeader, Fits, Early, Once, Bounded, Limit, Recorded
  <2> QED BY <1>2, <2>1, <2>2, <2>4, OneLaunch DEF WriteHeader, Inv, Shape
<1>3. CASE Start(l)
  <2>1. Shape'
    BY <1>3 DEF Inv, Shape, Start, Wrapper, Watchdog, Contents
  <2>2. pc[l] = "launch" /\ pc'[l] = "unarmed" /\ wd'[l] = "watch" /\ burst'[l] = burst[l]
    BY <1>3 DEF Start, Inv, Shape
  <2>3. Size(l)' = Size(l)
    BY <1>3 DEF Start, Size, Inv, Shape
  <2>4. Fits(l)'
    BY <1>0, <2>2, <2>3 DEF Fits, Early, Once, Bounded, Limit, Recorded
  <2> QED BY <1>3, <2>1, <2>4, OneLaunch DEF Start, Inv, Shape
<1> QED BY <1>1, <1>2, <1>3

\* The rotation of one launch takes the log of another.
LEMMA RemovalStep ==
  ASSUME Inv, NEW l \in Launches, RemoveOld(l)
  PROVE  Inv'
<1>1. PICK old \in doomed[l] : /\ file' = [file EXCEPT ![old] = Gone]
                              /\ linked' = [linked EXCEPT ![old] = FALSE]
  BY DEF RemoveOld
<1>2. Shape'
  BY <1>1 DEF RemoveOld, Inv, Shape, Contents, browser, watchdog
<1>3. ASSUME NEW k \in Launches PROVE Fits(k)'
  <2>1. CASE k = old
    <3>1. Fits(k) /\ burst[k] \in Nat
      BY DEF Inv, Shape
    <3>2. Size(k)' = 0 /\ ~linked'[k]
      BY <1>1, <2>1 DEF Size, Inv, Shape
    <3>3. UNCHANGED <<pc, wd, alive, burst, flag, trim>>
      BY DEF RemoveOld, browser, watchdog
    <3>4. Early(k)'
      BY <3>1, <3>2, <3>3 DEF Fits, Early
    <3>5. Once(k)'
      BY <3>1, <3>3 DEF Fits, Once
    <3>6. Limit(k)' \in Nat
      BY <3>1, <3>3, SizesAssumption, HalfIsLess DEF Limit, Recorded
    <3>7. Bounded(k)'
      BY <3>1, <3>2, <3>3, <3>6 DEF Fits, Bounded
    <3> QED BY <3>4, <3>5, <3>7 DEF Fits
  <2>2. CASE k # old
    BY <1>1, <2>2, OthersFit DEF RemoveOld, browser, watchdog, Inv, Shape
  <2> QED BY <2>1, <2>2
<1> QED BY <1>2, <1>3 DEF Inv

\* The browser writes to the log only through the file it was started with.
LEMMA BrowserSteps ==
  ASSUME Inv, NEW l \in Launches, Write(l) \/ Die(l)
  PROVE  Inv'
<1> USE SizesAssumption DEF logs, wrapper, watchdog
<1>0. Fits(l) /\ Size(l) \in Nat /\ burst[l] \in Nat
  BY SizeIsNat DEF Inv, Shape
<1>1. CASE Write(l)
  <2>1. /\ file' \in [Launches -> Contents]
        /\ Size(l)' <= Size(l) + IF linked[l] THEN 1 ELSE 0
        /\ \A k \in Launches \ {l} : file'[k] = file[k]
    <3>1. CASE linked[l]
      <4>1. Out(written'[l]) \in Pieces
        BY <1>1, PiecesTyped DEF Write, Inv, Shape
      <4>2. Append2(l, Out(written'[l]))
        BY <1>1, <3>1 DEF Write
      <4>3. PICK q : q = Out(written'[l])
        OBVIOUS
      <4>4. Append2(l, q) /\ q \in Pieces
        BY <4>1, <4>2, <4>3
      <4> QED BY <3>1, <4>4, SizeGrows DEF Inv
    <3>2. CASE ~linked[l]
      BY <1>0, <1>1, <3>2 DEF Write, Inv, Shape, Size
    <3> QED BY <3>1, <3>2
  <2>2. /\ alive[l] /\ burst[l] + 1 \in 0 .. Burst
        /\ burst' = [burst EXCEPT ![l] = burst[l] + 1]
        /\ written' = [written EXCEPT ![l] = written[l] + 1]
        /\ UNCHANGED <<trim, linked, alive, flag, pc, wd>>
    BY <1>0, <1>1 DEF Write, Inv, Shape
  <2>3. Shape'
    BY <2>1, <2>2 DEF Inv, Shape
  <2>4. burst'[l] = burst[l] + 1 /\ Size(l)' \in Nat
    BY <2>2, <2>3, SizeIsNat DEF Inv, Shape
  <2>5. Fits(l)'
    BY <1>0, <2>1, <2>2, <2>4, HalfIsLess, SMTT(20) DEF Fits, Early, Once, Bounded, Limit, Recorded, Half
  <2> QED BY <2>1, <2>2, <2>3, <2>5, OneLaunch DEF Inv, Shape
<1>2. CASE Die(l)
  <2>1. Shape'
    BY <1>2 DEF Die, Inv, Shape
  <2>2. Size(l)' = Size(l) /\ ~alive'[l]
    BY <1>2 DEF Die, Size, Inv, Shape
  <2>3. Fits(l)'
    BY <1>0, <1>2, <2>2 DEF Die, Fits, Early, Once, Bounded, Limit, Recorded, Half
  <2> QED BY <1>2, <2>1, <2>3, OneLaunch DEF Die, Inv, Shape
<1> QED BY <1>1, <1>2

\* The watchdog: what it moves over the log is half the cap.
LEMMA WatchSteps ==
  ASSUME Inv, NEW l \in Launches, Watch(l)
  PROVE  Inv'
<1> USE SizesAssumption DEF logs, browser, wrapper
<1>0. Fits(l) /\ Size(l) \in Nat /\ burst[l] \in 0 .. Burst
  BY SizeIsNat DEF Inv, Shape
<1>1. CASE Look(l)
  <2>1. CASE TooBig(l)
    <3> DEFINE last == SubSeq(file[l], Len(file[l]) - Half + 1, Len(file[l]))
    <3>1. file[l] \in Seq(Pieces) /\ Len(file[l]) > Cap
      BY <2>1 DEF TooBig, Size, Inv, Shape, Contents
    <3>2. last \in Seq(Pieces) /\ Len(last) = Half
      <4>1. Len(file[l]) \in Nat /\ 1 <= Len(file[l]) - Half + 1
        BY <3>1, HalfIsLess
      <4> QED BY <3>1, <4>1, HalfIsLess
    <3>3. /\ trim' = [trim EXCEPT ![l] = last] /\ wd' = [wd EXCEPT ![l] = "copied"]
          /\ burst' = [burst EXCEPT ![l] = 0] /\ wd[l] = "watch" /\ alive[l]
          /\ UNCHANGED <<file, linked, alive, flag, written, pc>>
      BY <1>1, <2>1 DEF Look
    <3> HIDE DEF last
    <3>4. Shape'
      BY <3>2, <3>3 DEF Inv, Shape, Contents, Watchdog
    <3>5. /\ trim'[l] = last /\ wd'[l] = "copied" /\ burst'[l] = 0 /\ Size(l)' = Size(l)
      BY <3>3 DEF Inv, Shape, Size
    <3>6. Fits(l)'
      BY <1>0, <3>2, <3>3, <3>5, HalfIsLess
         DEF Fits, Early, Once, Bounded, Limit, Recorded, Half
    <3> QED BY <3>3, <3>4, <3>6, OneLaunch DEF Inv, Shape
  <2>2. CASE ~TooBig(l)
    <3>1. Shape'
      BY <1>1, <2>2 DEF Look, Inv, Shape, Watchdog
    <3>2. /\ wd'[l] = "watch" /\ wd[l] = "watch" /\ burst'[l] = 0
          /\ Size(l)' = Size(l) /\ Size(l) <= Cap
      BY <1>0, <1>1, <2>2 DEF Look, Inv, Shape, Size, TooBig
    <3>3. Fits(l)'
      BY <1>0, <1>1, <3>2 DEF Look, Fits, Early, Once, Bounded, Limit, Recorded
    <3> QED BY <1>1, <2>2, <3>1, <3>3, OneLaunch DEF Look, Inv, Shape
  <2> QED BY <2>1, <2>2
<1>2. CASE StartMove(l) \/ StopWatching(l)
  <2>1. Shape'
    BY <1>2 DEF StartMove, StopWatching, Inv, Shape, Watchdog
  <2>2. /\ wd[l] \in {"copied", "watch"} /\ wd'[l] \in {"moving", "gone"}
        /\ wd'[l] = "moving" => wd[l] = "copied"
        /\ Size(l)' = Size(l)
    BY <1>2 DEF StartMove, StopWatching, Inv, Shape, Size
  <2>3. Fits(l)'
    BY <1>0, <1>2, <2>2, HalfIsLess, SMTT(20)
       DEF StartMove, StopWatching, Fits, Early, Once, Bounded, Limit, Recorded, Half
  <2> QED BY <1>2, <2>1, <2>3, OneLaunch DEF StartMove, StopWatching, Inv, Shape
<1>3. CASE Move(l)
  <2>1. wd[l] \in {"moving", "orphan"} /\ trim[l] \in Seq(Pieces) /\ Len(trim[l]) <= Half
    BY <1>0, <1>3 DEF Move, Fits, Bounded
  <2>2. Shape'
    BY <1>3 DEF Move, Inv, Shape, Watchdog, Contents
  <2>3. /\ wd'[l] \in {"note", "gone"} /\ ~linked'[l] /\ file'[l] = trim[l]
    BY <1>3 DEF Move, Inv, Shape
  <2>4. Size(l)' \in Nat /\ Size(l)' <= Half
    BY <2>1, <2>2, <2>3, SizeIsNat, HalfIsLess DEF Size
  <2>5. Fits(l)'
    BY <1>0, <1>3, <2>1, <2>3, <2>4, HalfIsLess
       DEF Move, Fits, Early, Once, Bounded, Limit, Recorded, Half
  <2> QED BY <1>3, <2>2, <2>5, OneLaunch DEF Move, Inv, Shape
<1>4. CASE WriteNote(l)
  <2>1. /\ file' \in [Launches -> Contents] /\ Size(l)' <= Size(l) + 1
        /\ \A k \in Launches \ {l} : file'[k] = file[k]
    BY <1>4, SizeGrows, PiecesTyped DEF WriteNote, Inv
  <2>2. Shape'
    BY <1>4, <2>1 DEF WriteNote, Inv, Shape, Watchdog
  <2>3. wd[l] = "note" /\ wd'[l] = "watch" /\ Size(l)' \in Nat
    BY <1>4, <2>2, SizeIsNat DEF WriteNote, Inv, Shape
  <2>4. Fits(l)'
    BY <1>0, <1>4, <2>1, <2>3, HalfIsLess
       DEF WriteNote, Fits, Early, Once, Bounded, Limit, Recorded
  <2> QED BY <1>4, <2>1, <2>2, <2>4, OneLaunch DEF WriteNote, Inv, Shape
<1> QED BY <1>1, <1>2, <1>3, <1>4 DEF Watch

\* The end of a launch: the verdict is recorded once.
LEMMA EndSteps ==
  ASSUME Inv, NEW l \in Launches,
         Waited(l) \/ Record(l) \/ WriteCode(l) \/ WriteSnapshot(l) \/ TakeDown(l) \/ Signal(l)
  PROVE  Inv'
<1> USE SizesAssumption DEF logs, browser, watchdog, Goto, KillWatchdog
<1>0. Fits(l) /\ Size(l) \in Nat /\ burst[l] \in 0 .. Burst /\ wd[l] \in Watchdog
  BY SizeIsNat DEF Inv, Shape
<1>1. CASE Waited(l) \/ TakeDown(l)
  <2>1. Shape'
    BY <1>1 DEF Waited, TakeDown, Inv, Shape, Watchdog, Wrapper
  <2>2. /\ pc[l] \in {"wait", "kill"} /\ pc'[l] = IF pc[l] = "wait" THEN "record" ELSE "end"
        /\ wd'[l] = IF wd[l] \in {"moving", "orphan"} THEN "orphan" ELSE "gone"
        /\ Size(l)' = Size(l)
        /\ UNCHANGED <<file, trim, linked, alive, flag, burst>>
    BY <1>1 DEF Waited, TakeDown, Inv, Shape, Size
  <2>3. Fits(l)'
    BY <1>0, <2>2, HalfIsLess DEF Fits, Early, Once, Bounded, Limit, Recorded, Half
  <2> QED BY <1>1, <2>1, <2>2, <2>3, OneLaunch DEF Waited, TakeDown, Inv, Shape
<1>2. CASE Record(l)
  <2>1. Shape'
    BY <1>2 DEF Record, Inv, Shape, Wrapper
  <2>2. pc[l] = "record" /\ pc'[l] = "code" /\ flag'[l] /\ Size(l)' = Size(l)
    BY <1>2 DEF Record, Inv, Shape, Size
  <2>3. Fits(l)'
    BY <1>0, <1>2, <2>2 DEF Record, Fits, Early, Once, Bounded, Limit, Recorded, Half
  <2> QED BY <1>2, <2>1, <2>3, OneLaunch DEF Record, Inv, Shape
<1>3. CASE WriteCode(l) \/ WriteSnapshot(l)
  <2>1. /\ file' \in [Launches -> Contents] /\ Size(l)' <= Size(l) + 1
        /\ \A k \in Launches \ {l} : file'[k] = file[k]
    BY <1>3, SizeGrows, PiecesTyped DEF WriteCode, WriteSnapshot, Inv
  <2>2. Shape'
    BY <1>3, <2>1 DEF WriteCode, WriteSnapshot, Inv, Shape, Wrapper
  <2>3. /\ pc[l] \in {"code", "snapshot"}
        /\ pc'[l] = IF pc[l] = "code" THEN "snapshot" ELSE "kill"
        /\ UNCHANGED <<trim, linked, alive, flag, burst, wd>> /\ Size(l)' \in Nat
    BY <1>3, <2>2, SizeIsNat DEF WriteCode, WriteSnapshot, Inv, Shape
  <2>4. Early(l)' /\ Once(l)'
    BY <1>0, <2>3 DEF Fits, Early, Once
  <2>5. Recorded(l)' = Recorded(l) + 1 /\ Recorded(l) \in 0 .. 1
    BY <2>3 DEF Recorded
  <2>6. Limit(l)' = Limit(l) + 1 /\ Limit(l) \in Nat
    BY <1>0, <2>3, <2>5, HalfIsLess DEF Limit, Half
  <2>7. Bounded(l)'
    BY <1>0, <2>1, <2>3, <2>6 DEF Fits, Bounded, Half
  <2>8. Fits(l)'
    BY <2>4, <2>7 DEF Fits
  <2> QED BY <1>3, <2>1, <2>2, <2>3, <2>8, OneLaunch DEF WriteCode, WriteSnapshot, Inv, Shape
<1>4. CASE Signal(l)
  <2>1. Shape'
    BY <1>4 DEF Signal, Inv, Shape, Wrapper
  <2>2. /\ pc'[l] = IF pc[l] \in {"rotate", "header", "launch", "unarmed"} THEN "end"
                    ELSE IF flag[l] THEN "kill" ELSE "record"
        /\ pc[l] \notin {"new", "end"} /\ Size(l)' = Size(l)
        /\ UNCHANGED <<file, trim, linked, alive, flag, burst, wd>>
    BY <1>4 DEF Signal, Inv, Shape, Size
  <2>3. Fits(l)'
    BY <1>0, <2>2, HalfIsLess DEF Fits, Early, Once, Bounded, Limit, Recorded, Half
  <2> QED BY <1>4, <2>1, <2>2, <2>3, OneLaunch DEF Signal, Inv, Shape
<1> QED BY <1>1, <1>2, <1>3, <1>4

-----------------------------------------------------------------------------
\* For every number of launches, every cap and every burst: the file that has
\* the name of a log stays within the cap but for two bursts and the verdict,
\* whatever trap, trim, rotation or later launch comes between.
THEOREM LogsStayBounded == Spec => []NamedFileBounded
<1>1. Init => Inv
  BY InvInit
<1>2. Inv /\ [Next]_vars => Inv'
  <2> SUFFICES ASSUME Inv, [Next]_vars PROVE Inv'
    OBVIOUS
  <2>1. CASE UNCHANGED vars
    BY <2>1, OthersFit DEF vars, logs, browser, wrapper, watchdog, Inv, Shape
  <2>2. ASSUME NEW l \in Launches, Run(l) \/ Watch(l) \/ Write(l) \/ Die(l) \/ Signal(l)
        PROVE  Inv'
    BY <2>2, LaunchSteps, RemovalStep, BrowserSteps, WatchSteps, EndSteps DEF Run
  <2> QED BY <2>1, <2>2 DEF Next
<1>3. Inv => NamedFileBounded
  <2> SUFFICES ASSUME Inv, NEW l \in Launches PROVE Size(l) <= Cap + 2 * Burst + 2
    BY DEF NamedFileBounded
  <2>1. Size(l) \in Nat /\ burst[l] \in 0 .. Burst /\ Bounded(l)
    BY SizeIsNat DEF Inv, Shape, Fits
  <2> QED BY <2>1, SizesAssumption, HalfIsLess DEF Bounded, Limit, Recorded
<1> QED BY <1>1, <1>2, <1>3, PTL DEF Spec
=============================================================================
