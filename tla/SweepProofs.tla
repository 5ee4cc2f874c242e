---------------------------- MODULE SweepProofs -----------------------------
(***************************************************************************)
(* Theorems about Sweep, for any home directory, any number of sweeps that *)
(* overlap each other, an undo and the user, and any number of kills; and  *)
(* about HomeCheck, in which checks run beside them.                       *)
(***************************************************************************)
EXTENDS HomeCheck, FiniteSetTheorems, WellFoundedInduction, TLAPS

Entries == [name : Names, link : BOOLEAN, ripe : BOOLEAN]
Runs == [pc : {"idle", "loop", "rmdir", "rename"}, todo : Seq(Entries),
         dst : Slots \cup {NoSlot}, moves : Seq(Records), batch : Nat,
         expired : {"no", "yes"}]

HomeTyped == root \in [Names -> Things] /\ inbox \in [Slots -> Things]
NatureTyped ==
  /\ unborn \subseteq Items /\ aged \subseteq Items /\ newer \subseteq Items
  /\ hollow \subseteq Dirs /\ stuck \subseteq Sticky
  /\ expired \in {"no", "yes"} /\ lock \in {"absent", "present"}
PastTyped == crashes \in 0..MaxCrashes /\ adrift \subseteq Slots

\* A run that removes or renames is at an entry, and knows where to.
SweepTyped ==
  /\ sweep \in [Sweepers -> Runs]
  /\ \A p \in Sweepers : sweep[p].pc \in {"rmdir", "rename"} => sweep[p].todo # <<>>
  /\ \A p \in Sweepers : sweep[p].pc = "rename" => sweep[p].dst \in Slots

\* An undo that renames is at a record with a destination.
UndoTyped ==
  /\ undo \in [pc : {"idle", "loop", "rename", "write"}, which : {undo.which},
               read : Seq(Records), left : Seq(ToSet(undo.read)),
               undone : SUBSET ToSet(undo.read)]
  /\ undo.pc = "rename" => undo.left # <<>> /\ Head(undo.left).dst \in Slots

JournalTyped == journal \in Seq(Records)

Typed == HomeTyped /\ NatureTyped /\ PastTyped /\ JournalTyped /\ SweepTyped /\ UndoTyped

-----------------------------------------------------------------------------
(***************************************************************************)
(* Sequences in order.                                                     *)
(***************************************************************************)

\* What is picked from a sequence is a sequence of its elements.
LEMMA InOrderTyped ==
  ASSUME NEW T, NEW seq \in Seq(T), NEW S \in SUBSET DOMAIN seq,
         NEW s \in InOrder(seq, S)
  PROVE  s \in Seq(ToSet(seq)) /\ s \in Seq(T)
<1>1. IsFiniteSet(S)
  <2>1. DOMAIN seq = 1..Len(seq) /\ Len(seq) \in Nat
    OBVIOUS
  <2>2. IsFiniteSet(1..Len(seq))
    BY <2>1, FS_Interval
  <2>3. S \in SUBSET (1..Len(seq))
    BY <2>1
  <2> QED BY <2>2, <2>3, FS_Subset
<1>2. Cardinality(S) \in Nat
  BY <1>1, FS_CardinalityType
<1>3. PICK f \in [1..Cardinality(S) -> S] : s = [k \in DOMAIN f |-> seq[f[k]]]
  BY DEF InOrder
<1>4. s = [k \in 1..Cardinality(S) |-> seq[f[k]]]
  BY <1>3
<1>5. \A k \in 1..Cardinality(S) : seq[f[k]] \in ToSet(seq) /\ seq[f[k]] \in T
  BY <1>3 DEF ToSet
<1>6. ASSUME NEW V, \A k \in 1..Cardinality(S) : seq[f[k]] \in V
      PROVE  s \in Seq(V)
  <2>1. [k \in 1..Cardinality(S) |-> seq[f[k]]] \in [1..Cardinality(S) -> V]
    BY <1>6, Zenon
  <2>2. s \in [1..Cardinality(S) -> V]
    BY <2>1, <1>4, Zenon
  <2> QED BY <2>2, <1>2
<1>7. s \in Seq(ToSet(seq))
  BY <1>5, <1>6, Zenon
<1>8. s \in Seq(T)
  BY <1>5, <1>6, Zenon
<1> QED BY <1>7, <1>8, Zenon

LEMMA ReverseTyped ==
  ASSUME NEW T, NEW seq \in Seq(T)
  PROVE  Reverse(seq) \in Seq(T)
BY DEF Reverse

\* A nonempty set of natural numbers has a least element.
LEMMA Least ==
  ASSUME NEW S \in SUBSET Nat, S # {}
  PROVE  \E k \in S : \A j \in S : k <= j
<1> DEFINE R == OpToRel(<, Nat)
<1>1. IsWellFoundedOn(R, Nat)
  BY NatLessThanWellFounded
<1> HIDE DEF R
<1>2. \E k \in S : \A j \in S : ~ (<<j, k>> \in R)
  BY <1>1, WFMin
<1>3. PICK k \in S : \A j \in S : ~ (<<j, k>> \in R)
  BY <1>2
<1>4. \A j \in S : j < k => <<j, k>> \in R
  BY DEF OpToRel, R
<1>5. \A j \in S : ~ (j < k)
  BY <1>3, <1>4
<1>6. k \in Nat /\ \A j \in S : j \in Nat
  OBVIOUS
<1> QED BY <1>5, <1>6

\* The name that is found for an entry is free, and is a place in the inbox.
LEMMA DestinationTyped ==
  ASSUME NEW n \in Names, Free(n) # {}
  PROVE  UniqueDestination(n) \in Slots /\ inbox[UniqueDestination(n)] = Nothing
<1>1. Free(n) \in SUBSET Nat
  BY SweepConstants DEF Free
<1>2. \E k \in Free(n) : \A j \in Free(n) : k <= j
  BY <1>1, Least
<1> DEFINE k == CHOOSE k \in Free(n) : \A j \in Free(n) : k <= j
<1>3. k \in Free(n)
  BY <1>2
<1>4. k \in 0..MaxSuffix /\ inbox[<<n, k>>] = Nothing
  BY <1>3 DEF Free
<1>5. UniqueDestination(n) = <<n, k>>
  BY DEF UniqueDestination
<1> HIDE DEF k
<1> QED BY <1>4, <1>5 DEF Slots

-----------------------------------------------------------------------------
(***************************************************************************)
(* Types.                                                                  *)
(***************************************************************************)

LEMMA InitTyped == Init => Typed
<1> SUFFICES ASSUME Init PROVE Typed
  OBVIOUS
<1> USE SweepConstants DEF Init
<1>1. HomeTyped
  BY DEF HomeTyped, Things
<1>2. NatureTyped /\ PastTyped
  BY DEF NatureTyped, PastTyped
<1>3. JournalTyped
  BY DEF JournalTyped
<1>4. SweepTyped
  BY DEF SweepTyped, NoSweep, Runs
<1>5. UndoTyped
  BY DEF UndoTyped, NoUndo
<1> QED BY <1>1, <1>2, <1>3, <1>4, <1>5 DEF Typed

\* The entry whose turn it is has a name, and what is there is a thing.
LEMMA ListedTyped ==
  ASSUME Typed, NEW p \in Sweepers, sweep[p].todo # <<>>
  PROVE  /\ Listed(p) \in Entries /\ Listed(p).name \in Names /\ Here(p) \in Things
         /\ Tail(sweep[p].todo) \in Seq(Entries)
<1>1. sweep[p].todo \in Seq(Entries)
  BY DEF Typed, SweepTyped, Runs
<1>2. Listed(p) \in Entries /\ Tail(sweep[p].todo) \in Seq(Entries)
  BY <1>1 DEF Listed
<1>3. Listed(p).name \in Names
  BY <1>2 DEF Entries
<1> QED BY <1>2, <1>3 DEF Typed, HomeTyped, Here

\* Going on to the next entry keeps the memory of a run typed.
LEMMA AdvanceTyped ==
  ASSUME Typed, NEW p \in Sweepers, sweep[p].todo # <<>>,
         NEW m \in Seq(Records), sweep' = Advance(p, m)
  PROVE  SweepTyped'
<1>1. Tail(sweep[p].todo) \in Seq(Entries)
  BY ListedTyped
<1>2. sweep' \in [Sweepers -> Runs]
  BY <1>1 DEF Advance, Typed, SweepTyped, Runs
<1>3. sweep'[p].pc = "loop" /\ \A q \in Sweepers \ {p} : sweep'[q] = sweep[q]
  BY DEF Advance, Typed, SweepTyped, Runs
<1> QED BY <1>2, <1>3 DEF SweepTyped, Typed

\* So does a run that ends or is killed.
LEMMA EndTyped ==
  ASSUME Typed, NEW p \in Sweepers, sweep' = [sweep EXCEPT ![p] = NoSweep]
  PROVE  SweepTyped'
<1>1. NoSweep \in Runs /\ NoSweep.pc = "idle"
  BY DEF NoSweep, Runs
<1>2. sweep' \in [Sweepers -> Runs]
  BY <1>1 DEF Typed, SweepTyped
<1>3. sweep'[p].pc = "idle" /\ \A q \in Sweepers \ {p} : sweep'[q] = sweep[q]
  BY <1>1 DEF Typed, SweepTyped
<1> QED BY <1>2, <1>3 DEF SweepTyped, Typed

\* What a step leaves alone stays typed.
LEMMA Frame ==
  ASSUME Typed
  PROVE  /\ UNCHANGED home => HomeTyped'
         /\ UNCHANGED nature => NatureTyped'
         /\ UNCHANGED past => PastTyped'
         /\ UNCHANGED journal => JournalTyped'
         /\ UNCHANGED sweep => SweepTyped'
         /\ UNCHANGED undo => UndoTyped'
<1>1. UNCHANGED home => HomeTyped'
  BY DEF Typed, HomeTyped, home
<1>2. UNCHANGED nature => NatureTyped'
  BY DEF Typed, NatureTyped, nature
<1>6. UNCHANGED past => PastTyped'
  BY DEF Typed, PastTyped, past
<1>3. UNCHANGED journal => JournalTyped'
  BY DEF Typed, JournalTyped
<1>4. UNCHANGED sweep => SweepTyped'
  BY DEF Typed, SweepTyped
<1>5. UNCHANGED undo => UndoTyped'
  BY DEF Typed, UndoTyped
<1> QED BY <1>1, <1>2, <1>3, <1>4, <1>5, <1>6

LEMMA AbortTyped ==
  ASSUME Typed, NEW p \in Sweepers, Abort(p)
  PROVE  Typed'
<1>1. SweepTyped'
  BY EndTyped DEF Abort
<1>2. PastTyped'
  BY DEF Abort, FiledTo, Typed, PastTyped
<1> QED BY <1>1, <1>2, Frame DEF Typed, Abort

LEMMA StartTyped ==
  ASSUME Typed, NEW p \in Sweepers, Start(p)
  PROVE  Typed'
<1>1. PICK todo \in RootEntries, batch \in FreshBatch :
        sweep' = [sweep EXCEPT ![p] = [pc |-> "loop", todo |-> todo, dst |-> NoSlot,
                    moves |-> <<>>, batch |-> batch, expired |-> expired]]
  BY DEF Start
<1>2. PICK names \in InOrder(NameOrder, {i \in DOMAIN NameOrder : root[NameOrder[i]] # Nothing}) :
        todo = [k \in DOMAIN names |-> Entry(names[k])]
  BY DEF RootEntries
<1>3. names \in Seq(Names)
  BY SweepConstants, InOrderTyped
<1>4. \A n \in Names : Entry(n) \in Entries
  BY DEF Entry, Entries
<1>5. todo \in Seq(Entries)
  BY <1>2, <1>3, <1>4
<1>6. batch \in Nat
  BY DEF FreshBatch
<1> DEFINE new == [pc |-> "loop", todo |-> todo, dst |-> NoSlot,
                   moves |-> <<>>, batch |-> batch, expired |-> expired]
<1>7. new \in Runs
  BY <1>5, <1>6 DEF Runs, Typed, NatureTyped
<1>8. new.pc = "loop"
  OBVIOUS
<1>9. sweep' = [sweep EXCEPT ![p] = new]
  BY <1>1
<1> HIDE DEF new
<1>10. SweepTyped'
  BY <1>7, <1>8, <1>9 DEF Typed, SweepTyped
<1>11. UNCHANGED <<home, nature, journal, undo, past>>
  BY DEF Start
<1> QED BY <1>10, <1>11, Frame DEF Typed

\* A step of a sweep.
LEMMA SweepStepTyped ==
  ASSUME Typed, NEW p \in Sweepers, SweepStep(p)
  PROVE  Typed'
<1>m. sweep[p].moves \in Seq(Records) /\ sweep[p].batch \in Nat /\ sweep[p].todo \in Seq(Entries)
  BY DEF Typed, SweepTyped, Runs
<1>n. Nothing \in Things
  BY DEF Things
<1>1. CASE Skip(p)
  <2>1. SweepTyped'
    BY <1>1, <1>m, AdvanceTyped DEF Skip, InLoop
  <2> QED BY <1>1, <2>1, Frame DEF Typed, Skip
<1>2. CASE Choose(p) /\ Vanished(p)
  BY <1>2, AbortTyped DEF Choose
<1>3. CASE UnlinkBridge(p)
  <2>1. CASE Abort(p)
    BY <2>1, AbortTyped
  <2>2. CASE ~Abort(p)
    <3>1. /\ root' = [root EXCEPT ![Listed(p).name] = Nothing]
          /\ sweep' = Advance(p, sweep[p].moves)
          /\ UNCHANGED <<inbox, nature, journal, undo, past>>
      BY <1>3, <2>2 DEF UnlinkBridge
    <3>2. SweepTyped'
      BY <1>3, <3>1, <1>m, AdvanceTyped DEF UnlinkBridge, InLoop
    <3>3. HomeTyped'
      BY <3>1, <1>n DEF Typed, HomeTyped
    <3> QED BY <3>1, <3>2, <3>3, Frame DEF Typed
  <2> QED BY <2>1, <2>2
<1>4. CASE FindSkeleton(p)
  <2>1. SweepTyped'
    BY <1>4 DEF FindSkeleton, InLoop, Typed, SweepTyped, Runs
  <2> QED BY <1>4, <2>1, Frame DEF Typed, FindSkeleton
<1>5. CASE RemoveSkeleton(p)
  <2>1. sweep[p].todo # <<>>
    BY <1>5 DEF RemoveSkeleton, Typed, SweepTyped
  <2> DEFINE r == [src |-> Listed(p).name, dst |-> NoSlot, batch |-> sweep[p].batch]
  <2>2. Append(sweep[p].moves, r) \in Seq(Records)
    <3>1. r \in Records
      BY <2>1, <1>m, ListedTyped DEF Records
    <3> QED BY <3>1, <1>m
  <2>3. SweepTyped' /\ (root' = [root EXCEPT ![Listed(p).name] = Nothing] \/ root' = root)
    BY <1>5, <2>1, <2>2, <1>m, AdvanceTyped DEF RemoveSkeleton
  <2>4. HomeTyped'
    BY <1>5, <2>3, <1>n DEF RemoveSkeleton, Typed, HomeTyped
  <2> QED BY <1>5, <2>3, <2>4, Frame DEF Typed, RemoveSkeleton
<1>6. CASE Choose(p) /\ ~Vanished(p)
  <2>1. UniqueDestination(Listed(p).name) \in Slots
    BY <1>6, ListedTyped, DestinationTyped DEF Choose, InLoop
  <2>2. /\ sweep' = [sweep EXCEPT ![p].pc = "rename",
                                  ![p].dst = UniqueDestination(Listed(p).name)]
        /\ InLoop(p) /\ UNCHANGED <<home, nature, journal, undo, past>>
    BY <1>6 DEF Choose
  <2> DEFINE r == [sweep[p] EXCEPT !.pc = "rename", !.dst = UniqueDestination(Listed(p).name)]
  <2>r. sweep \in [Sweepers -> Runs] /\ sweep[p] \in Runs /\ sweep[p].todo # <<>>
    BY <2>2 DEF InLoop, Typed, SweepTyped
  <2>s. r \in Runs /\ r.pc = "rename" /\ r.todo # <<>> /\ r.dst \in Slots
    BY <2>1, <2>r DEF Runs
  <2>t. sweep' = [sweep EXCEPT ![p] = r]
    BY <2>2, <2>r
  <2> HIDE DEF r
  <2>3. SweepTyped'
    BY <2>r, <2>s, <2>t DEF Typed, SweepTyped
  <2> QED BY <2>2, <2>3, Frame DEF Typed
<1>7. CASE File(p)
  <2>1. sweep[p].todo # <<>> /\ sweep[p].dst \in Slots
    BY <1>7 DEF File, Typed, SweepTyped
  <2> DEFINE r == [src |-> Listed(p).name, dst |-> sweep[p].dst, batch |-> sweep[p].batch]
  <2>2. Append(sweep[p].moves, r) \in Seq(Records)
    <3>1. r \in Records
      BY <2>1, <1>m, ListedTyped DEF Records
    <3> QED BY <3>1, <1>m
  <2>3. CASE Abort(p)
    BY <2>3, AbortTyped
  <2>4. CASE ~Abort(p)
    <3>1. /\ inbox' = [inbox EXCEPT ![sweep[p].dst] = root[Listed(p).name]]
          /\ root' = [root EXCEPT ![Listed(p).name] = Nothing]
          /\ sweep' = Advance(p, Append(sweep[p].moves, r))
          /\ UNCHANGED <<nature, journal, undo, past>>
      BY <1>7, <2>4 DEF File
    <3>2. SweepTyped'
      BY <2>1, <2>2, <3>1, AdvanceTyped
    <3>3. root[Listed(p).name] \in Things
      BY <2>1, ListedTyped DEF Here
    <3>4. HomeTyped'
      BY <3>1, <3>3, <1>n DEF Typed, HomeTyped
    <3> QED BY <3>1, <3>2, <3>4, Frame DEF Typed
  <2> QED BY <2>3, <2>4
<1>8. CASE Finish(p)
  <2>1. SweepTyped'
    BY <1>8, EndTyped DEF Finish
  <2>2. JournalTyped'
    BY <1>8, <1>m DEF Finish, Typed, JournalTyped
  <2> QED BY <1>8, <2>1, <2>2, Frame DEF Typed, Finish
<1> QED BY <1>1, <1>2, <1>3, <1>4, <1>5, <1>6, <1>7, <1>8 DEF SweepStep

\* What is said of an undo when it starts: its records are those of the journal.
LEMMA UndoStartTyped ==
  ASSUME Typed, NEW B, UndoStart(B)
  PROVE  Typed'
<1> DEFINE S == {i \in DOMAIN journal : journal[i].batch \in B}
<1>1. PICK moves \in Selected(B) :
        undo' = [pc |-> "loop", which |-> Which(B), read |-> journal, left |-> Reverse(moves),
                 undone |-> {}]
  BY DEF UndoStart
<1>2. moves \in InOrder(journal, S) /\ S \in SUBSET DOMAIN journal
  BY <1>1 DEF Selected
<1>3. journal \in Seq(Records)
  BY DEF Typed, JournalTyped
<1> HIDE DEF S
<1>4. moves \in Seq(ToSet(journal))
  BY <1>2, <1>3, InOrderTyped
<1>5. Reverse(moves) \in Seq(ToSet(journal))
  BY <1>4, ReverseTyped
<1>6. UndoTyped'
  BY <1>1, <1>3, <1>5 DEF UndoTyped
<1> QED BY <1>6, Frame DEF Typed, UndoStart

\* A step of an undo.
LEMMA UndoStepTyped ==
  ASSUME Typed, UndoStep
  PROVE  Typed'
<1>t. /\ undo.read \in Seq(Records) /\ undo.left \in Seq(ToSet(undo.read))
      /\ undo.undone \subseteq ToSet(undo.read)
  BY DEF Typed, UndoTyped
<1>r. \A r \in ToSet(undo.read) : r \in Records
  BY <1>t DEF ToSet
<1>h. undo.left # <<>> =>
        Undoing \in ToSet(undo.read) /\ Undoing \in Records /\ Tail(undo.left) \in Seq(ToSet(undo.read))
  <2> SUFFICES ASSUME undo.left # <<>>
               PROVE  /\ Undoing \in ToSet(undo.read) /\ Undoing \in Records
                      /\ Tail(undo.left) \in Seq(ToSet(undo.read))
    OBVIOUS
  <2> DEFINE T == ToSet(undo.read)
  <2>1. undo.left \in Seq(T)
    BY <1>t
  <2> HIDE DEF T
  <2>2. Head(undo.left) \in T /\ Tail(undo.left) \in Seq(T)
    BY <2>1
  <2> QED BY <2>2, <1>r DEF Undoing, T
<1>1. CASE UndoSkip
  <2>1. UndoTyped'
    BY <1>1, <1>h DEF UndoSkip, Typed, UndoTyped
  <2> QED BY <1>1, <2>1, Frame DEF Typed, UndoSkip
<1>2. CASE UndoChoose
  <2>1. Undoing.dst \in Slots
    BY <1>2, <1>h DEF UndoChoose, Restorable, Records
  <2>2. UndoTyped'
    BY <1>2, <2>1 DEF UndoChoose, Undoing, Typed, UndoTyped
  <2> QED BY <1>2, <2>2, Frame DEF Typed, UndoChoose
<1>3. CASE Restore
  <2>1. undo.left # <<>> /\ Undoing.dst \in Slots
    BY <1>3 DEF Restore, Undoing, Typed, UndoTyped
  <2>2. CASE UndoAbort
    <3>1. UndoTyped'
      BY <2>2 DEF UndoAbort, UndoTyped, NoUndo
    <3> QED BY <2>2, <3>1, Frame DEF Typed, UndoAbort
  <2>3. CASE ~UndoAbort
    <3>1. /\ root' = [root EXCEPT ![Undoing.src] = inbox[Undoing.dst]]
          /\ inbox' = [inbox EXCEPT ![Undoing.dst] = Nothing]
          /\ undo' = [undo EXCEPT !.pc = "loop", !.left = Tail(@), !.undone = @ \cup {Undoing}]
          /\ adrift' = adrift \ {Undoing.dst}
          /\ UNCHANGED <<nature, journal, sweep, crashes>>
      BY <1>3, <2>3 DEF Restore
    <3>2. UndoTyped'
      BY <2>1, <3>1, <1>h DEF Typed, UndoTyped
    <3>3. HomeTyped'
      BY <2>1, <3>1 DEF Typed, HomeTyped, Things
    <3>4. PastTyped'
      BY <3>1 DEF Typed, PastTyped
    <3> QED BY <3>1, <3>2, <3>3, <3>4, Frame DEF Typed
  <2> QED BY <2>2, <2>3
<1>4. CASE Truncate
  <2>1. UndoTyped'
    BY <1>4 DEF Truncate, Typed, UndoTyped
  <2>2. JournalTyped'
    BY <1>4 DEF Truncate, JournalTyped
  <2> QED BY <1>4, <2>1, <2>2, Frame DEF Typed, Truncate
<1>5. CASE WriteBack
  <2> DEFINE S == {i \in DOMAIN undo.read : undo.read[i] \notin undo.undone}
  <2>1. journal' \in InOrder(undo.read, S) /\ S \in SUBSET DOMAIN undo.read
    BY <1>5 DEF WriteBack
  <2> HIDE DEF S
  <2>2. JournalTyped'
    BY <1>t, <2>1, InOrderTyped DEF JournalTyped
  <2>3. UndoTyped'
    BY <1>5 DEF WriteBack, UndoTyped, NoUndo
  <2> QED BY <1>5, <2>2, <2>3, Frame DEF Typed, WriteBack
<1> QED BY <1>1, <1>2, <1>3, <1>4, <1>5 DEF UndoStep

LEMMA CrashTyped ==
  ASSUME Typed, Crash
  PROVE  Typed'
<1>1. NoSweep \in Runs /\ NoSweep.pc = "idle"
  BY DEF NoSweep, Runs
<1>2. SweepTyped'
  BY <1>1 DEF Crash, SweepTyped
<1>3. UndoTyped'
  BY DEF Crash, UndoTyped, NoUndo
<1>4. PastTyped'
  BY SweepConstants DEF Crash, FiledTo, Typed, PastTyped
<1> QED BY <1>2, <1>3, <1>4, Frame DEF Typed, Crash

\* The user, time and migrations change the home and its nature only.
LEMMA UserTyped ==
  ASSUME Typed, User
  PROVE  Typed' /\ UNCHANGED <<sweep, undo, journal>>
<1> USE SweepConstants DEF Typed, HomeTyped, NatureTyped, Things
<1>1. ASSUME NEW i \in Items, Create(i) PROVE Typed' /\ UNCHANGED <<sweep, undo, journal>>
  <2>1. Origin[i] \in Names
    OBVIOUS
  <2>2. HomeTyped' /\ NatureTyped'
    BY <1>1, <2>1 DEF Create
  <2> QED BY <1>1, <2>2, Frame DEF Create
<1>2. ASSUME NEW i \in Items, Age(i) PROVE Typed' /\ UNCHANGED <<sweep, undo, journal>>
  BY <1>2, Frame DEF Age
<1>3. ASSUME NEW i \in Items, Fill(i) PROVE Typed' /\ UNCHANGED <<sweep, undo, journal>>
  BY <1>3, Frame DEF Fill
<1>4. ASSUME NEW i \in Items, Reconcile(i) PROVE Typed' /\ UNCHANGED <<sweep, undo, journal>>
  BY <1>4, Frame DEF Reconcile
<1>5. ASSUME NEW n \in Names, Discard(n) PROVE Typed' /\ UNCHANGED <<sweep, undo, journal>>
  <2>1. HomeTyped'
    BY <1>5 DEF Discard
  <2> QED BY <1>5, <2>1, Frame DEF Discard
<1>6. ASSUME NEW s \in Slots, Triage(s) PROVE Typed' /\ UNCHANGED <<sweep, undo, journal>>
  <2>1. HomeTyped'
    BY <1>6 DEF Triage
  <2>2. PastTyped'
    BY <1>6 DEF Triage, PastTyped
  <2> QED BY <1>6, <2>1, <2>2, Frame DEF Triage
<1>9. ASSUME NEW i \in Items, Pin(i) PROVE Typed' /\ UNCHANGED <<sweep, undo, journal>>
  BY <1>9, Frame DEF Pin
<1>7. CASE Expire
  BY <1>7, Frame DEF Expire
<1>8. CASE Migration
  BY <1>8, Frame DEF Migration
<1> QED BY <1>1, <1>2, <1>3, <1>4, <1>5, <1>6, <1>7, <1>8, <1>9 DEF User

LEMMA NextTyped == Typed /\ [Next]_vars => Typed'
<1> SUFFICES ASSUME Typed, [Next]_vars PROVE Typed'
  OBVIOUS
<1>1. ASSUME NEW p \in Sweepers, Start(p) PROVE Typed'
  BY <1>1, StartTyped
<1>2. ASSUME NEW p \in Sweepers, SweepStep(p) PROVE Typed'
  BY <1>2, SweepStepTyped
<1>3. ASSUME NEW B, UndoStart(B) PROVE Typed'
  BY <1>3, UndoStartTyped
<1>4. CASE UndoStep
  BY <1>4, UndoStepTyped
<1>5. CASE Crash
  BY <1>5, CrashTyped
<1>6. CASE User
  BY <1>6, UserTyped
<1>7. CASE UNCHANGED vars
  BY <1>7, Frame DEF vars, Typed
<1> QED BY <1>1, <1>2, <1>3, <1>4, <1>5, <1>6, <1>7 DEF Next, Unkilled

LEMMA TypedGivesTypeOK == Typed => TypeOK
<1> SUFFICES ASSUME Typed PROVE TypeOK
  OBVIOUS
<1>1. \A T : \A s \in Seq(T) : ToSet(s) \subseteq T
  BY DEF ToSet
<1>2. ToSet(journal) \subseteq Records
  BY <1>1 DEF Typed, JournalTyped
<1>3. \A p \in Sweepers : ToSet(sweep[p].moves) \subseteq Records
  BY <1>1 DEF Typed, SweepTyped, Runs
<1>4. \A p \in Sweepers : /\ sweep[p].pc \in {"idle", "loop", "rmdir", "rename"}
                          /\ sweep[p].pc \in {"rmdir", "rename"} => sweep[p].todo # <<>>
  BY DEF Typed, SweepTyped, Runs
<1>5. /\ undo.pc \in {"idle", "loop", "rename", "write"}
      /\ undo.undone \subseteq ToSet(undo.read) /\ ToSet(undo.read) \subseteq Records
  BY <1>1 DEF Typed, UndoTyped
<1> QED BY <1>2, <1>3, <1>4, <1>5 DEF TypeOK, Typed, HomeTyped, NatureTyped, PastTyped

LEMMA AlwaysTyped == Spec => []Typed
BY InitTyped, NextTyped, PTL DEF Spec

\* Every variable keeps its type, whatever overlaps and is killed.
THEOREM TypeCorrect == Spec => []TypeOK
BY AlwaysTyped, TypedGivesTypeOK, PTL

-----------------------------------------------------------------------------
(***************************************************************************)
(* Directories.                                                            *)
(***************************************************************************)

\* What is nowhere else is still there when the home directory does not change.
LEMMA PresentFrame ==
  ASSUME NEW i, UNCHANGED home, Present(i)
  PROVE  Present(i)'
BY DEF Present, home

\* Taking a name from the root loses only what had it.
LEMMA PresentRemoved ==
  ASSUME Typed, NEW i \in Items, NEW n \in Names, root[n] # i,
         root' = [root EXCEPT ![n] = Nothing], UNCHANGED inbox, Present(i)
  PROVE  Present(i)'
BY DEF Present, Typed, HomeTyped

\* A rename from the root to the inbox that the system lets through loses no directory.
LEMMA PresentFiled ==
  ASSUME Typed, NEW i \in Dirs, NEW n \in Names, NEW d \in Slots,
         Renames(root[n], inbox[d]), Present(i),
         inbox' = [inbox EXCEPT ![d] = root[n]], root' = [root EXCEPT ![n] = Nothing]
  PROVE  Present(i)'
<1>1. inbox[d] # i
  BY SweepConstants DEF Renames
<1>2. CASE root[n] = i
  <2>1. inbox'[d] = i
    BY <1>2 DEF Typed, HomeTyped
  <2> QED BY <2>1 DEF Present
<1>3. ASSUME root[n] # i, NEW m \in Names, root[m] = i PROVE Present(i)'
  <2>1. root'[m] = i
    BY <1>3 DEF Typed, HomeTyped
  <2> QED BY <2>1 DEF Present
<1>4. ASSUME NEW s \in Slots, inbox[s] = i PROVE Present(i)'
  <2>1. inbox'[s] = i
    BY <1>1, <1>4 DEF Typed, HomeTyped
  <2> QED BY <2>1 DEF Present
<1> QED BY <1>2, <1>3, <1>4 DEF Present

\* Nor does one back.
LEMMA PresentRestored ==
  ASSUME Typed, NEW i \in Dirs, NEW n \in Names, NEW d \in Slots,
         Renames(inbox[d], root[n]), Present(i),
         root' = [root EXCEPT ![n] = inbox[d]], inbox' = [inbox EXCEPT ![d] = Nothing]
  PROVE  Present(i)'
<1>1. root[n] # i
  BY SweepConstants DEF Renames
<1>2. CASE inbox[d] = i
  <2>1. root'[n] = i
    BY <1>2 DEF Typed, HomeTyped
  <2> QED BY <2>1 DEF Present
<1>3. ASSUME inbox[d] # i, NEW s \in Slots, inbox[s] = i PROVE Present(i)'
  <2>1. inbox'[s] = i
    BY <1>3 DEF Typed, HomeTyped
  <2> QED BY <2>1 DEF Present
<1>4. ASSUME NEW m \in Names, root[m] = i PROVE Present(i)'
  <2>1. root'[m] = i
    BY <1>1, <1>4 DEF Typed, HomeTyped
  <2> QED BY <2>1 DEF Present
<1> QED BY <1>2, <1>3, <1>4 DEF Present

LEMMA DirectoryKept ==
  ASSUME Typed, Next, sweep' # sweep \/ undo' # undo,
         NEW i \in Dirs \ hollow, Present(i)
  PROVE  Present(i)'
<1>d. i \in Items /\ i \in Dirs /\ i \notin hollow
  BY SweepConstants
<1>1. CASE UNCHANGED home
  BY <1>1, PresentFrame
<1>2. ASSUME NEW p \in Sweepers, UnlinkBridge(p), ~ UNCHANGED home PROVE Present(i)'
  <2>1. /\ Here(p) \notin Dirs
        /\ root' = [root EXCEPT ![Listed(p).name] = Nothing] /\ UNCHANGED inbox
    BY <1>2 DEF UnlinkBridge, Abort
  <2>2. Listed(p).name \in Names
    BY <1>2, ListedTyped DEF UnlinkBridge, InLoop
  <2> QED BY <1>d, <2>1, <2>2, PresentRemoved DEF Here
<1>3. ASSUME NEW p \in Sweepers, RemoveSkeleton(p), ~ UNCHANGED home PROVE Present(i)'
  <2>1. /\ Here(p) \in hollow
        /\ root' = [root EXCEPT ![Listed(p).name] = Nothing] /\ UNCHANGED inbox
    BY <1>3 DEF RemoveSkeleton, home
  <2>2. Listed(p).name \in Names
    BY <1>3, ListedTyped DEF RemoveSkeleton, Typed, SweepTyped
  <2> QED BY <1>d, <2>1, <2>2, PresentRemoved DEF Here
<1>4. ASSUME NEW p \in Sweepers, File(p), ~ UNCHANGED home PROVE Present(i)'
  <2>1. /\ Renames(root[Listed(p).name], inbox[sweep[p].dst])
        /\ inbox' = [inbox EXCEPT ![sweep[p].dst] = root[Listed(p).name]]
        /\ root' = [root EXCEPT ![Listed(p).name] = Nothing]
    BY <1>4 DEF File, Abort
  <2>2. sweep[p].todo # <<>> /\ sweep[p].dst \in Slots
    BY <1>4 DEF File, Typed, SweepTyped
  <2>3. Listed(p).name \in Names
    BY <2>2, ListedTyped
  <2> QED BY <1>d, <2>1, <2>2, <2>3, PresentFiled
<1>5. ASSUME Restore, ~ UNCHANGED home PROVE Present(i)'
  <2>1. /\ Renames(inbox[Undoing.dst], root[Undoing.src])
        /\ root' = [root EXCEPT ![Undoing.src] = inbox[Undoing.dst]]
        /\ inbox' = [inbox EXCEPT ![Undoing.dst] = Nothing]
    BY <1>5 DEF Restore, UndoAbort
  <2>2. Undoing.dst \in Slots /\ Undoing.src \in Names
    <3>1. /\ undo.left # <<>> /\ Undoing.dst \in Slots
          /\ undo.left \in Seq(ToSet(undo.read)) /\ undo.read \in Seq(Records)
      BY <1>5 DEF Restore, Undoing, Typed, UndoTyped
    <3>2. Undoing \in ToSet(undo.read)
      BY <3>1 DEF Undoing
    <3>3. Undoing \in Records
      BY <3>1, <3>2 DEF ToSet
    <3> QED BY <3>1, <3>3 DEF Records
  <2> QED BY <1>d, <2>1, <2>2, PresentRestored
<1>6. ASSUME User PROVE FALSE
  BY <1>6, UserTyped
<1> QED BY <1>1, <1>2, <1>3, <1>4, <1>5, <1>6
    DEF Next, Unkilled, SweepStep, UndoStep, Start, Skip, Abort, FindSkeleton, Choose, Finish,
        UndoStart, UndoSkip, UndoChoose, Truncate, WriteBack, Crash

\* However many sweeps and undos overlap, and whatever the user does meanwhile: no run
\* makes a directory disappear in which there is a file.
THEOREM DirectoriesAreSafe == Spec => DirectoriesSurvive
<1>1. Typed /\ [Next]_vars =>
        [sweep' # sweep \/ undo' # undo =>
           \A i \in Dirs \ hollow : Present(i) => Present(i)']_vars
  <2> SUFFICES ASSUME Typed, Next, sweep' # sweep \/ undo' # undo,
                      NEW i \in Dirs \ hollow, Present(i)
               PROVE  Present(i)'
    OBVIOUS
  <2> QED BY DirectoryKept
<1> QED BY <1>1, AlwaysTyped, PTL DEF Spec, DirectoriesSurvive

-----------------------------------------------------------------------------
(***************************************************************************)
(* One run at a time, and a user who waits for it to end.  What a run has  *)
(* listed or looked at is then still so when it acts on it.                *)
(***************************************************************************)
Alone == Overlap = "never" /\ UserActs = "between"

\* No two runs are under way.
OneRun ==
  /\ \A p, q \in Sweepers : p # q => sweep[p].pc = "idle" \/ sweep[q].pc = "idle"
  /\ \A p \in Sweepers : undo.pc = "idle" \/ sweep[p].pc = "idle"

\* What is still to do was listed under names of its own, and what was a link is one.
ListingHolds ==
  \A p \in Sweepers : sweep[p].pc # "idle" =>
    /\ \A j, k \in DOMAIN sweep[p].todo : j # k => sweep[p].todo[j].name # sweep[p].todo[k].name
    /\ \A k \in DOMAIN sweep[p].todo :
         sweep[p].todo[k].link => root[sweep[p].todo[k].name] = Link

\* What a sweep is about to file has a free place to go to, and nothing to say against it.
AboutToFile ==
  \A p \in Sweepers : sweep[p].pc = "rename" =>
    inbox[sweep[p].dst] = Nothing /\ ~Blocked(Listed(p).name)

\* What an undo is about to restore has its old name free.
AboutToRestore == undo.pc = "rename" => root[Undoing.src] = Nothing

\* Nobody has written into a tree without a file.
HollowIsOld == newer \cap hollow = {}

Steady == Typed /\ OneRun /\ ListingHolds /\ AboutToFile /\ AboutToRestore /\ HollowIsOld

\* What is picked from a sequence without repetitions has none.
LEMMA InOrderInjective ==
  ASSUME NEW T, NEW seq \in Seq(T), NEW S \in SUBSET DOMAIN seq, IsInjective(seq),
         NEW s \in InOrder(seq, S), NEW i \in DOMAIN s, NEW j \in DOMAIN s, i # j
  PROVE  s[i] # s[j]
<1>1. IsFiniteSet(S)
  <2>1. DOMAIN seq = 1..Len(seq) /\ Len(seq) \in Nat
    OBVIOUS
  <2>2. IsFiniteSet(1..Len(seq))
    BY <2>1, FS_Interval
  <2> QED BY <2>1, <2>2, FS_Subset
<1>2. Cardinality(S) \in Nat
  BY <1>1, FS_CardinalityType
<1>3. PICK f \in [1..Cardinality(S) -> S] :
        /\ \A k, l \in DOMAIN f : k < l => f[k] < f[l]
        /\ s = [k \in DOMAIN f |-> seq[f[k]]]
  BY DEF InOrder
<1>4. i \in 1..Cardinality(S) /\ j \in 1..Cardinality(S)
  BY <1>3
<1>5. f[i] \in Nat /\ f[j] \in Nat /\ f[i] \in DOMAIN seq /\ f[j] \in DOMAIN seq
  <2>1. f[i] \in S /\ f[j] \in S
    BY <1>3, <1>4
  <2>2. DOMAIN seq = 1..Len(seq) /\ Len(seq) \in Nat
    OBVIOUS
  <2> QED BY <2>1, <2>2
<1>6. f[i] # f[j]
  BY <1>2, <1>3, <1>4, <1>5
<1>7. seq[f[i]] # seq[f[j]]
  BY <1>5, <1>6 DEF IsInjective
<1> QED BY <1>3, <1>4, <1>7

\* Whoever has a step to take is the only one under way.
LEMMA Turn ==
  ASSUME OneRun
  PROVE  /\ \A p \in Sweepers : sweep[p].pc # "idle" =>
              undo.pc = "idle" /\ \A q \in Sweepers \ {p} : sweep[q].pc = "idle"
         /\ undo.pc # "idle" => \A p \in Sweepers : sweep[p].pc = "idle"
BY DEF OneRun

\* A sweep that goes on to its next entry: what it did to the last is not held against it.
LEMMA AdvanceSteady ==
  ASSUME Steady, Typed', NEW p \in Sweepers, sweep[p].pc # "idle", sweep[p].todo # <<>>,
         NEW m, sweep' = Advance(p, m), UNCHANGED <<nature, undo>>,
         \A n \in Names : n # Listed(p).name => root'[n] = root[n]
  PROVE  Steady'
<1>1. \A q \in Sweepers : q # p => sweep'[q] = sweep[q] /\ sweep[q].pc = "idle"
  BY Turn DEF Advance, Steady, Typed, SweepTyped
<1>2. sweep[p].todo \in Seq(Entries)
  BY DEF Steady, Typed, SweepTyped, Runs
<1>3. sweep'[p].pc = "loop" /\ sweep'[p].todo = Tail(sweep[p].todo)
  BY DEF Advance, Steady, Typed, SweepTyped, Runs
<1>4. undo.pc = "idle" /\ undo' = undo
  BY Turn DEF Steady
<1>5. OneRun'
  BY <1>1, <1>4 DEF OneRun
<1>6. \A k \in DOMAIN sweep'[p].todo :
        /\ k + 1 \in DOMAIN sweep[p].todo /\ sweep'[p].todo[k] = sweep[p].todo[k + 1]
        /\ sweep[p].todo[k + 1].name \in Names
        /\ sweep[p].todo[k + 1].name # Listed(p).name
  <2> SUFFICES ASSUME NEW k \in DOMAIN sweep'[p].todo
               PROVE  /\ k + 1 \in DOMAIN sweep[p].todo
                      /\ sweep'[p].todo[k] = sweep[p].todo[k + 1]
                      /\ sweep[p].todo[k + 1].name \in Names
                      /\ sweep[p].todo[k + 1].name # Listed(p).name
    OBVIOUS
  <2>1. k \in Nat /\ k # 0 /\ k + 1 \in DOMAIN sweep[p].todo /\ 1 \in DOMAIN sweep[p].todo
        /\ sweep'[p].todo[k] = sweep[p].todo[k + 1]
    BY <1>2, <1>3
  <2>2. sweep[p].todo[k + 1] \in Entries /\ Listed(p) = sweep[p].todo[1]
    BY <1>2, <2>1 DEF Listed
  <2>3. k + 1 # 1
    BY <2>1
  <2> QED BY <2>1, <2>2, <2>3 DEF Entries, Steady, ListingHolds
<1>7. ListingHolds'
  <2> SUFFICES ASSUME NEW q \in Sweepers, sweep'[q].pc # "idle"
               PROVE  /\ \A j, k \in DOMAIN sweep'[q].todo :
                           j # k => sweep'[q].todo[j].name # sweep'[q].todo[k].name
                      /\ \A k \in DOMAIN sweep'[q].todo :
                           sweep'[q].todo[k].link => root'[sweep'[q].todo[k].name] = Link
    BY DEF ListingHolds
  <2>1. q = p
    BY <1>1
  <2>2. DOMAIN sweep'[p].todo \subseteq Nat
    BY <1>2, <1>3
  <2>3. \A j, k \in DOMAIN sweep'[p].todo : j # k => j + 1 # k + 1
    BY <2>2
  <2> QED BY <2>1, <2>3, <1>6 DEF Steady, ListingHolds
<1>8. AboutToFile'
  BY <1>1, <1>3 DEF AboutToFile
<1>9. AboutToRestore' /\ HollowIsOld'
  BY <1>4 DEF AboutToRestore, HollowIsOld, Steady, nature
<1> QED BY <1>5, <1>7, <1>8, <1>9 DEF Steady

\* So does a sweep that ends.
LEMMA EndSteady ==
  ASSUME Steady, Typed', NEW p \in Sweepers, sweep[p].pc # "idle",
         sweep' = [sweep EXCEPT ![p] = NoSweep], UNCHANGED <<home, nature, undo>>
  PROVE  Steady'
<1>1. \A q \in Sweepers : sweep'[q].pc = "idle"
  BY Turn DEF Steady, Typed, SweepTyped, NoSweep
<1>2. undo.pc = "idle" /\ undo' = undo
  BY Turn DEF Steady
<1> QED BY <1>1, <1>2
    DEF Steady, OneRun, ListingHolds, AboutToFile, AboutToRestore, HollowIsOld, nature

LEMMA SweepStepSteady ==
  ASSUME Steady, NEW p \in Sweepers, SweepStep(p)
  PROVE  Steady'
<1>t. Typed /\ Typed'
  BY SweepStepTyped DEF Steady
<1>u. sweep \in [Sweepers -> Runs]
  BY <1>t DEF Typed, SweepTyped
<1>1. CASE Skip(p)
  <2>1. root' = root /\ sweep[p].pc # "idle" /\ sweep[p].todo # <<>>
    BY <1>1 DEF Skip, InLoop, home
  <2> QED BY <1>1, <1>t, <2>1, AdvanceSteady DEF Skip
<1>2. CASE Choose(p) /\ Vanished(p)
  BY <1>2, <1>t, EndSteady DEF Choose, Abort, InLoop
<1>3. CASE UnlinkBridge(p)
  <2>1. sweep[p].pc # "idle" /\ sweep[p].todo # <<>>
    BY <1>3 DEF UnlinkBridge, InLoop
  <2>2. CASE Abort(p)
    BY <2>1, <2>2, <1>t, EndSteady DEF Abort
  <2>3. CASE ~Abort(p)
    <3>1. /\ root' = [root EXCEPT ![Listed(p).name] = Nothing]
          /\ sweep' = Advance(p, sweep[p].moves) /\ UNCHANGED <<nature, undo>>
      BY <1>3, <2>3 DEF UnlinkBridge
    <3>2. \A n \in Names : n # Listed(p).name => root'[n] = root[n]
      BY <3>1, <1>t DEF Typed, HomeTyped
    <3> QED BY <2>1, <3>1, <3>2, <1>t, AdvanceSteady
  <2> QED BY <2>2, <2>3
<1>4. ASSUME NEW pc \in {"rmdir", "rename"}, NEW dst,
             InLoop(p), sweep' = [sweep EXCEPT ![p].pc = pc, ![p].dst = dst],
             UNCHANGED <<home, nature, undo>>,
             pc = "rename" => inbox[dst] = Nothing /\ ~Blocked(Listed(p).name)
      PROVE  Steady'
  <2>1. sweep'[p].pc = pc /\ sweep'[p].dst = dst /\ sweep'[p].todo = sweep[p].todo
    BY <1>4, <1>u DEF Runs
  <2>2. \A q \in Sweepers : q # p => sweep'[q] = sweep[q] /\ sweep[q].pc = "idle"
    BY <1>4, <1>u, Turn DEF InLoop, Steady
  <2>3. undo.pc = "idle" /\ undo' = undo /\ root' = root /\ inbox' = inbox /\ newer' = newer
        /\ hollow' = hollow /\ sweep[p].pc # "idle"
    BY <1>4, Turn DEF InLoop, home, nature, Steady
  <2>4. OneRun'
    BY <2>2, <2>3 DEF OneRun
  <2>5. ListingHolds'
    BY <2>1, <2>2, <2>3 DEF ListingHolds, Steady
  <2>6. AboutToFile'
    <3>1. Listed(p)' = Listed(p) /\ root'[Listed(p).name] = root[Listed(p).name]
      BY <2>1, <2>3 DEF Listed
    <3>2. Blocked(Listed(p).name)' <=> Blocked(Listed(p).name)
      BY <3>1, <2>3 DEF Blocked
    <3> SUFFICES ASSUME NEW q \in Sweepers, sweep'[q].pc = "rename"
                 PROVE  inbox'[sweep'[q].dst] = Nothing /\ ~Blocked(Listed(q).name)'
      BY DEF AboutToFile
    <3>3. q = p
      BY <2>2
    <3> QED BY <1>4, <2>1, <2>3, <3>2, <3>3
  <2>7. AboutToRestore' /\ HollowIsOld'
    BY <2>3 DEF AboutToRestore, HollowIsOld, Steady
  <2> QED BY <1>t, <2>4, <2>5, <2>6, <2>7 DEF Steady
<1>5. CASE FindSkeleton(p)
  <2>1. sweep' = [sweep EXCEPT ![p].pc = "rmdir", ![p].dst = sweep[p].dst]
    BY <1>5, <1>u DEF FindSkeleton, Runs
  <2> QED BY <1>4, <1>5, <2>1 DEF FindSkeleton
<1>6. CASE Choose(p) /\ ~Vanished(p)
  <2>1. inbox[UniqueDestination(Listed(p).name)] = Nothing
    BY <1>6, <1>t, ListedTyped, DestinationTyped DEF Choose, InLoop
  <2> QED BY <1>4, <1>6, <2>1 DEF Choose
<1>7. CASE RemoveSkeleton(p)
  <2>1. sweep[p].pc # "idle" /\ sweep[p].todo # <<>>
    BY <1>7, <1>t DEF RemoveSkeleton, Typed, SweepTyped
  <2>2. \A n \in Names : n # Listed(p).name => root'[n] = root[n]
    BY <1>7, <1>t DEF RemoveSkeleton, Typed, HomeTyped
  <2>3. \/ sweep' = Advance(p, sweep[p].moves)
        \/ sweep' = Advance(p, Append(sweep[p].moves,
                      [src |-> Listed(p).name, dst |-> NoSlot, batch |-> sweep[p].batch]))
    BY <1>7 DEF RemoveSkeleton
  <2> QED BY <1>7, <1>t, <2>1, <2>2, <2>3, AdvanceSteady DEF RemoveSkeleton
<1>8. CASE File(p)
  <2>1. sweep[p].pc # "idle" /\ sweep[p].todo # <<>>
    BY <1>8, <1>t DEF File, Typed, SweepTyped
  <2>2. CASE Abort(p)
    BY <2>1, <2>2, <1>t, EndSteady DEF Abort
  <2>3. CASE ~Abort(p)
    <3>1. /\ root' = [root EXCEPT ![Listed(p).name] = Nothing]
          /\ sweep' = Advance(p, Append(sweep[p].moves,
                      [src |-> Listed(p).name, dst |-> sweep[p].dst, batch |-> sweep[p].batch]))
          /\ UNCHANGED <<nature, undo>>
      BY <1>8, <2>3 DEF File
    <3>2. \A n \in Names : n # Listed(p).name => root'[n] = root[n]
      BY <3>1, <1>t DEF Typed, HomeTyped
    <3> QED BY <2>1, <3>1, <3>2, <1>t, AdvanceSteady
  <2> QED BY <2>2, <2>3
<1>9. CASE Finish(p)
  BY <1>9, <1>t, EndSteady DEF Finish
<1> QED BY <1>1, <1>2, <1>3, <1>5, <1>6, <1>7, <1>8, <1>9 DEF SweepStep

\* A sweep starts when nothing else is under way, with a list of what is there.
LEMMA StartSteady ==
  ASSUME Alone, Steady, NEW p \in Sweepers, Start(p)
  PROVE  Steady'
<1>t. Typed /\ Typed'
  BY StartTyped DEF Steady
<1>1. PICK todo \in RootEntries, batch \in FreshBatch :
        sweep' = [sweep EXCEPT ![p] = [pc |-> "loop", todo |-> todo, dst |-> NoSlot,
                    moves |-> <<>>, batch |-> batch, expired |-> expired]]
  BY DEF Start
<1> DEFINE S == {i \in DOMAIN NameOrder : root[NameOrder[i]] # Nothing}
<1>2. PICK names \in InOrder(NameOrder, S) : todo = [k \in DOMAIN names |-> Entry(names[k])]
  BY <1>1 DEF RootEntries
<1>s. S \in SUBSET DOMAIN NameOrder
  OBVIOUS
<1> HIDE DEF S
<1>3. names \in Seq(Names)
  BY <1>s, SweepConstants, InOrderTyped
<1>4. \A i, j \in DOMAIN names : i # j => names[i] # names[j]
  BY <1>s, SweepConstants, InOrderInjective
<1>5. /\ DOMAIN todo = DOMAIN names
      /\ \A k \in DOMAIN todo : todo[k].name = names[k] /\ (todo[k].link => root[names[k]] = Link)
  BY <1>2, <1>3 DEF Entry
<1>6. sweep'[p].pc = "loop" /\ sweep'[p].todo = todo
  BY <1>1, <1>t DEF Typed, SweepTyped
<1>7. \A q \in Sweepers : q # p => sweep'[q].pc = "idle"
  BY <1>1, <1>t DEF Typed, SweepTyped, Start, MayStart, Quiet, Alone
<1>8. undo'.pc = "idle" /\ root' = root /\ newer' = newer /\ hollow' = hollow
  BY DEF Start, MayStart, Quiet, Alone, home, nature
<1>9. OneRun'
  BY <1>7, <1>8 DEF OneRun
<1>10. ListingHolds'
  BY <1>4, <1>5, <1>6, <1>7, <1>8 DEF ListingHolds
<1>11. AboutToFile' /\ AboutToRestore' /\ HollowIsOld'
  BY <1>6, <1>7, <1>8 DEF AboutToFile, AboutToRestore, HollowIsOld, Steady
<1> QED BY <1>t, <1>9, <1>10, <1>11 DEF Steady

\* So with an undo, its steps, and a kill: no sweep is under way when they are done.
LEMMA NoSweepSteady ==
  ASSUME Typed', HollowIsOld', \A p \in Sweepers : sweep'[p].pc = "idle",
         undo'.pc = "rename" => root'[Undoing'.src] = Nothing
  PROVE  Steady'
BY DEF Steady, OneRun, ListingHolds, AboutToFile, AboutToRestore

LEMMA UndoSteady ==
  ASSUME Alone, Steady, UndoStep \/ \E B : UndoStart(B)
  PROVE  Steady'
<1>1. Typed'
  BY UndoStartTyped, UndoStepTyped DEF Steady
<1>2. HollowIsOld'
  BY DEF Steady, HollowIsOld, nature, UndoStep, UndoStart, UndoSkip, UndoChoose, Restore, UndoAbort,
         Truncate, WriteBack
<1>3. \A p \in Sweepers : sweep'[p].pc = "idle"
  <2>1. UNCHANGED sweep
    BY DEF UndoStep, UndoStart, UndoSkip, UndoChoose, Restore, UndoAbort, Truncate, WriteBack
  <2>2. undo.pc # "idle" \/ Quiet
    BY DEF UndoStep, UndoStart, UndoSkip, UndoChoose, Restore, Truncate, WriteBack, MayStart, Alone
  <2> QED BY <2>1, <2>2, Turn DEF Quiet, Steady
<1>4. undo'.pc = "rename" => root'[Undoing'.src] = Nothing
  <2>t. undo = [pc |-> undo.pc, which |-> undo.which, read |-> undo.read, left |-> undo.left,
                undone |-> undo.undone]
    BY DEF Steady, Typed, UndoTyped
  <2>1. CASE UndoChoose
    <3>1. Undoing' = Undoing /\ root' = root
      BY <2>1, <2>t DEF UndoChoose, Undoing, home
    <3> QED BY <2>1, <3>1 DEF UndoChoose, Restorable
  <2>2. CASE UndoSkip
    BY <2>2, <2>t DEF UndoSkip
  <2>3. CASE Restore
    <3>1. \/ undo' = NoUndo
          \/ undo' = [undo EXCEPT !.pc = "loop", !.left = Tail(@), !.undone = @ \cup {Undoing}]
      BY <2>3 DEF Restore, UndoAbort
    <3>2. undo'.pc = "idle" \/ undo'.pc = "loop"
      <4>1. CASE undo' = NoUndo
        BY <4>1 DEF NoUndo
      <4>2. ASSUME NEW l, NEW u, undo' = [undo EXCEPT !.pc = "loop", !.left = l, !.undone = u]
            PROVE  undo'.pc = "loop"
        BY <2>t, <4>2
      <4> QED BY <3>1, <4>1, <4>2
    <3> QED BY <3>2
  <2>4. CASE Truncate \/ WriteBack
    BY <2>4, <2>t DEF Truncate, WriteBack, NoUndo
  <2>5. CASE \E B : UndoStart(B)
    BY <2>5 DEF UndoStart
  <2> QED BY <2>1, <2>2, <2>3, <2>4, <2>5 DEF UndoStep
<1> QED BY <1>1, <1>2, <1>3, <1>4, NoSweepSteady

LEMMA OthersSteady ==
  ASSUME Alone, Steady, Crash \/ User
  PROVE  Steady'
<1>1. Typed'
  BY CrashTyped, UserTyped DEF Steady
<1>2. HollowIsOld'
  BY DEF Steady, HollowIsOld, nature, Crash, User, Create, Age, Fill, Reconcile, Pin, Discard, Triage,
         Expire, Migration
<1>3. (\A p \in Sweepers : sweep'[p].pc = "idle") /\ undo'.pc = "idle"
  BY DEF Crash, User, Create, Age, Fill, Reconcile, Pin, Discard, Triage, Expire, Migration, UserMay,
         Quiet, Alone, NoSweep, NoUndo
<1> QED BY <1>1, <1>2, <1>3, NoSweepSteady

LEMMA SteadyAlways == ASSUME Alone PROVE Spec => []Steady
<1>1. Init => Steady
  <2> SUFFICES ASSUME Init PROVE Steady
    OBVIOUS
  <2>1. Typed
    BY InitTyped
  <2> QED BY <2>1 DEF Init, NoSweep, NoUndo, Steady, OneRun, ListingHolds, AboutToFile,
                      AboutToRestore, HollowIsOld
<1>2. Steady /\ [Next]_vars => Steady'
  <2> SUFFICES ASSUME Steady, [Next]_vars PROVE Steady'
    OBVIOUS
  <2>1. CASE Next
    BY <2>1, StartSteady, SweepStepSteady, UndoSteady, OthersSteady DEF Next, Unkilled
  <2>2. CASE UNCHANGED vars
    <3>1. Typed'
      BY <2>2, Frame DEF Steady, Typed, vars, home, nature
    <3> QED BY <2>2, <3>1 DEF Steady, OneRun, ListingHolds, AboutToFile, AboutToRestore, HollowIsOld,
              Blocked, Listed, Undoing, vars, home, nature
  <2> QED BY <2>1, <2>2
<1> QED BY <1>1, <1>2, PTL DEF Spec

-----------------------------------------------------------------------------
(***************************************************************************)
(* What this gives.                                                        *)
(***************************************************************************)

\* A step of a run that changes the home either empties a name that held a link or an
\* empty tree, or carries a thing to a free place.
LEMMA Careful ==
  ASSUME Steady, Next, sweep' # sweep \/ undo' # undo, ~ UNCHANGED home
  PROVE  \/ \E n \in Names : /\ root[n] \in hollow \cup {Link}
                             /\ root' = [root EXCEPT ![n] = Nothing] /\ UNCHANGED inbox
         \/ /\ sweep' # sweep
            /\ \E n \in Names, d \in Slots : /\ inbox[d] = Nothing /\ ~Blocked(n)
                    /\ inbox' = [inbox EXCEPT ![d] = root[n]]
                    /\ root' = [root EXCEPT ![n] = Nothing]
         \/ /\ sweep' = sweep
            /\ \E n \in Names, d \in Slots : /\ root[n] = Nothing
                    /\ root' = [root EXCEPT ![n] = inbox[d]]
                    /\ inbox' = [inbox EXCEPT ![d] = Nothing]
<1>t. Typed
  BY DEF Steady
<1>1. ASSUME NEW p \in Sweepers, UnlinkBridge(p)
      PROVE  \E n \in Names : /\ root[n] \in hollow \cup {Link}
                              /\ root' = [root EXCEPT ![n] = Nothing] /\ UNCHANGED inbox
  <2>1. /\ root' = [root EXCEPT ![Listed(p).name] = Nothing] /\ UNCHANGED inbox
        /\ sweep[p].pc = "loop" /\ sweep[p].todo # <<>> /\ Listed(p).link
    BY <1>1 DEF UnlinkBridge, Abort, InLoop, IsBridge
  <2>2. Listed(p) = sweep[p].todo[1] /\ 1 \in DOMAIN sweep[p].todo
    BY <2>1, <1>t DEF Listed, Typed, SweepTyped, Runs
  <2>3. root[Listed(p).name] = Link
    BY <2>1, <2>2 DEF Steady, ListingHolds
  <2> QED BY <2>1, <2>3, <1>t, ListedTyped
<1>2. ASSUME NEW p \in Sweepers, RemoveSkeleton(p)
      PROVE  \E n \in Names : /\ root[n] \in hollow \cup {Link}
                              /\ root' = [root EXCEPT ![n] = Nothing] /\ UNCHANGED inbox
  <2>1. Listed(p).name \in Names
    BY <1>2, <1>t, ListedTyped DEF RemoveSkeleton, Typed, SweepTyped
  <2> QED BY <1>2, <2>1 DEF RemoveSkeleton, Here, home
<1>3. ASSUME NEW p \in Sweepers, File(p)
      PROVE  /\ sweep' # sweep
             /\ \E n \in Names, d \in Slots : /\ inbox[d] = Nothing /\ ~Blocked(n)
                     /\ inbox' = [inbox EXCEPT ![d] = root[n]]
                     /\ root' = [root EXCEPT ![n] = Nothing]
  <2>1. /\ inbox' = [inbox EXCEPT ![sweep[p].dst] = root[Listed(p).name]]
        /\ root' = [root EXCEPT ![Listed(p).name] = Nothing]
        /\ sweep' # sweep
    BY <1>3 DEF File, Abort, Undoing, Advance, Next, Unkilled
  <2>2. Listed(p).name \in Names /\ sweep[p].dst \in Slots
    BY <1>3, <1>t, ListedTyped DEF File, Typed, SweepTyped
  <2>3. inbox[sweep[p].dst] = Nothing /\ ~Blocked(Listed(p).name)
    BY <1>3 DEF File, Steady, AboutToFile
  <2> QED BY <2>1, <2>2, <2>3
<1>4. ASSUME Restore
      PROVE  /\ sweep' = sweep
             /\ \E n \in Names, d \in Slots : /\ root[n] = Nothing
                     /\ root' = [root EXCEPT ![n] = inbox[d]]
                     /\ inbox' = [inbox EXCEPT ![d] = Nothing]
  <2>1. /\ root' = [root EXCEPT ![Undoing.src] = inbox[Undoing.dst]]
        /\ inbox' = [inbox EXCEPT ![Undoing.dst] = Nothing] /\ sweep' = sweep
        /\ undo.pc = "rename"
    BY <1>4 DEF Restore, UndoAbort
  <2>2. Undoing.dst \in Slots /\ Undoing \in ToSet(undo.read)
    BY <2>1, <1>t DEF Undoing, Typed, UndoTyped
  <2>3. Undoing \in Records
    BY <2>2, <1>t DEF ToSet, Typed, UndoTyped
  <2> QED BY <2>1, <2>2, <2>3 DEF Records, Steady, AboutToRestore
<1>5. ASSUME User PROVE FALSE
  BY <1>5, <1>t, UserTyped
<1> QED BY <1>1, <1>2, <1>3, <1>4, <1>5
    DEF Next, Unkilled, SweepStep, UndoStep, Start, Skip, Abort, FindSkeleton, Choose, Finish,
        UndoStart, UndoSkip, UndoChoose, Truncate, WriteBack, Crash

\* Where no run overlaps another and the user waits for it to end, no run makes a file
\* disappear: neither one overwritten in the inbox, nor one restored over another.
THEOREM FilesAreSafe == ASSUME Alone PROVE Spec => FilesSurvive
<1>1. Steady /\ [Next]_vars =>
        [sweep' # sweep \/ undo' # undo =>
           \A i \in Items \ hollow : Present(i) => Present(i)']_vars
  <2> SUFFICES ASSUME Steady, Next, sweep' # sweep \/ undo' # undo,
                      NEW i \in Items \ hollow, Present(i)
               PROVE  Present(i)'
    OBVIOUS
  <2>t. /\ root \in [Names -> Things] /\ inbox \in [Slots -> Things]
        /\ i # Nothing /\ i # Link
    BY SweepConstants DEF Steady, Typed, HomeTyped
  <2>1. CASE UNCHANGED home
    BY <2>1, PresentFrame
  <2>2. ASSUME NEW n \in Names, root[n] \in hollow \cup {Link},
               root' = [root EXCEPT ![n] = Nothing], UNCHANGED inbox
        PROVE  Present(i)'
    <3>1. root[n] # i
      BY <2>2, <2>t
    <3> QED BY <2>2, <2>t, <3>1 DEF Present
  <2>3. ASSUME NEW n \in Names, NEW d \in Slots, inbox[d] = Nothing,
               inbox' = [inbox EXCEPT ![d] = root[n]], root' = [root EXCEPT ![n] = Nothing]
        PROVE  Present(i)'
    BY <2>3, <2>t DEF Present
  <2>4. ASSUME NEW n \in Names, NEW d \in Slots, root[n] = Nothing,
               root' = [root EXCEPT ![n] = inbox[d]], inbox' = [inbox EXCEPT ![d] = Nothing]
        PROVE  Present(i)'
    BY <2>4, <2>t DEF Present
  <2> QED BY <2>1, <2>2, <2>3, <2>4, Careful
<1> QED BY <1>1, SteadyAlways, PTL DEF Spec, FilesSurvive

\* Under the same conditions, what has data that its counterpart lacks stays in place.
THEOREM NothingIsBuried == ASSUME Alone PROVE Spec => NothingBuried
<1>1. Steady /\ [Next]_vars =>
        [sweep' # sweep => \A n \in Rivals : root[n] \in newer => root'[n] = root[n]]_vars
  <2> SUFFICES ASSUME Steady, Next, sweep' # sweep, NEW n \in Rivals, root[n] \in newer
               PROVE  root'[n] = root[n]
    OBVIOUS
  <2>t. n \in Names /\ root \in [Names -> Things] /\ root[n] \notin hollow /\ root[n] # Link
    BY SweepConstants DEF Steady, Typed, HomeTyped, NatureTyped, HollowIsOld
  <2>1. CASE UNCHANGED home
    BY <2>1 DEF home
  <2>2. ASSUME NEW m \in Names, root[m] \in hollow \cup {Link}, root' = [root EXCEPT ![m] = Nothing]
        PROVE  root'[n] = root[n]
    BY <2>2, <2>t
  <2>3. ASSUME NEW m \in Names, ~Blocked(m), root' = [root EXCEPT ![m] = Nothing]
        PROVE  root'[n] = root[n]
    BY <2>3, <2>t DEF Blocked
  <2> QED BY <2>1, <2>2, <2>3, Careful
<1> QED BY <1>1, SteadyAlways, PTL DEF Spec, NothingBuried
-----------------------------------------------------------------------------
(***************************************************************************)
(* More on sequences.                                                      *)
(***************************************************************************)

\* The indices that InOrder picks: in order, and all there are.
LEMMA Picked ==
  ASSUME NEW T, NEW seq \in Seq(T), NEW S \in SUBSET DOMAIN seq, NEW s \in InOrder(seq, S)
  PROVE  \E f \in [1..Cardinality(S) -> S] :
           /\ Cardinality(S) \in Nat /\ DOMAIN s = 1..Cardinality(S)
           /\ \A k \in 1..Cardinality(S) : s[k] = seq[f[k]]
           /\ \A k, l \in 1..Cardinality(S) : k < l => f[k] < f[l]
           /\ \A i \in S : \E k \in 1..Cardinality(S) : f[k] = i
<1> DEFINE c == Cardinality(S)
<1>1. IsFiniteSet(S) /\ S \subseteq Nat
  <2>1. DOMAIN seq = 1..Len(seq) /\ Len(seq) \in Nat
    OBVIOUS
  <2>2. IsFiniteSet(1..Len(seq))
    BY <2>1, FS_Interval
  <2> QED BY <2>1, <2>2, FS_Subset
<1>2. c \in Nat
  BY <1>1, FS_CardinalityType
<1>3. PICK f \in [1..c -> S] :
        /\ \A k, l \in DOMAIN f : k < l => f[k] < f[l]
        /\ s = [k \in DOMAIN f |-> seq[f[k]]]
  BY DEF InOrder
<1>4. Cardinality(1..c) = c
  <2>1. IF 1 > c THEN c = 0 ELSE c - 1 + 1 = c
    BY <1>2
  <2> QED BY <1>2, <2>1, FS_Interval
<1> HIDE DEF c
<1>5. \A k, l \in 1..c : f[k] = f[l] => k = l
  <2> SUFFICES ASSUME NEW k \in 1..c, NEW l \in 1..c, f[k] = f[l] PROVE k = l
    OBVIOUS
  <2>1. f[k] \in Nat /\ f[l] \in Nat
    BY <1>1
  <2>2. ~ (f[k] < f[l]) /\ ~ (f[l] < f[k])
    BY <2>1
  <2>3. ~ (k < l) /\ ~ (l < k)
    BY <1>3, <2>2
  <2> QED BY <1>2, <2>3
<1>6. f \in Injection(1..c, S)
  BY <1>3, <1>5 DEF Injection, IsInjective
<1>7. f \in Surjection(1..c, S)
  BY <1>1, <1>4, <1>6, FS_Injection DEF c
<1>8. \A i \in S : \E k \in 1..c : f[k] = i
  BY <1>7 DEF Surjection
<1> QED BY <1>2, <1>3, <1>8 DEF c

LEMMA InOrderOf ==
  ASSUME NEW T, NEW seq \in Seq(T), NEW S \in SUBSET DOMAIN seq, NEW s \in InOrder(seq, S)
  PROVE  ToSet(s) = {seq[i] : i \in S}
<1>1. PICK f \in [1..Cardinality(S) -> S] :
        /\ DOMAIN s = 1..Cardinality(S)
        /\ \A k \in 1..Cardinality(S) : s[k] = seq[f[k]]
        /\ \A i \in S : \E k \in 1..Cardinality(S) : f[k] = i
  BY Picked
<1>2. ASSUME NEW k \in DOMAIN s PROVE s[k] \in {seq[i] : i \in S}
  BY <1>1
<1>3. ASSUME NEW i \in S PROVE \E k \in DOMAIN s : s[k] = seq[i]
  BY <1>1
<1>4. ToSet(s) = {s[k] : k \in DOMAIN s}
  BY DEF ToSet
<1> QED BY <1>2, <1>3, <1>4

\* All of a sequence, in order, is the sequence.
LEMMA InOrderAll ==
  ASSUME NEW T, NEW seq \in Seq(T), NEW S \in SUBSET DOMAIN seq, S = DOMAIN seq,
         NEW s \in InOrder(seq, S)
  PROVE  s = seq
<1> DEFINE n == Len(seq)
<1>1. n \in Nat /\ DOMAIN seq = 1..n /\ seq = [k \in 1..n |-> seq[k]]
  OBVIOUS
<1> HIDE DEF n
<1>2. Cardinality(1..n) = n
  <2>1. IF 1 > n THEN n = 0 ELSE n - 1 + 1 = n
    BY <1>1
  <2>2. Cardinality(1..n) = IF 1 > n THEN 0 ELSE n - 1 + 1
    BY <1>1, FS_Interval
  <2> QED BY <2>1, <2>2
<1>3. PICK f \in [1..n -> 1..n] :
        /\ DOMAIN s = 1..n
        /\ \A k \in 1..n : s[k] = seq[f[k]]
        /\ \A k, l \in 1..n : k < l => f[k] < f[l]
  <2>1. Cardinality(S) = n /\ S = 1..n
    BY <1>1, <1>2
  <2>2. PICK f \in [1..Cardinality(S) -> S] :
          /\ DOMAIN s = 1..Cardinality(S)
          /\ \A k \in 1..Cardinality(S) : s[k] = seq[f[k]]
          /\ \A k, l \in 1..Cardinality(S) : k < l => f[k] < f[l]
    BY Picked
  <2> QED BY <2>1, <2>2
<1>4. \A k \in 1..n : f[k] >= k
  <2> DEFINE W == {k \in 1..n : f[k] < k}
  <2> SUFFICES ASSUME W # {} PROVE FALSE
    BY <1>1
  <2>1. W \in SUBSET Nat
    BY <1>1
  <2>2. PICK k \in W : \A j \in W : k <= j
    BY <2>1, Least
  <2>3. k \in 1..n /\ f[k] < k /\ f[k] \in 1..n
    OBVIOUS
  <2>4. k - 1 \in 1..n /\ k - 1 < k /\ ~ (k - 1 >= k)
    BY <1>1, <2>3
  <2>5. f[k - 1] >= k - 1 /\ f[k - 1] \in 1..n
    BY <1>1, <2>2, <2>4
  <2>6. f[k - 1] < f[k]
    BY <1>3, <2>3, <2>4
  <2> QED BY <1>1, <2>3, <2>5, <2>6
<1>5. \A k \in 1..n : f[k] <= k
  <2> DEFINE W == {d \in 0..n : n - d \in 1..n /\ f[n - d] > n - d}
  <2> SUFFICES ASSUME NEW k \in 1..n, f[k] > k PROVE FALSE
    BY <1>1
  <2>1. W \in SUBSET Nat /\ n - k \in W
    BY <1>1
  <2>2. PICK d \in W : \A e \in W : d <= e
    BY <2>1, Least
  <2> DEFINE m == n - d
  <2>3. d \in 0..n /\ m \in 1..n /\ f[m] > m /\ f[m] \in 1..n
    BY <2>2
  <2>m. m = n - d
    OBVIOUS
  <2> HIDE DEF m
  <2>n. m < n /\ m \in Nat /\ d \in Nat
    BY <1>1, <2>3
  <2>4. m + 1 \in 1..n /\ m < m + 1 /\ n - (m + 1) = d - 1 /\ d - 1 \in 0..n /\ ~ (d <= d - 1)
        /\ n - (d - 1) = m + 1
    BY <1>1, <2>m, <2>n
  <2>5. ~ (f[m + 1] > m + 1)
    BY <2>2, <2>4
  <2>6. f[m] < f[m + 1] /\ f[m + 1] \in 1..n
    BY <1>3, <2>3, <2>4
  <2>7. f[m] \in Int /\ f[m + 1] \in Int
    BY <1>1, <2>3, <2>6
  <2>8. m \in Int /\ f[m] > m
    BY <2>3
  <2> DEFINE a == f[m]
             b == f[m + 1]
  <2>9. a \in Int /\ b \in Int /\ m \in Int /\ a > m /\ a < b /\ ~ (b > m + 1)
    BY <2>5, <2>6, <2>7, <2>8, Zenon
  <2> HIDE DEF a, b, W
  <2> QED BY <2>9
<1>6. \A k \in 1..n : f[k] = k
  <2> SUFFICES ASSUME NEW k \in 1..n PROVE f[k] = k
    OBVIOUS
  <2>1. f[k] \in Nat /\ k \in Nat
    BY <1>1
  <2> QED BY <1>4, <1>5, <2>1
<1>7. s = [k \in 1..n |-> s[k]]
  BY <1>3 DEF InOrder
<1>8. \A k \in 1..n : s[k] = seq[k]
  BY <1>3, <1>6
<1> QED BY <1>1, <1>7, <1>8

LEMMA InjectiveInOrder ==
  ASSUME NEW T, NEW seq \in Seq(T), NEW S \in SUBSET DOMAIN seq, IsInjective(seq),
         NEW s \in InOrder(seq, S)
  PROVE  IsInjective(s)
<1>1. \A i, j \in DOMAIN s : i # j => s[i] # s[j]
  BY InOrderInjective
<1> QED BY <1>1 DEF IsInjective

\* A sequence after another.
LEMMA Concat ==
  ASSUME NEW T, NEW s \in Seq(T), NEW t \in Seq(T)
  PROVE  /\ DOMAIN (s \o t) = 1..(Len(s) + Len(t))
         /\ \A i \in 1..Len(s) : (s \o t)[i] = s[i]
         /\ \A i \in 1..Len(t) : (s \o t)[Len(s) + i] = t[i]
         /\ \A i \in DOMAIN (s \o t) :
              \/ i \in 1..Len(s) /\ (s \o t)[i] = s[i]
              \/ i - Len(s) \in 1..Len(t) /\ (s \o t)[i] = t[i - Len(s)]
<1>1. /\ DOMAIN s = 1..Len(s) /\ DOMAIN t = 1..Len(t) /\ Len(s) \in Nat /\ Len(t) \in Nat
      /\ DOMAIN (s \o t) = 1..(Len(s) + Len(t))
      /\ \A i \in 1..Len(s) : (s \o t)[i] = s[i]
      /\ \A i \in 1..Len(t) : (s \o t)[Len(s) + i] = t[i]
  OBVIOUS
<1>2. \A i \in DOMAIN (s \o t) :
        i \in 1..Len(s) \/ (i - Len(s) \in 1..Len(t) /\ Len(s) + (i - Len(s)) = i)
  BY <1>1
<1>3. \A i \in DOMAIN (s \o t) :
        \/ i \in 1..Len(s) /\ (s \o t)[i] = s[i]
        \/ i - Len(s) \in 1..Len(t) /\ (s \o t)[i] = t[i - Len(s)]
  <2> SUFFICES ASSUME NEW i \in DOMAIN (s \o t)
               PROVE  \/ i \in 1..Len(s) /\ (s \o t)[i] = s[i]
                      \/ i - Len(s) \in 1..Len(t) /\ (s \o t)[i] = t[i - Len(s)]
    OBVIOUS
  <2>1. CASE i \in 1..Len(s)
    BY <1>1, <2>1
  <2>2. ASSUME i - Len(s) \in 1..Len(t), Len(s) + (i - Len(s)) = i
        PROVE  (s \o t)[i] = t[i - Len(s)]
    <3> DEFINE k == i - Len(s)
    <3>1. k \in 1..Len(t) /\ Len(s) + k = i
      BY <2>2
    <3> HIDE DEF k
    <3>2. (s \o t)[Len(s) + k] = t[k]
      BY <1>1, <3>1
    <3> QED BY <3>1, <3>2 DEF k
  <2> QED BY <1>2, <2>1, <2>2
<1> QED BY <1>1, <1>3

LEMMA ConcatSet ==
  ASSUME NEW T, NEW s \in Seq(T), NEW t \in Seq(T)
  PROVE  ToSet(s \o t) = ToSet(s) \cup ToSet(t)
<1>1. DOMAIN s = 1..Len(s) /\ DOMAIN t = 1..Len(t) /\ Len(s) \in Nat /\ Len(t) \in Nat
  OBVIOUS
<1>2. /\ \A i \in 1..Len(s) : i \in 1..(Len(s) + Len(t))
      /\ \A i \in 1..Len(t) : Len(s) + i \in 1..(Len(s) + Len(t))
  BY <1>1
<1>3. ToSet(s) \cup ToSet(t) \subseteq ToSet(s \o t)
  <2>1. /\ DOMAIN (s \o t) = 1..(Len(s) + Len(t))
        /\ \A i \in 1..Len(s) : (s \o t)[i] = s[i]
        /\ \A i \in 1..Len(t) : (s \o t)[Len(s) + i] = t[i]
    BY Concat
  <2> QED BY <1>1, <1>2, <2>1 DEF ToSet
<1>4. ToSet(s \o t) \subseteq ToSet(s) \cup ToSet(t)
  BY <1>1, Concat DEF ToSet
<1> QED BY <1>3, <1>4

\* Two sequences without repetitions and with nothing in common make one without.
LEMMA InjectiveConcat ==
  ASSUME NEW T, NEW s \in Seq(T), NEW t \in Seq(T), IsInjective(s), IsInjective(t),
         \A x \in ToSet(s) : x \notin ToSet(t)
  PROVE  IsInjective(s \o t)
<1>1. /\ DOMAIN s = 1..Len(s) /\ DOMAIN t = 1..Len(t) /\ Len(s) \in Nat /\ Len(t) \in Nat
      /\ DOMAIN (s \o t) = 1..(Len(s) + Len(t))
  BY Concat
<1>3. \A i \in DOMAIN (s \o t) :
        \/ i \in 1..Len(s) /\ (s \o t)[i] = s[i]
        \/ i - Len(s) \in 1..Len(t) /\ (s \o t)[i] = t[i - Len(s)]
  BY Concat
<1>4. \A i \in 1..Len(s), j \in 1..Len(t) : s[i] # t[j]
  BY <1>1 DEF ToSet
<1>5. ASSUME NEW i \in DOMAIN (s \o t), NEW j \in DOMAIN (s \o t), (s \o t)[i] = (s \o t)[j]
      PROVE  i = j
  <2>1. i \in Nat /\ j \in Nat
    BY <1>1
  <2>2. CASE i \in 1..Len(s) /\ (s \o t)[i] = s[i]
    <3>1. j \in 1..Len(s) /\ (s \o t)[j] = s[j]
      BY <1>3, <1>4, <1>5, <2>2
    <3> QED BY <1>1, <1>5, <2>2, <3>1 DEF IsInjective
  <2>3. CASE i - Len(s) \in 1..Len(t) /\ (s \o t)[i] = t[i - Len(s)]
    <3>1. j - Len(s) \in 1..Len(t) /\ (s \o t)[j] = t[j - Len(s)]
      BY <1>3, <1>4, <1>5, <2>3
    <3>2. i - Len(s) = j - Len(s)
      BY <1>1, <1>5, <2>3, <3>1 DEF IsInjective
    <3> QED BY <1>1, <2>1, <3>2
  <2> QED BY <1>3, <2>2, <2>3
<1> QED BY <1>5 DEF IsInjective

-----------------------------------------------------------------------------
(***************************************************************************)
(* The journal.  Where no run overlaps another, what is in the inbox is in *)
(* the journal, or in the memory of whoever will write the journal next,   *)
(* or was filed by a run that has ended before it could.                   *)
(***************************************************************************)

\* An entry is filed under its own name, and only a run has moves to journal.
FilingHolds ==
  \A p \in Sweepers : /\ sweep[p].pc = "rename" => sweep[p].dst[1] = Listed(p).name
                      /\ sweep[p].pc = "idle" => sweep[p].moves = <<>>

\* An undo keeps what it has read apart from what it has undone of it.
UndoHolds ==
  /\ undo.pc \in {"loop", "rename"} => journal = undo.read
  /\ undo.pc # "idle" => \A r \in undo.undone : r.dst \in Slots /\ inbox[r.dst] = Nothing

\* The moves that somebody has a record of.
Recorded == IF undo.pc = "idle"
            THEN ToSet(journal) \cup UNION {ToSet(sweep[p].moves) : p \in Sweepers}
            ELSE ToSet(undo.read) \ undo.undone

Accounted == \A d \in Slots : inbox[d] # Nothing =>
               d \in adrift \/ \E r \in Recorded : r.dst = d /\ r.src = d[1]

Accounting == Typed /\ OneRun /\ FilingHolds /\ UndoHolds /\ Accounted

(***************************************************************************)
(* An undo of everything.                                                  *)
(***************************************************************************)

\* No move is recorded twice: a run has a batch of its own, and meets a name once.
Distinct ==
  /\ IsInjective(journal)
  /\ undo.pc # "idle" => IsInjective(undo.read)
  /\ \A p \in Sweepers : sweep[p].pc # "idle" =>
       /\ IsInjective(sweep[p].moves)
       /\ \A r \in ToSet(sweep[p].moves) :
            /\ r.batch = sweep[p].batch
            /\ \A k \in DOMAIN sweep[p].todo : r.src # sweep[p].todo[k].name
       /\ \A r \in ToSet(journal) : r.batch # sweep[p].batch

\* A record that the undo has been at leaves nothing to do: its item is not in the
\* inbox, or its old name is taken, and not by an item that was filed earlier.
Spent(j) ==
  \/ undo.read[j].dst = NoSlot \/ inbox[undo.read[j].dst] = Nothing
  \/ /\ root[undo.read[j].src] # Nothing
     /\ \A i \in 1..(j - 1) : undo.read[i].src = undo.read[j].src => undo.read[i] \notin undo.undone

\* What is left to undo is the beginning of the journal, backwards.
Backwards ==
  undo.pc # "idle" /\ undo.which = "all" =>
    /\ undo.pc = "write" => undo.left = <<>>
    /\ Len(undo.left) <= Len(undo.read)
    /\ \A k \in 1..Len(undo.left) : undo.left[k] = undo.read[Len(undo.left) + 1 - k]
    /\ \A j \in (Len(undo.left) + 1)..Len(undo.read) : Spent(j)
    /\ \A j \in 1..Len(undo.left) : undo.read[j] \notin undo.undone

Orderly == Steady /\ Distinct /\ Backwards

\* A run that is under way fails.
Fails(p) == sweep[p].pc # "idle" /\ Abort(p)

\* The record of the entry whose turn it is.
MoveTo(p, d) == [src |-> Listed(p).name, dst |-> d, batch |-> sweep[p].batch]

\* A run is done with an entry; it has left it alone, or has moved or removed it.
Passes(p) ==
  /\ sweep[p].pc # "idle" /\ sweep[p].todo # <<>>
  /\ UNCHANGED <<nature, journal, undo, past>>
  /\ \A n \in Names : n # Listed(p).name => root'[n] = root[n]
  /\ \/ sweep' = Advance(p, sweep[p].moves) /\ inbox' = inbox
     \/ sweep' = Advance(p, Append(sweep[p].moves, MoveTo(p, NoSlot))) /\ inbox' = inbox
     \/ /\ sweep[p].pc = "rename"
        /\ sweep' = Advance(p, Append(sweep[p].moves, MoveTo(p, sweep[p].dst)))
        /\ inbox' = [inbox EXCEPT ![sweep[p].dst] = Here(p)]

\* A run has found out what to do with an entry.
Decides(p) ==
  /\ InLoop(p) /\ UNCHANGED <<home, nature, journal, undo, past>>
  /\ \E pc \in {"rmdir", "rename"}, dst \in Slots \cup {NoSlot} :
       /\ sweep' = [sweep EXCEPT ![p].pc = pc, ![p].dst = dst]
       /\ pc = "rename" => dst[1] = Listed(p).name

\* Every step of a sweep is one of these.
LEMMA SweepShape ==
  ASSUME Typed, NEW p \in Sweepers, SweepStep(p)
  PROVE  Passes(p) \/ Decides(p) \/ Finish(p) \/ Fails(p)
<1>r. sweep[p].pc \in {"rmdir", "rename"} => sweep[p].todo # <<>>
  BY DEF Typed, SweepTyped
<1>h. root \in [Names -> Things]
  BY DEF Typed, HomeTyped
<1>1. CASE Skip(p)
  <2>1. sweep[p].pc # "idle" /\ sweep[p].todo # <<>> /\ root' = root /\ inbox' = inbox
    BY <1>1 DEF Skip, InLoop, home
  <2> QED BY <1>1, <2>1 DEF Skip, Passes
<1>2. CASE UnlinkBridge(p)
  <2>1. InLoop(p) /\ Listed(p).link
    BY <1>2 DEF UnlinkBridge, IsBridge
  <2>2. CASE Here(p) \in Dirs \cup {Nothing}
    BY <1>2, <2>1, <2>2 DEF UnlinkBridge, Fails, InLoop
  <2>3. CASE Here(p) \notin Dirs \cup {Nothing}
    <3>1. /\ root' = [root EXCEPT ![Listed(p).name] = Nothing]
          /\ sweep' = Advance(p, sweep[p].moves)
          /\ UNCHANGED <<inbox, nature, journal, undo, past>>
      BY <1>2, <2>3 DEF UnlinkBridge
    <3>2. \A n \in Names : n # Listed(p).name => root'[n] = root[n]
      BY <3>1, <1>h
    <3> QED BY <2>1, <3>1, <3>2 DEF Passes, InLoop
  <2> QED BY <2>2, <2>3
<1>3. CASE FindSkeleton(p)
  <2>1. InLoop(p) /\ sweep' = [sweep EXCEPT ![p].pc = "rmdir"]
        /\ UNCHANGED <<home, nature, journal, undo, past>>
    BY <1>3 DEF FindSkeleton
  <2>2. sweep \in [Sweepers -> Runs] /\ sweep[p] \in Runs
    BY DEF Typed, SweepTyped
  <2>3. sweep' = [sweep EXCEPT ![p].pc = "rmdir", ![p].dst = sweep[p].dst]
    BY <2>1, <2>2 DEF Runs
  <2>4. sweep[p].dst \in Slots \cup {NoSlot}
    BY <2>2 DEF Runs
  <2> QED BY <2>1, <2>3, <2>4 DEF Decides
<1>4. CASE RemoveSkeleton(p)
  <2>1. sweep[p].pc # "idle" /\ sweep[p].todo # <<>> /\ UNCHANGED <<inbox, nature, journal, undo, past>>
    BY <1>4, <1>r DEF RemoveSkeleton
  <2>2. \A n \in Names : n # Listed(p).name => root'[n] = root[n]
    BY <1>4, <1>h DEF RemoveSkeleton
  <2> QED BY <1>4, <2>1, <2>2 DEF RemoveSkeleton, Passes, MoveTo
<1>5. CASE Choose(p)
  <2>1. CASE Vanished(p)
    BY <1>5, <2>1 DEF Choose, Fails, InLoop
  <2>2. CASE ~Vanished(p)
    <3>1. /\ InLoop(p) /\ Free(Listed(p).name) # {}
          /\ UNCHANGED <<home, nature, journal, undo, past>>
          /\ sweep' = [sweep EXCEPT ![p].pc = "rename", ![p].dst = UniqueDestination(Listed(p).name)]
      BY <1>5, <2>2 DEF Choose
    <3>2. UniqueDestination(Listed(p).name)[1] = Listed(p).name
      BY DEF UniqueDestination
    <3>3. UniqueDestination(Listed(p).name) \in Slots
      BY <3>1, ListedTyped, DestinationTyped DEF InLoop
    <3> QED BY <3>1, <3>2, <3>3 DEF Decides
  <2> QED BY <2>1, <2>2
<1>6. CASE File(p)
  <2>1. sweep[p].pc = "rename" /\ sweep[p].pc # "idle" /\ sweep[p].todo # <<>>
    BY <1>6, <1>r DEF File
  <2>2. CASE Here(p) \in stuck \/ ~Renames(Here(p), inbox[sweep[p].dst])
    BY <1>6, <2>1, <2>2 DEF File, Fails, Here
  <2>3. CASE Here(p) \notin stuck /\ Renames(Here(p), inbox[sweep[p].dst])
    <3>1. /\ inbox' = [inbox EXCEPT ![sweep[p].dst] = Here(p)]
          /\ root' = [root EXCEPT ![Listed(p).name] = Nothing]
          /\ sweep' = Advance(p, Append(sweep[p].moves, MoveTo(p, sweep[p].dst)))
          /\ UNCHANGED <<nature, journal, undo, past>>
      BY <1>6, <2>3 DEF File, Here, MoveTo
    <3>2. \A n \in Names : n # Listed(p).name => root'[n] = root[n]
      BY <3>1, <1>h
    <3> QED BY <2>1, <3>1, <3>2 DEF Passes
  <2> QED BY <2>2, <2>3
<1> QED BY <1>1, <1>2, <1>3, <1>4, <1>5, <1>6 DEF SweepStep

\* The entries that come after the one whose turn it is.
LEMMA RestOfList ==
  ASSUME Steady, NEW p \in Sweepers, sweep[p].pc # "idle", sweep[p].todo # <<>>,
         NEW k \in DOMAIN Tail(sweep[p].todo)
  PROVE  /\ k + 1 \in DOMAIN sweep[p].todo /\ Tail(sweep[p].todo)[k] = sweep[p].todo[k + 1]
         /\ sweep[p].todo[k + 1].name \in Names /\ sweep[p].todo[k + 1].name # Listed(p).name
<1>2. sweep[p].todo \in Seq(Entries)
  BY DEF Steady, Typed, SweepTyped, Runs
<1>3. k \in Nat /\ k # 0 /\ k + 1 \in DOMAIN sweep[p].todo /\ 1 \in DOMAIN sweep[p].todo
      /\ Tail(sweep[p].todo)[k] = sweep[p].todo[k + 1]
  BY <1>2
<1>4. sweep[p].todo[k + 1] \in Entries /\ Listed(p) = sweep[p].todo[1]
  BY <1>2, <1>3 DEF Listed
<1>5. k + 1 # 1
  BY <1>3
<1> QED BY <1>3, <1>4, <1>5 DEF Entries, Steady, ListingHolds

\* Where one run is under way, its moves are all the moves there are.
LEMMA OneMover ==
  ASSUME NEW f \in [Sweepers -> Runs], NEW p \in Sweepers,
         \A q \in Sweepers : q # p => f[q].moves = <<>>
  PROVE  UNION {ToSet(f[q].moves) : q \in Sweepers} = ToSet(f[p].moves)
<1>1. ToSet(<<>>) = {}
  BY DEF ToSet
<1> QED BY <1>1

LEMMA NoMover ==
  ASSUME NEW f \in [Sweepers -> Runs], \A q \in Sweepers : f[q].moves = <<>>
  PROVE  UNION {ToSet(f[q].moves) : q \in Sweepers} = {}
<1>1. ToSet(<<>>) = {}
  BY DEF ToSet
<1> QED BY <1>1

LEMMA AppendSet ==
  ASSUME NEW T, NEW s \in Seq(T), NEW x \in T
  PROVE  ToSet(Append(s, x)) = ToSet(s) \cup {x}
<1>1. /\ DOMAIN s = 1..Len(s) /\ Len(s) \in Nat
      /\ DOMAIN Append(s, x) = 1..(Len(s) + 1)
      /\ \A i \in 1..Len(s) : Append(s, x)[i] = s[i]
      /\ Append(s, x)[Len(s) + 1] = x
  OBVIOUS
<1>2. \A i \in 1..(Len(s) + 1) : i \in 1..Len(s) \/ i = Len(s) + 1
  BY <1>1
<1>3. (\A i \in 1..Len(s) : i \in 1..(Len(s) + 1)) /\ Len(s) + 1 \in 1..(Len(s) + 1)
  BY <1>1
<1> QED BY <1>1, <1>2, <1>3 DEF ToSet

LEMMA AdvanceMeans ==
  ASSUME Typed, NEW p \in Sweepers, NEW m, sweep' = Advance(p, m)
  PROVE  /\ sweep'[p].pc = "loop" /\ sweep'[p].todo = Tail(sweep[p].todo)
         /\ sweep'[p].moves = m /\ sweep'[p].batch = sweep[p].batch
         /\ \A q \in Sweepers : q # p => sweep'[q] = sweep[q]
BY DEF Advance, Typed, SweepTyped, Runs

LEMMA MoveTyped ==
  ASSUME Typed, NEW p \in Sweepers, sweep[p].todo # <<>>, NEW d \in Slots \cup {NoSlot}
  PROVE  /\ MoveTo(p, d) \in Records /\ MoveTo(p, d).src = Listed(p).name
         /\ MoveTo(p, d).dst = d /\ MoveTo(p, d).batch = sweep[p].batch
BY ListedTyped DEF MoveTo, Records, Typed, SweepTyped, Runs

\* Nobody but the run whose turn it is has any moves.
LEMMA TheMover ==
  ASSUME Typed, OneRun, FilingHolds, NEW p \in Sweepers, sweep[p].pc # "idle"
  PROVE  /\ undo.pc = "idle" /\ Recorded = ToSet(journal) \cup ToSet(sweep[p].moves)
         /\ \A q \in Sweepers : q # p => sweep[q].pc = "idle" /\ sweep[q].moves = <<>>
<1>1. undo.pc = "idle" /\ \A q \in Sweepers : q # p => sweep[q].pc = "idle"
  BY Turn
<1>2. \A q \in Sweepers : q # p => sweep[q].moves = <<>>
  BY <1>1 DEF FilingHolds
<1>3. UNION {ToSet(sweep[q].moves) : q \in Sweepers} = ToSet(sweep[p].moves)
  BY <1>2, OneMover DEF Typed, SweepTyped
<1> QED BY <1>1, <1>2, <1>3 DEF Recorded

\* What a run has a record of, or had, stays accounted for when it goes on.
LEMMA PassAccounts ==
  ASSUME Accounting, Typed', OneRun', NEW p \in Sweepers, Passes(p)
  PROVE  Accounting'
<1>t. Typed /\ Typed' /\ OneRun
  BY DEF Accounting
<1>1. /\ sweep[p].pc # "idle" /\ sweep[p].todo # <<>> /\ journal' = journal /\ undo' = undo
      /\ \A n \in Names : n # Listed(p).name => root'[n] = root[n]
  BY DEF Passes
<1>2. /\ undo.pc = "idle" /\ Recorded = ToSet(journal) \cup ToSet(sweep[p].moves)
      /\ \A q \in Sweepers : q # p => sweep[q].pc = "idle" /\ sweep[q].moves = <<>>
  BY <1>1, <1>t, TheMover DEF Accounting
<1>3. PICK m : sweep' = Advance(p, m)
  BY DEF Passes
<1>4. /\ sweep'[p].pc = "loop" /\ sweep'[p].todo = Tail(sweep[p].todo) /\ sweep'[p].moves = m
      /\ \A q \in Sweepers : q # p => sweep'[q] = sweep[q]
  BY <1>3, <1>t, AdvanceMeans
<1>6. FilingHolds'
  BY <1>2, <1>4 DEF FilingHolds
<1>7. UndoHolds'
  BY <1>1, <1>2 DEF UndoHolds
<1>8. Recorded' = ToSet(journal) \cup ToSet(m)
  <2>1. sweep' \in [Sweepers -> Runs]
    BY <1>t DEF Typed, SweepTyped
  <2>2. UNION {ToSet(sweep'[q].moves) : q \in Sweepers} = ToSet(m)
    BY <1>2, <1>4, <2>1, OneMover
  <2> QED BY <1>1, <1>2, <2>2 DEF Recorded
<1>m. sweep[p].moves \in Seq(Records)
  BY <1>t DEF Typed, SweepTyped, Runs
<1>9. Accounted'
  <2> SUFFICES ASSUME NEW d \in Slots, inbox'[d] # Nothing, d \notin adrift
               PROVE  \E r \in ToSet(journal) \cup ToSet(m) : r.dst = d /\ r.src = d[1]
    BY <1>8 DEF Accounted, Passes, past
  <2>1. inbox[d] # Nothing => \E r \in ToSet(journal) \cup ToSet(sweep[p].moves) : r.dst = d /\ r.src = d[1]
    BY <1>2 DEF Accounting, Accounted
  <2>2. CASE m = sweep[p].moves /\ inbox' = inbox
    BY <2>1, <2>2
  <2>3. CASE m = Append(sweep[p].moves, MoveTo(p, NoSlot)) /\ inbox' = inbox
    <3>1. MoveTo(p, NoSlot) \in Records
      BY <1>1, <1>t, MoveTyped
    <3>2. ToSet(sweep[p].moves) \subseteq ToSet(m)
      BY <2>3, <3>1, <1>m, AppendSet
    <3> QED BY <2>1, <2>3, <3>2
  <2>4. CASE /\ sweep[p].pc = "rename" /\ m = Append(sweep[p].moves, MoveTo(p, sweep[p].dst))
             /\ inbox' = [inbox EXCEPT ![sweep[p].dst] = Here(p)]
    <3>1. sweep[p].dst \in Slots /\ sweep[p].dst[1] = Listed(p).name
      BY <2>4, <1>t DEF Typed, SweepTyped, Accounting, FilingHolds
    <3>2. /\ MoveTo(p, sweep[p].dst) \in Records
          /\ MoveTo(p, sweep[p].dst).src = Listed(p).name /\ MoveTo(p, sweep[p].dst).dst = sweep[p].dst
      BY <1>1, <1>t, <3>1, MoveTyped
    <3>3. ToSet(m) = ToSet(sweep[p].moves) \cup {MoveTo(p, sweep[p].dst)}
      BY <2>4, <3>2, <1>m, AppendSet
    <3>4. CASE d = sweep[p].dst
      BY <3>1, <3>2, <3>3, <3>4
    <3>5. CASE d # sweep[p].dst
      <4>1. inbox'[d] = inbox[d]
        BY <2>4, <3>5, <1>t DEF Typed, HomeTyped
      <4> QED BY <2>1, <3>3, <4>1
    <3> QED BY <3>4, <3>5
  <2>5. \/ m = sweep[p].moves /\ inbox' = inbox
        \/ m = Append(sweep[p].moves, MoveTo(p, NoSlot)) /\ inbox' = inbox
        \/ /\ sweep[p].pc = "rename" /\ m = Append(sweep[p].moves, MoveTo(p, sweep[p].dst))
           /\ inbox' = [inbox EXCEPT ![sweep[p].dst] = Here(p)]
    <3>1. \A x : sweep' = Advance(p, x) => x = m
      BY <1>4, <1>t, AdvanceMeans
    <3> QED BY <3>1 DEF Passes
  <2> QED BY <2>2, <2>3, <2>4, <2>5
<1> QED BY <1>6, <1>7, <1>9 DEF Accounting

\* Where no run starts while another is under way, no two are.
LEMMA SweepAlone ==
  ASSUME Typed, OneRun, NEW p \in Sweepers, SweepStep(p)
  PROVE  OneRun'
<1>1. sweep[p].pc # "idle" /\ undo' = undo /\ \A q \in Sweepers : q # p => sweep'[q] = sweep[q]
  <2>1. CASE Passes(p)
    BY <2>1 DEF Passes, Advance, Typed, SweepTyped
  <2>2. CASE Decides(p)
    BY <2>2 DEF Decides, InLoop, Typed, SweepTyped
  <2>3. CASE Finish(p) \/ Fails(p)
    BY <2>3 DEF Finish, Fails, Abort, Typed, SweepTyped
  <2> QED BY <2>1, <2>2, <2>3, SweepShape
<1>2. undo.pc = "idle" /\ \A q \in Sweepers : q # p => sweep[q].pc = "idle"
  BY <1>1, Turn
<1> QED BY <1>1, <1>2 DEF OneRun

LEMMA StartAlone ==
  ASSUME Overlap = "never", Typed, NEW p \in Sweepers, Start(p)
  PROVE  OneRun'
<1>1. undo.pc = "idle" /\ undo' = undo /\ \A q \in Sweepers : sweep[q].pc = "idle"
  BY DEF Start, MayStart, Quiet
<1>2. \A q \in Sweepers : q # p => sweep'[q] = sweep[q]
  BY DEF Start, Typed, SweepTyped
<1> QED BY <1>1, <1>2 DEF OneRun

LEMMA SweepAccounts ==
  ASSUME Accounting, NEW p \in Sweepers, SweepStep(p)
  PROVE  Accounting'
<1>t. Typed /\ OneRun /\ Typed' /\ OneRun'
  BY SweepStepTyped, SweepAlone DEF Accounting
<1>u. sweep \in [Sweepers -> Runs] /\ sweep' \in [Sweepers -> Runs]
  BY <1>t DEF Typed, SweepTyped
<1>1. CASE Passes(p)
  BY <1>1, <1>t, PassAccounts
<1>2. CASE Decides(p)
  <2>1. PICK pc \in {"rmdir", "rename"}, dst \in Slots \cup {NoSlot} :
          /\ sweep' = [sweep EXCEPT ![p].pc = pc, ![p].dst = dst]
          /\ pc = "rename" => dst[1] = Listed(p).name
    BY <1>2 DEF Decides
  <2>2. /\ sweep'[p].pc = pc /\ sweep'[p].dst = dst /\ sweep'[p].todo = sweep[p].todo
        /\ sweep'[p].moves = sweep[p].moves
        /\ \A q \in Sweepers : q # p => sweep'[q] = sweep[q]
    BY <2>1, <1>u DEF Runs
  <2>3. /\ inbox' = inbox /\ journal' = journal /\ undo' = undo /\ adrift' = adrift
        /\ sweep[p].pc # "idle"
    BY <1>2 DEF Decides, InLoop, home, past
  <2>4. \A q \in Sweepers : sweep'[q].moves = sweep[q].moves
    BY <2>2
  <2>5. Recorded' = Recorded
    BY <2>3, <2>4 DEF Recorded
  <2>6. Listed(p)' = Listed(p)
    BY <2>2 DEF Listed
  <2>8. FilingHolds'
    <3>1. \A q \in Sweepers : q # p => Listed(q)' = Listed(q)
      BY <2>2 DEF Listed
    <3> QED BY <2>1, <2>2, <2>6, <3>1 DEF Accounting, FilingHolds
  <2>9. UndoHolds' /\ Accounted'
    BY <2>3, <2>5 DEF Accounting, UndoHolds, Accounted
  <2> QED BY <1>t, <2>8, <2>9 DEF Accounting
<1>3. CASE Finish(p) \/ Fails(p)
  <2>1. /\ sweep[p].pc # "idle" /\ sweep' = [sweep EXCEPT ![p] = NoSweep]
        /\ inbox' = inbox /\ undo' = undo
    BY <1>3 DEF Finish, Fails, Abort, home
  <2>2. /\ undo.pc = "idle" /\ Recorded = ToSet(journal) \cup ToSet(sweep[p].moves)
        /\ \A q \in Sweepers : q # p => sweep[q].pc = "idle" /\ sweep[q].moves = <<>>
    BY <2>1, <1>t, TheMover DEF Accounting
  <2>3. \A q \in Sweepers : sweep'[q].pc = "idle" /\ sweep'[q].moves = <<>>
    BY <2>1, <2>2, <1>u DEF NoSweep
  <2>4. Recorded' = ToSet(journal')
    BY <2>1, <2>2, <2>3, <1>u, NoMover DEF Recorded
  <2>5. CASE Finish(p)
    <3>1. journal' = journal \o sweep[p].moves /\ adrift' = adrift
      BY <2>5 DEF Finish, past
    <3>2. ToSet(journal') = ToSet(journal) \cup ToSet(sweep[p].moves)
      BY <3>1, <1>t, ConcatSet DEF Typed, JournalTyped, SweepTyped, Runs
    <3>3. Accounted'
      BY <2>1, <2>2, <2>4, <3>1, <3>2 DEF Accounting, Accounted
    <3> QED BY <1>t, <2>1, <2>2, <2>3, <3>3 DEF Accounting, FilingHolds, UndoHolds
  <2>6. CASE Fails(p)
    <3>1. journal' = journal /\ adrift' = adrift \cup FiledTo(ToSet(sweep[p].moves))
      BY <2>6 DEF Fails, Abort
    <3>2. ASSUME NEW d \in Slots, inbox[d] # Nothing, NEW m \in ToSet(sweep[p].moves), m.dst = d
          PROVE  d \in adrift'
      BY <3>1, <3>2 DEF FiledTo
    <3>3. Accounted'
      BY <2>1, <2>2, <2>4, <3>1, <3>2 DEF Accounting, Accounted
    <3> QED BY <1>t, <2>1, <2>2, <2>3, <3>3 DEF Accounting, FilingHolds, UndoHolds
  <2> QED BY <1>3, <2>5, <2>6
<1> QED BY <1>1, <1>2, <1>3, <1>t, SweepShape

\* A run that starts has no moves yet.
LEMMA StartAccounts ==
  ASSUME Overlap = "never", Accounting, NEW p \in Sweepers, Start(p)
  PROVE  Accounting'
<1>t. Typed /\ Typed' /\ OneRun'
  BY StartTyped, StartAlone DEF Accounting
<1>1. sweep'[p].pc = "loop" /\ sweep'[p].moves = <<>>
      /\ \A q \in Sweepers : q # p => sweep'[q] = sweep[q]
  BY <1>t DEF Start, Typed, SweepTyped
<1>2. /\ undo.pc = "idle" /\ \A q \in Sweepers : sweep[q].pc = "idle" /\ sweep[q].moves = <<>>
      /\ inbox' = inbox /\ journal' = journal /\ undo' = undo /\ adrift' = adrift
  BY DEF Start, MayStart, Quiet, home, past, Accounting, FilingHolds
<1>3. Recorded' = Recorded
  <2>1. \A q \in Sweepers : sweep'[q].moves = sweep[q].moves
    BY <1>1, <1>2
  <2> QED BY <1>2, <2>1 DEF Recorded
<1>4. FilingHolds'
  BY <1>1, <1>2 DEF FilingHolds
<1>5. UndoHolds' /\ Accounted'
  BY <1>2, <1>3 DEF Accounting, UndoHolds, Accounted
<1> QED BY <1>t, <1>4, <1>5 DEF Accounting

LEMMA UndoAccounts ==
  ASSUME Overlap = "never", Accounting, UndoStep \/ \E B : UndoStart(B)
  PROVE  Accounting'
<1>t. Typed /\ OneRun /\ Typed'
  BY UndoStepTyped, UndoStartTyped DEF Accounting
<1>s. UNCHANGED sweep /\ \A p \in Sweepers : sweep[p].pc = "idle" /\ sweep[p].moves = <<>>
  <2>1. UNCHANGED sweep
    BY DEF UndoStep, UndoStart, UndoSkip, UndoChoose, Restore, UndoAbort, Truncate, WriteBack
  <2>2. undo.pc # "idle" \/ Quiet
    BY DEF UndoStep, UndoStart, UndoSkip, UndoChoose, Restore, Truncate, WriteBack, MayStart
  <2>3. \A p \in Sweepers : sweep[p].pc = "idle"
    BY <1>t, <2>2, Turn DEF Quiet
  <2> QED BY <2>1, <2>3 DEF Accounting, FilingHolds
<1>m. UNION {ToSet(sweep[p].moves) : p \in Sweepers} = {}
  BY <1>s, <1>t, NoMover DEF Typed, SweepTyped
<1>i. undo'.pc = "idle" => Recorded' = ToSet(journal')
  BY <1>s, <1>m DEF Recorded
<1>r. undo = [pc |-> undo.pc, which |-> undo.which, read |-> undo.read, left |-> undo.left,
              undone |-> undo.undone]
  BY <1>t DEF Typed, UndoTyped
<1>q. undo.read \in Seq(Records) /\ undo.undone \subseteq ToSet(undo.read)
  BY <1>t DEF Typed, UndoTyped
<1>1. ASSUME NEW B, UndoStart(B) PROVE UndoHolds' /\ Accounted'
  <2>a. adrift' = adrift
    BY <1>1 DEF UndoStart, past
  <2>1. /\ undo.pc = "idle" /\ inbox' = inbox /\ journal' = journal
        /\ undo'.pc = "loop" /\ undo'.read = journal /\ undo'.undone = {}
    BY <1>1 DEF UndoStart, home
  <2>2. Recorded' = ToSet(journal) /\ Recorded = ToSet(journal)
    BY <1>m, <2>1 DEF Recorded
  <2> QED BY <2>1, <2>2, <2>a DEF Accounting, UndoHolds, Accounted
<1>2. ASSUME UndoSkip \/ UndoChoose PROVE UndoHolds' /\ Accounted'
  <2>a. adrift' = adrift
    BY <1>2 DEF UndoSkip, UndoChoose, past
  <2>1. /\ undo.pc = "loop" /\ inbox' = inbox /\ journal' = journal
        /\ undo'.pc \in {"loop", "rename"} /\ undo'.read = undo.read /\ undo'.undone = undo.undone
    BY <1>2, <1>r DEF UndoSkip, UndoChoose, home
  <2>2. Recorded' = Recorded
    BY <2>1 DEF Recorded
  <2> QED BY <2>1, <2>2, <2>a DEF Accounting, UndoHolds, Accounted
<1>3. ASSUME UndoAbort /\ undo.pc = "rename" PROVE UndoHolds' /\ Accounted'
  <2>a. adrift' = adrift
    BY <1>3 DEF UndoAbort, past
  <2>1. inbox' = inbox /\ journal' = journal /\ undo'.pc = "idle"
    BY <1>3 DEF UndoAbort, NoUndo, home
  <2>2. Recorded' = ToSet(journal) /\ Recorded \subseteq ToSet(journal)
    BY <1>3, <1>i, <2>1 DEF Recorded, Accounting, UndoHolds
  <2> QED BY <2>1, <2>2, <2>a DEF Accounting, UndoHolds, Accounted
<1>4. ASSUME Restore /\ ~UndoAbort PROVE UndoHolds' /\ Accounted'
  <2>1. /\ undo.pc = "rename" /\ inbox' = [inbox EXCEPT ![Undoing.dst] = Nothing]
        /\ journal' = journal /\ undo'.pc = "loop" /\ undo'.read = undo.read
        /\ undo'.undone = undo.undone \cup {Undoing}
        /\ adrift' = adrift \ {Undoing.dst}
    BY <1>4, <1>r DEF Restore
  <2>2. Undoing.dst \in Slots
    BY <2>1, <1>t DEF Undoing, Typed, UndoTyped
  <2>3. inbox'[Undoing.dst] = Nothing /\ \A d \in Slots : d # Undoing.dst => inbox'[d] = inbox[d]
    BY <2>1, <2>2, <1>t DEF Typed, HomeTyped
  <2>4. Recorded = ToSet(undo.read) \ undo.undone
        /\ Recorded' = ToSet(undo.read) \ (undo.undone \cup {Undoing})
    BY <2>1 DEF Recorded
  <2>5. UndoHolds'
    BY <2>1, <2>2, <2>3 DEF Accounting, UndoHolds
  <2>6. Accounted'
    BY <2>1, <2>3, <2>4 DEF Accounting, Accounted
  <2> QED BY <2>5, <2>6
<1>5. ASSUME Truncate PROVE UndoHolds' /\ Accounted'
  <2>a. adrift' = adrift
    BY <1>5 DEF Truncate, past
  <2>1. /\ undo.pc = "loop" /\ inbox' = inbox
        /\ undo'.pc = "write" /\ undo'.read = undo.read /\ undo'.undone = undo.undone
    BY <1>5, <1>r DEF Truncate, home
  <2>2. Recorded' = Recorded
    BY <2>1 DEF Recorded
  <2> QED BY <2>1, <2>2, <2>a DEF Accounting, UndoHolds, Accounted
<1>6. ASSUME WriteBack PROVE UndoHolds' /\ Accounted'
  <2>a. adrift' = adrift
    BY <1>6 DEF WriteBack, past
  <2> DEFINE S == {i \in DOMAIN undo.read : undo.read[i] \notin undo.undone}
  <2>1. /\ undo.pc = "write" /\ inbox' = inbox /\ undo'.pc = "idle"
        /\ journal' \in InOrder(undo.read, S) /\ S \in SUBSET DOMAIN undo.read
    BY <1>6 DEF WriteBack, NoUndo, home
  <2>2. {undo.read[i] : i \in S} = ToSet(undo.read) \ undo.undone
    BY DEF ToSet
  <2> HIDE DEF S
  <2>3. ToSet(journal') = ToSet(undo.read) \ undo.undone
    BY <2>1, <2>2, <1>q, InOrderOf
  <2>4. Recorded' = Recorded
    BY <2>1, <2>3, <1>i DEF Recorded
  <2> QED BY <2>1, <2>4, <2>a DEF Accounting, UndoHolds, Accounted
<1>7. UndoHolds' /\ Accounted'
  <2>1. Restore => undo.pc = "rename"
    BY DEF Restore
  <2> QED BY <1>1, <1>2, <1>3, <1>4, <1>5, <1>6, <2>1 DEF UndoStep
<1>8. OneRun' /\ FilingHolds'
  BY <1>s DEF OneRun, FilingHolds
<1> QED BY <1>7, <1>8, <1>t DEF Accounting

\* The user takes things out of the inbox, and puts none in.
LEMMA UserAccounts ==
  ASSUME Accounting, User
  PROVE  Accounting'
<1>t. Typed /\ Typed'
  BY UserTyped DEF Accounting
<1>1. UNCHANGED <<sweep, undo, journal>>
  BY <1>t, UserTyped
<1>2. \/ inbox' = inbox /\ adrift' = adrift
      \/ \E s \in Slots : inbox' = [inbox EXCEPT ![s] = Nothing] /\ adrift' = adrift \ {s}
  BY DEF User, Create, Age, Fill, Reconcile, Pin, Discard, Triage, Expire, Migration, home, past
<1>3. \A d \in Slots : /\ inbox[d] = Nothing => inbox'[d] = Nothing
                       /\ inbox'[d] # Nothing /\ d \in adrift => d \in adrift'
  BY <1>2, <1>t DEF Typed, HomeTyped
<1>4. Recorded' = Recorded
  BY <1>1 DEF Recorded
<1>5. Accounted'
  BY <1>3, <1>4 DEF Accounting, Accounted
<1>6. UndoHolds'
  BY <1>1, <1>3 DEF Accounting, UndoHolds
<1>7. OneRun' /\ FilingHolds'
  BY <1>1 DEF Accounting, OneRun, FilingHolds, Listed
<1> QED BY <1>t, <1>5, <1>6, <1>7 DEF Accounting

\* A kill, of runs or of checks only.
Killed == /\ UNCHANGED <<home, nature, journal>>
          /\ crashes < MaxCrashes /\ crashes' = crashes + 1
          /\ adrift' = adrift \cup FiledTo(Unwritten)
          /\ sweep' = [p \in Sweepers |-> NoSweep] /\ undo' = NoUndo

LEMMA KilledTyped ==
  ASSUME Typed, Killed
  PROVE  Typed'
<1>1. NoSweep \in Runs /\ NoSweep.pc = "idle"
  BY DEF NoSweep, Runs
<1>2. SweepTyped'
  BY <1>1 DEF Killed, SweepTyped
<1>3. UndoTyped'
  BY DEF Killed, UndoTyped, NoUndo
<1>4. PastTyped'
  BY SweepConstants DEF Killed, FiledTo, Typed, PastTyped
<1> QED BY <1>2, <1>3, <1>4, Frame DEF Typed, Killed

\* What only the memory of a killed run tells of is counted as adrift.
LEMMA KilledAccounts ==
  ASSUME Accounting, Killed
  PROVE  Accounting'
<1>t. Typed /\ Typed'
  BY KilledTyped DEF Accounting
<1>1. /\ inbox' = inbox /\ journal' = journal /\ undo'.pc = "idle"
      /\ \A p \in Sweepers : sweep'[p].pc = "idle" /\ sweep'[p].moves = <<>>
  BY DEF Killed, home, NoSweep, NoUndo
<1>2. Recorded' = ToSet(journal)
  BY <1>1, <1>t, NoMover DEF Recorded, Typed, SweepTyped
<1>3. \A d \in Slots, m \in Unwritten : inbox[d] # Nothing /\ m.dst = d => d \in adrift'
  BY DEF Killed, FiledTo
<1>4. Recorded \subseteq ToSet(journal) \cup Unwritten
  <2>1. CASE undo.pc \in {"loop", "rename"}
    BY <2>1 DEF Recorded, Accounting, UndoHolds
  <2>2. CASE undo.pc \in {"idle", "write"}
    BY <2>2 DEF Recorded, Unwritten
  <2> QED BY <2>1, <2>2, <1>t DEF Typed, UndoTyped
<1>5. adrift \subseteq adrift'
  BY DEF Killed
<1>6. Accounted'
  BY <1>1, <1>2, <1>3, <1>4, <1>5 DEF Accounting, Accounted
<1>7. OneRun' /\ FilingHolds' /\ UndoHolds'
  BY <1>1 DEF OneRun, FilingHolds, UndoHolds
<1> QED BY <1>t, <1>6, <1>7 DEF Accounting

LEMMA InitAccounts == Init => Accounting
<1> SUFFICES ASSUME Init PROVE Accounting
  OBVIOUS
<1>1. Typed
  BY InitTyped
<1>2. \A d \in Slots : inbox[d] = Nothing
  BY DEF Init
<1> QED BY <1>1, <1>2 DEF Init, NoSweep, NoUndo, Accounting, OneRun, FilingHolds, UndoHolds, Accounted

LEMMA NextAccounts ==
  ASSUME Overlap = "never", Accounting, [Next]_vars
  PROVE  Accounting'
<1>1. CASE Next
  <2>1. Crash => Killed
    BY DEF Crash, Killed
  <2> QED BY <1>1, <2>1, StartAccounts, SweepAccounts, UndoAccounts, UserAccounts, KilledAccounts
          DEF Next, Unkilled
<1>2. CASE UNCHANGED vars
  <2>1. Typed'
    BY <1>2, Frame DEF Accounting, Typed, vars, home, nature
  <2> QED BY <1>2, <2>1 DEF Accounting, OneRun, FilingHolds, UndoHolds, Accounted, Recorded,
            Listed, vars, home, past
<1> QED BY <1>1, <1>2

LEMMA AccountingGives == Accounting => JournalComplete
<1> SUFFICES ASSUME Accounting, Quiet, NEW n \in Names, NEW k \in 0..MaxSuffix,
                    inbox[<<n, k>>] # Nothing, <<n, k>> \notin adrift
             PROVE  \E r \in ToSet(journal) : r.src = n /\ r.dst = <<n, k>>
  BY DEF JournalComplete, Journaled
<1>1. UNION {ToSet(sweep[p].moves) : p \in Sweepers} = {}
  BY NoMover DEF Quiet, Accounting, FilingHolds, Typed, SweepTyped
<1>2. Recorded = ToSet(journal)
  BY <1>1 DEF Recorded, Quiet
<1>3. <<n, k>> \in Slots /\ <<n, k>>[1] = n
  BY DEF Slots
<1> QED BY <1>2, <1>3 DEF Accounting, Accounted

\* Where no run overlaps another: between the runs the journal tells of everything in the
\* inbox where it came from, whatever has been swept, undone, triaged and killed before; but
\* for what a run had filed that failed or was killed with its moves in its memory only.
THEOREM JournalIsComplete == ASSUME Overlap = "never" PROVE Spec => []JournalComplete
<1>1. Accounting /\ [Next]_vars => Accounting'
  BY NextAccounts
<1> QED BY <1>1, InitAccounts, AccountingGives, PTL DEF Spec

-----------------------------------------------------------------------------
(***************************************************************************)
(* Undoing everything.  Kills do no harm here.                             *)
(***************************************************************************)

LEMMA InjectiveAppend ==
  ASSUME NEW T, NEW s \in Seq(T), NEW x \in T, IsInjective(s), x \notin ToSet(s)
  PROVE  IsInjective(Append(s, x))
<1>1. /\ DOMAIN s = 1..Len(s) /\ Len(s) \in Nat
      /\ DOMAIN Append(s, x) = 1..(Len(s) + 1)
      /\ \A i \in 1..Len(s) : Append(s, x)[i] = s[i]
      /\ Append(s, x)[Len(s) + 1] = x
  OBVIOUS
<1>2. \A i \in 1..(Len(s) + 1) : i \in 1..Len(s) \/ i = Len(s) + 1
  BY <1>1
<1>3. \A i \in 1..Len(s) : s[i] # x
  BY <1>1 DEF ToSet
<1>4. ASSUME NEW i \in 1..(Len(s) + 1), NEW j \in 1..(Len(s) + 1), Append(s, x)[i] = Append(s, x)[j]
      PROVE  i = j
  BY <1>1, <1>2, <1>3, <1>4 DEF IsInjective
<1> QED BY <1>1, <1>4 DEF IsInjective

\* One step down a sequence that is the beginning of another, backwards.
LEMMA StepBack ==
  ASSUME NEW T, NEW read \in Seq(T), NEW left \in Seq(T), left # <<>>, Len(left) <= Len(read),
         \A k \in 1..Len(left) : left[k] = read[Len(left) + 1 - k]
  PROVE  /\ Len(left) \in 1..Len(read) /\ Head(left) = read[Len(left)]
         /\ Len(Tail(left)) = Len(left) - 1
         /\ \A k \in 1..Len(Tail(left)) : Tail(left)[k] = read[Len(Tail(left)) + 1 - k]
<1>1. /\ Len(left) \in Nat /\ Len(read) \in Nat /\ Len(left) # 0
      /\ Head(left) = left[1] /\ Len(Tail(left)) = Len(left) - 1
  OBVIOUS
<1>2. 1 \in 1..Len(left) /\ Len(left) + 1 - 1 = Len(left) /\ Len(left) \in 1..Len(read)
  BY <1>1
<1>3. Head(left) = read[Len(left)]
  BY <1>1, <1>2
<1>a. \A n \in Nat : \A k \in 1..(n - 1) : k + 1 \in 1..n /\ n + 1 - (k + 1) = n - 1 + 1 - k
  OBVIOUS
<1>4. ASSUME NEW k \in 1..(Len(left) - 1)
      PROVE  Tail(left)[k] = read[Len(left) - 1 + 1 - k]
  <2>1. k + 1 \in 1..Len(left) /\ Len(left) + 1 - (k + 1) = Len(left) - 1 + 1 - k
    BY <1>1, <1>a
  <2>2. Tail(left)[k] = left[k + 1]
    BY <1>1
  <2> QED BY <2>1, <2>2
<1> QED BY <1>1, <1>2, <1>3, <1>4

\* A run adds a record of its own batch, under a name that it has not met before.
LEMMA SweepDistinct ==
  ASSUME Steady, Distinct, NEW p \in Sweepers, SweepStep(p)
  PROVE  Distinct'
<1>t. Typed
  BY DEF Steady
<1>u. sweep \in [Sweepers -> Runs] /\ sweep[p].moves \in Seq(Records)
  BY <1>t DEF Typed, SweepTyped, Runs
<1>p. sweep[p].pc # "idle" =>
        undo.pc = "idle" /\ \A q \in Sweepers : q # p => sweep[q].pc = "idle"
  BY Turn DEF Steady
<1>1. CASE Passes(p)
  <2>1. /\ sweep[p].pc # "idle" /\ sweep[p].todo # <<>> /\ journal' = journal /\ undo' = undo
    BY <1>1 DEF Passes
  <2>2. PICK m : /\ sweep' = Advance(p, m)
                 /\ m = sweep[p].moves \/
                    \E d \in Slots \cup {NoSlot} : m = Append(sweep[p].moves, MoveTo(p, d))
    BY <1>1, <1>t DEF Passes, Typed, SweepTyped
  <2>3. /\ sweep'[p].pc = "loop" /\ sweep'[p].todo = Tail(sweep[p].todo)
        /\ sweep'[p].moves = m /\ sweep'[p].batch = sweep[p].batch
        /\ \A q \in Sweepers : q # p => sweep'[q] = sweep[q]
    BY <2>2, <1>t, AdvanceMeans
  <2>4. \A r \in ToSet(sweep[p].moves) :
          /\ r.batch = sweep[p].batch
          /\ \A k \in DOMAIN sweep[p].todo : r.src # sweep[p].todo[k].name
    BY <2>1 DEF Distinct
  <2>5. Listed(p) = sweep[p].todo[1] /\ 1 \in DOMAIN sweep[p].todo
    BY <2>1, <1>u DEF Runs, Listed
  <2>6. IsInjective(sweep[p].moves)
    BY <2>1 DEF Distinct
  <2>7. IsInjective(m) /\ \A r \in ToSet(m) :
          r.batch = sweep[p].batch /\ (r \in ToSet(sweep[p].moves) \/ r.src = Listed(p).name)
    <3>1. CASE m = sweep[p].moves
      BY <3>1, <2>4, <2>6
    <3>2. ASSUME NEW d \in Slots \cup {NoSlot}, m = Append(sweep[p].moves, MoveTo(p, d))
          PROVE  IsInjective(m) /\ \A r \in ToSet(m) :
                   r.batch = sweep[p].batch /\ (r \in ToSet(sweep[p].moves) \/ r.src = Listed(p).name)
      <4>1. /\ MoveTo(p, d) \in Records /\ MoveTo(p, d).src = Listed(p).name
            /\ MoveTo(p, d).batch = sweep[p].batch
        BY <2>1, <1>t, MoveTyped
      <4>2. MoveTo(p, d) \notin ToSet(sweep[p].moves)
        BY <2>4, <2>5, <4>1
      <4>3. ToSet(m) = ToSet(sweep[p].moves) \cup {MoveTo(p, d)}
        BY <3>2, <4>1, <1>u, AppendSet
      <4>4. IsInjective(m)
        BY <3>2, <4>1, <4>2, <2>6, <1>u, InjectiveAppend
      <4> QED BY <4>1, <4>3, <4>4, <2>4
    <3> QED BY <2>2, <3>1, <3>2
  <2>8. ASSUME NEW r \in ToSet(m), NEW k \in DOMAIN Tail(sweep[p].todo)
        PROVE  r.src # Tail(sweep[p].todo)[k].name
    <3>1. /\ k + 1 \in DOMAIN sweep[p].todo /\ Tail(sweep[p].todo)[k] = sweep[p].todo[k + 1]
          /\ sweep[p].todo[k + 1].name # Listed(p).name
      BY <2>1, RestOfList
    <3> QED BY <2>4, <2>7, <3>1
  <2>9. \A r \in ToSet(journal) : r.batch # sweep[p].batch
    BY <2>1 DEF Distinct
  <2>10. \A q \in Sweepers : q # p => sweep'[q].pc = "idle"
    BY <1>p, <2>1, <2>3
  <2>11. IsInjective(journal') /\ undo'.pc = "idle"
    BY <1>p, <2>1 DEF Distinct
  <2>12. ASSUME NEW q \in Sweepers, sweep'[q].pc # "idle"
         PROVE  /\ IsInjective(sweep'[q].moves)
                /\ \A r \in ToSet(sweep'[q].moves) :
                     /\ r.batch = sweep'[q].batch
                     /\ \A k \in DOMAIN sweep'[q].todo : r.src # sweep'[q].todo[k].name
                /\ \A r \in ToSet(journal') : r.batch # sweep'[q].batch
    <3>1. q = p
      BY <2>10, <2>12
    <3> QED BY <3>1, <2>1, <2>3, <2>7, <2>8, <2>9
  <2> QED BY <2>11, <2>12 DEF Distinct
<1>2. CASE Decides(p)
  <2>1. PICK pc \in {"rmdir", "rename"}, dst \in Slots \cup {NoSlot} :
          sweep' = [sweep EXCEPT ![p].pc = pc, ![p].dst = dst]
    BY <1>2 DEF Decides
  <2>2. /\ sweep'[p].todo = sweep[p].todo /\ sweep'[p].moves = sweep[p].moves
        /\ sweep'[p].batch = sweep[p].batch
        /\ \A q \in Sweepers : q # p => sweep'[q] = sweep[q]
    BY <2>1, <1>u DEF Runs
  <2>3. journal' = journal /\ undo' = undo /\ sweep[p].pc # "idle"
    BY <1>2 DEF Decides, InLoop
  <2> QED BY <1>p, <2>2, <2>3 DEF Distinct
<1>3. CASE Finish(p)
  <2>1. /\ sweep[p].pc # "idle" /\ sweep' = [sweep EXCEPT ![p] = NoSweep]
        /\ journal' = journal \o sweep[p].moves /\ undo' = undo
    BY <1>3 DEF Finish
  <2>2. \A q \in Sweepers : sweep'[q].pc = "idle"
    BY <2>1, <1>p, <1>u DEF NoSweep
  <2>3. IsInjective(journal) /\ IsInjective(sweep[p].moves)
        /\ \A r \in ToSet(journal) : r \notin ToSet(sweep[p].moves)
    BY <2>1 DEF Distinct
  <2>4. IsInjective(journal')
    BY <2>1, <2>3, <1>u, <1>t, InjectiveConcat DEF Typed, JournalTyped
  <2> QED BY <1>p, <2>1, <2>2, <2>4 DEF Distinct
<1>4. CASE Fails(p)
  <2>1. /\ sweep[p].pc # "idle" /\ sweep' = [sweep EXCEPT ![p] = NoSweep]
        /\ journal' = journal /\ undo' = undo
    BY <1>4 DEF Abort, Fails
  <2>2. \A q \in Sweepers : sweep'[q].pc = "idle"
    BY <2>1, <1>p, <1>u DEF NoSweep
  <2> QED BY <1>p, <2>1, <2>2 DEF Distinct
<1> QED BY <1>1, <1>2, <1>3, <1>4, <1>t, SweepShape

\* A run that starts takes a batch that is in no record.
LEMMA StartDistinct ==
  ASSUME Alone, Steady, Distinct, NEW p \in Sweepers, Start(p)
  PROVE  Distinct'
<1>u. sweep \in [Sweepers -> Runs]
  BY DEF Steady, Typed, SweepTyped
<1>1. PICK todo \in RootEntries, batch \in FreshBatch :
        sweep' = [sweep EXCEPT ![p] = [pc |-> "loop", todo |-> todo, dst |-> NoSlot,
                    moves |-> <<>>, batch |-> batch, expired |-> expired]]
  BY DEF Start
<1>2. \A r \in ToSet(journal) : r.batch # batch
  BY DEF FreshBatch, Unused
<1>3. /\ sweep'[p].moves = <<>> /\ sweep'[p].batch = batch
      /\ \A q \in Sweepers : q # p => sweep'[q] = sweep[q]
  BY <1>1, <1>u
<1>4. /\ undo.pc = "idle" /\ undo' = undo /\ journal' = journal
      /\ \A q \in Sweepers : sweep[q].pc = "idle"
  BY DEF Start, MayStart, Quiet, Alone
<1>5. IsInjective(<<>>) /\ ToSet(<<>>) = {}
  BY DEF IsInjective, ToSet
<1>6. \A q \in Sweepers : sweep'[q].pc # "idle" => q = p
  BY <1>3, <1>4
<1>7. IsInjective(journal)
  BY DEF Distinct
<1> QED BY <1>2, <1>3, <1>4, <1>5, <1>6, <1>7 DEF Distinct

\* The next record has been undone, or there is nothing to do for it.
LEMMA UndoBack ==
  ASSUME Steady, Distinct, Backwards, UndoSkip \/ Restore
  PROVE  Backwards'
<1> SUFFICES ASSUME undo'.pc # "idle", undo'.which = "all"
             PROVE  /\ undo'.pc = "write" => undo'.left = <<>>
                    /\ Len(undo'.left) <= Len(undo'.read)
                    /\ \A k \in 1..Len(undo'.left) : undo'.left[k] = undo'.read[Len(undo'.left) + 1 - k]
                    /\ \A j \in (Len(undo'.left) + 1)..Len(undo'.read) : Spent(j)'
                    /\ \A j \in 1..Len(undo'.left) : undo'.read[j] \notin undo'.undone
  BY DEF Backwards
<1>t. Typed
  BY DEF Steady
<1>r. undo = [pc |-> undo.pc, which |-> undo.which, read |-> undo.read, left |-> undo.left,
              undone |-> undo.undone]
  BY <1>t DEF Typed, UndoTyped
<1> DEFINE m == Len(undo.left)
           read == undo.read
<1>1. /\ undo.pc \in {"loop", "rename"} /\ undo.left # <<>>
      /\ undo'.pc = "loop" /\ undo'.which = undo.which /\ undo'.read = read
      /\ undo'.left = Tail(undo.left)
  <2>1. CASE UndoSkip
    BY <2>1, <1>r DEF UndoSkip
  <2>2. CASE Restore
    <3>1. undo.pc = "rename" /\ undo.left # <<>>
      BY <2>2, <1>t DEF Restore, Typed, UndoTyped
    <3>2. undo' # NoUndo
      BY DEF NoUndo
    <3>3. undo' = [undo EXCEPT !.pc = "loop", !.left = Tail(@), !.undone = @ \cup {Undoing}]
      BY <2>2, <3>2 DEF Restore, UndoAbort
    <3> QED BY <3>1, <3>3, <1>r
  <2> QED BY <2>1, <2>2
<1>2. /\ read \in Seq(Records) /\ undo.left \in Seq(Records)
      /\ \A j \in 1..Len(read) : read[j] \in Records
  <2>1. read \in Seq(Records) /\ undo.left \in Seq(ToSet(read))
    BY <1>t DEF Typed, UndoTyped
  <2>2. ToSet(read) \subseteq Records
    BY <2>1 DEF ToSet
  <2> HIDE DEF read
  <2> QED BY <2>1, <2>2
<1>3. /\ m <= Len(read)
      /\ \A k \in 1..m : undo.left[k] = read[m + 1 - k]
      /\ \A j \in (m + 1)..Len(read) : Spent(j)
      /\ \A j \in 1..m : read[j] \notin undo.undone
  BY <1>1 DEF Backwards
<1>4. /\ m \in 1..Len(read) /\ Undoing = read[m] /\ Len(undo'.left) = m - 1
      /\ \A k \in 1..Len(undo'.left) : undo'.left[k] = read[Len(undo'.left) + 1 - k]
  BY <1>1, <1>2, <1>3, StepBack DEF Undoing
<1>m. m \in Nat /\ Len(read) \in Nat /\ m >= 1
  BY <1>2, <1>4
<1> HIDE DEF m, read
<1>5. \A j \in (m - 1 + 1)..Len(read) : j = m \/ j \in (m + 1)..Len(read)
  BY <1>m
<1>6. \A j \in 1..(m - 1) : j \in 1..m /\ j # m /\ j \in 1..Len(read)
  BY <1>m, <1>3
<1>7. /\ \A j \in m..Len(read) : Spent(j)'
      /\ \A j \in 1..(m - 1) : read[j] \notin undo'.undone
  <2>1. CASE UndoSkip
    <3>1. undo'.undone = undo.undone /\ root' = root /\ inbox' = inbox /\ ~Restorable(read[m])
      BY <2>1, <1>r, <1>4 DEF UndoSkip, home
    <3>2. \A j : Spent(j)' <=> Spent(j)
      BY <3>1, <1>1 DEF Spent, read
    <3>3. \A j \in 1..(m - 1) : read[j] \notin undo.undone
      BY <1>3, <1>6
    <3>4. ASSUME NEW j, j = m PROVE Spent(j)
      BY <3>1, <3>3, <3>4 DEF Spent, Restorable, read
    <3>5. \A j \in m..Len(read) : j = m \/ j \in (m + 1)..Len(read)
      BY <1>m
    <3> QED BY <1>3, <3>1, <3>2, <3>3, <3>4, <3>5
  <2>2. CASE Restore
    <3>1. /\ root' = [root EXCEPT ![read[m].src] = inbox[read[m].dst]]
          /\ inbox' = [inbox EXCEPT ![read[m].dst] = Nothing]
          /\ undo'.undone = undo.undone \cup {read[m]}
          /\ inbox[read[m].dst] # Nothing
      <4>1. undo' # NoUndo
        BY DEF NoUndo
      <4> QED BY <2>2, <4>1, <1>r, <1>4 DEF Restore, UndoAbort, Renames
    <3>2. root[read[m].src] = Nothing /\ read[m].dst \in Slots /\ read[m].src \in Names
      <4>1. undo.pc = "rename"
        BY <2>2 DEF Restore
      <4>2. read[m] \in Records
        BY <1>2, <1>4
      <4> QED BY <4>1, <4>2, <1>4, <1>t DEF Records, Steady, AboutToRestore, Undoing, Typed, UndoTyped
    <3>3. root \in [Names -> Things] /\ inbox \in [Slots -> Things]
      BY <1>t DEF Typed, HomeTyped
    <3>4. \A n \in Names : root[n] # Nothing => root'[n] # Nothing
      BY <3>1, <3>3
    <3>5. inbox'[read[m].dst] = Nothing /\ \A d \in Slots : inbox[d] = Nothing => inbox'[d] = Nothing
      BY <3>1, <3>2, <3>3
    <3>6. ASSUME NEW j, j = m PROVE Spent(j)'
      BY <3>5, <3>6, <1>1 DEF Spent, read
    <3>7. ASSUME NEW j \in (m + 1)..Len(read) PROVE Spent(j)'
      <4>1. Spent(j) /\ j \in 1..Len(read)
        BY <1>3, <1>m
      <4>2. read[j].dst \in Slots \cup {NoSlot} /\ read[j].src \in Names
        BY <4>1, <1>2 DEF Records
      <4>3. CASE read[j].dst = NoSlot \/ inbox[read[j].dst] = Nothing
        BY <4>2, <4>3, <3>5, <1>1 DEF Spent, read
      <4>4. CASE /\ root[read[j].src] # Nothing
                 /\ \A i \in 1..(j - 1) : read[i].src = read[j].src => read[i] \notin undo.undone
        <5>1. root'[read[j].src] # Nothing
          BY <4>2, <4>4, <3>4
        <5>2. \A i \in 1..(j - 1) : read[i].src = read[j].src => read[i] # read[m]
          BY <4>4, <3>2
        <5>3. \A i \in 1..(j - 1) : read[i].src = read[j].src => read[i] \notin undo'.undone
          BY <4>4, <3>1, <5>2
        <5> QED BY <5>1, <5>3, <1>1 DEF Spent, read
      <4> QED BY <4>1, <4>3, <4>4 DEF Spent, read
    <3>8. \A j \in 1..(m - 1) : read[j] # read[m]
      <4>1. IsInjective(read) /\ DOMAIN read = 1..Len(read)
        BY <1>1, <1>2 DEF Distinct, read
      <4> QED BY <4>1, <1>4, <1>6 DEF IsInjective
    <3>9. \A j \in m..Len(read) : j = m \/ j \in (m + 1)..Len(read)
      BY <1>m
    <3>10. \A j \in m..Len(read) : Spent(j)'
      BY <3>6, <3>7, <3>9
    <3> QED BY <3>1, <3>8, <3>10, <1>3, <1>6
  <2> QED BY <2>1, <2>2
<1>8. m - 1 + 1 = m /\ m - 1 <= Len(read)
  BY <1>3, <1>m
<1>9. undo'.pc # "write"
  BY <1>1
<1> QED BY <1>1, <1>4, <1>7, <1>8, <1>9

\* An undo of everything starts with all of the journal, backwards.
LEMMA UndoStartBack ==
  ASSUME Typed, NEW B, UndoStart(B)
  PROVE  Backwards'
<1>1. PICK moves \in Selected(B) :
        undo' = [pc |-> "loop", which |-> Which(B), read |-> journal, left |-> Reverse(moves),
                 undone |-> {}]
  BY DEF UndoStart
<1>2. /\ undo'.pc = "loop" /\ undo'.which = Which(B) /\ undo'.read = journal
      /\ undo'.left = Reverse(moves) /\ undo'.undone = {}
  BY <1>1
<1> SUFFICES ASSUME Which(B) = "all"
             PROVE  /\ Len(undo'.left) = Len(undo'.read)
                    /\ \A k \in 1..Len(undo'.left) : undo'.left[k] = undo'.read[Len(undo'.left) + 1 - k]
  <2>1. journal \in Seq(Records) /\ Len(journal) \in Nat
    BY DEF Typed, JournalTyped
  <2>2. (Len(journal) + 1)..Len(journal) = {} /\ Len(journal) <= Len(journal)
    BY <2>1
  <2> QED BY <1>2, <2>2 DEF Backwards
<1> DEFINE S == {i \in DOMAIN journal : journal[i].batch \in B}
<1>3. S = DOMAIN journal /\ moves \in InOrder(journal, S) /\ S \in SUBSET DOMAIN journal
  <2>1. \A i \in DOMAIN journal : journal[i].batch \in B
    BY DEF Which, Batches, ToSet
  <2> QED BY <1>1, <2>1 DEF Selected
<1> HIDE DEF S
<1>4. journal \in Seq(Records)
  BY DEF Typed, JournalTyped
<1>5. moves = journal
  BY <1>3, <1>4, InOrderAll
<1>6. /\ Len(Reverse(journal)) = Len(journal) /\ Len(journal) \in Nat
      /\ \A k \in 1..Len(journal) : Reverse(journal)[k] = journal[(Len(journal) - k) + 1]
  BY <1>4 DEF Reverse
<1>7. \A n \in Nat : \A k \in 1..n : (n - k) + 1 = n + 1 - k
  OBVIOUS
<1> QED BY <1>2, <1>5, <1>6, <1>7

LEMMA UndoOrderly ==
  ASSUME Alone, Orderly, UndoStep \/ \E B : UndoStart(B)
  PROVE  Orderly'
<1>t. Steady /\ Typed /\ Steady'
  BY UndoSteady DEF Orderly, Steady
<1>r. undo = [pc |-> undo.pc, which |-> undo.which, read |-> undo.read, left |-> undo.left,
              undone |-> undo.undone]
  BY <1>t DEF Typed, UndoTyped
<1>s. \A p \in Sweepers : sweep'[p].pc = "idle"
  <2>1. UNCHANGED sweep
    BY DEF UndoStep, UndoStart, UndoSkip, UndoChoose, Restore, UndoAbort, Truncate, WriteBack
  <2>2. undo.pc # "idle" \/ Quiet
    BY DEF UndoStep, UndoStart, UndoSkip, UndoChoose, Restore, Truncate, WriteBack, MayStart, Alone
  <2> QED BY <1>t, <2>1, <2>2, Turn DEF Quiet, Steady
<1>d. IsInjective(journal) /\ (undo.pc # "idle" => IsInjective(undo.read)) /\ Backwards
  BY DEF Orderly, Distinct
<1>1. ASSUME NEW B, UndoStart(B) PROVE Distinct' /\ Backwards'
  <2>1. journal' = journal /\ undo'.read = journal
    BY <1>1 DEF UndoStart
  <2>2. Distinct'
    BY <2>1, <1>d, <1>s DEF Distinct
  <2> QED BY <1>1, <1>t, <2>2, UndoStartBack
<1>2. ASSUME UndoSkip \/ Restore PROVE Distinct' /\ Backwards'
  <2>1. Backwards'
    BY <1>2, <1>t, UndoBack DEF Orderly
  <2>2. journal' = journal /\ (undo'.pc # "idle" => undo.pc # "idle" /\ undo'.read = undo.read)
    <3>1. CASE UndoSkip
      BY <3>1, <1>r DEF UndoSkip
    <3>2. CASE UndoAbort
      BY <3>2 DEF UndoAbort, NoUndo
    <3>3. CASE Restore /\ ~UndoAbort
      <4>1. /\ undo' = [undo EXCEPT !.pc = "loop", !.left = Tail(@), !.undone = @ \cup {Undoing}]
            /\ undo.pc = "rename" /\ journal' = journal
        BY <3>3 DEF Restore
      <4> QED BY <4>1, <1>r
    <3> QED BY <1>2, <3>1, <3>2, <3>3
  <2>3. Distinct'
    BY <2>2, <1>d, <1>s DEF Distinct
  <2> QED BY <2>1, <2>3
<1>3. ASSUME UndoChoose \/ Truncate PROVE Distinct' /\ Backwards'
  <2>1. /\ undo.pc = "loop" /\ UNCHANGED home
        /\ undo'.which = undo.which /\ undo'.read = undo.read /\ undo'.left = undo.left
        /\ undo'.undone = undo.undone /\ (undo'.pc = "write" => undo.left = <<>>)
    BY <1>3, <1>r DEF UndoChoose, Truncate
  <2>2. \A j : Spent(j)' <=> Spent(j)
    BY <2>1 DEF Spent, home
  <2>3. Backwards'
    BY <2>1, <2>2, <1>d DEF Backwards
  <2>4. journal' = journal \/ journal' = <<>>
    BY <1>3 DEF UndoChoose, Truncate
  <2>5. IsInjective(<<>>)
    BY DEF IsInjective
  <2>6. IsInjective(journal') /\ IsInjective(undo'.read)
    BY <2>1, <2>4, <2>5, <1>d
  <2>7. Distinct'
    BY <2>6, <1>s DEF Distinct
  <2> QED BY <2>3, <2>7
<1>4. ASSUME WriteBack PROVE Distinct' /\ Backwards'
  <2> DEFINE S == {i \in DOMAIN undo.read : undo.read[i] \notin undo.undone}
  <2>1. /\ undo.pc = "write" /\ undo'.pc = "idle"
        /\ journal' \in InOrder(undo.read, S) /\ S \in SUBSET DOMAIN undo.read
    BY <1>4 DEF WriteBack, NoUndo
  <2> HIDE DEF S
  <2>2. undo.read \in Seq(Records) /\ IsInjective(undo.read)
    BY <2>1, <1>t, <1>d DEF Typed, UndoTyped
  <2>3. IsInjective(journal')
    BY <2>1, <2>2, InjectiveInOrder
  <2> QED BY <2>1, <2>3, <1>s DEF Distinct, Backwards
<1> QED BY <1>1, <1>2, <1>3, <1>4, <1>t DEF Orderly, UndoStep

\* Sweeps, kills and the user: no undo is under way afterwards.
LEMMA OthersOrderly ==
  ASSUME Alone, Orderly, Crash \/ User \/ \E p \in Sweepers : Start(p) \/ SweepStep(p)
  PROVE  Orderly'
<1>t. Steady /\ Typed
  BY DEF Orderly, Steady
<1>1. Steady'
  BY <1>t, OthersSteady, StartSteady, SweepStepSteady
<1>2. undo'.pc = "idle"
  <2>1. ASSUME NEW p \in Sweepers, Start(p) PROVE undo'.pc = "idle"
    BY <2>1 DEF Start, MayStart, Quiet, Alone
  <2>2. ASSUME NEW p \in Sweepers, SweepStep(p) PROVE undo'.pc = "idle"
    <3>1. Passes(p) \/ Decides(p) \/ Finish(p) \/ Fails(p)
      BY <2>2, <1>t, SweepShape
    <3>2. sweep[p].pc # "idle" /\ undo' = undo
      BY <3>1 DEF Passes, Decides, InLoop, Finish, Abort, Fails
    <3> QED BY <3>2, <1>t, Turn DEF Steady
  <2>3. CASE User
    <3>1. Quiet
      BY <2>3 DEF User, Create, Age, Fill, Reconcile, Pin, Discard, Triage, Expire, Migration, UserMay, Alone
    <3> QED BY <2>3, <3>1, <1>t, UserTyped DEF Quiet
  <2>4. CASE Crash
    BY <2>4 DEF Crash, NoUndo
  <2> QED BY <2>1, <2>2, <2>3, <2>4
<1>3. Distinct'
  <2>1. CASE Crash
    <3>1. journal' = journal /\ \A p \in Sweepers : sweep'[p].pc = "idle"
      BY <2>1 DEF Crash, NoSweep
    <3> QED BY <1>2, <3>1 DEF Orderly, Distinct
  <2>2. CASE User
    <3>1. UNCHANGED <<sweep, undo, journal>>
      BY <2>2, <1>t, UserTyped
    <3> QED BY <3>1 DEF Orderly, Distinct
  <2> QED BY <1>t, <2>1, <2>2, StartDistinct, SweepDistinct DEF Orderly
<1>4. Backwards'
  BY <1>2 DEF Backwards
<1> QED BY <1>1, <1>3, <1>4 DEF Orderly

LEMMA OrderlyAlways == ASSUME Alone PROVE Spec => []Orderly
<1>1. Init => Orderly
  <2> SUFFICES ASSUME Init PROVE Orderly
    OBVIOUS
  <2>1. Typed
    BY InitTyped
  <2>2. Steady
    BY <2>1 DEF Init, NoSweep, NoUndo, Steady, OneRun, ListingHolds, AboutToFile,
                AboutToRestore, HollowIsOld
  <2>3. IsInjective(<<>>)
    BY DEF IsInjective
  <2> QED BY <2>2, <2>3 DEF Init, NoSweep, NoUndo, Orderly, Distinct, Backwards
<1>2. Orderly /\ [Next]_vars => Orderly'
  <2> SUFFICES ASSUME Orderly, [Next]_vars PROVE Orderly'
    OBVIOUS
  <2>1. CASE Next
    BY <2>1, UndoOrderly, OthersOrderly DEF Next, Unkilled
  <2>2. CASE UNCHANGED vars
    <3>1. Typed'
      BY <2>2, Frame DEF Orderly, Steady, Typed, vars, home, nature
    <3>2. Steady'
      BY <2>2, <3>1 DEF Orderly, Steady, OneRun, ListingHolds, AboutToFile, AboutToRestore,
              HollowIsOld, Blocked, Listed, Undoing, vars, home, nature
    <3>3. Distinct'
      BY <2>2 DEF Orderly, Distinct, vars
    <3>4. \A j : Spent(j)' <=> Spent(j)
      BY <2>2 DEF Spent, vars, home
    <3>5. Backwards'
      BY <2>2, <3>4 DEF Orderly, Backwards, vars
    <3> QED BY <3>2, <3>3, <3>5 DEF Orderly
  <2> QED BY <2>1, <2>2
<1> QED BY <1>1, <1>2, PTL DEF Spec

\* All that is in the journal has been looked at when an undo of everything has got to
\* the end of its list.
LEMMA AllSpent ==
  ASSUME Orderly, undo.pc = "write", undo.which = "all", NEW j \in DOMAIN undo.read
  PROVE  Spent(j)
<1>1. undo.left = <<>> /\ undo.read \in Seq(Records)
  BY DEF Orderly, Backwards, Steady, Typed, UndoTyped
<1>2. j \in (Len(undo.left) + 1)..Len(undo.read)
  BY <1>1
<1> QED BY <1>2 DEF Orderly, Backwards

\* Where no run overlaps another and the user waits for it to end: of two filed items with
\* the same old name, an undo of everything gives it to the one filed later.
THEOREM UndoGoesBackwards == ASSUME Alone PROVE Spec => []UndoBackwards
<1>1. Orderly => UndoBackwards
  <2> SUFFICES ASSUME Orderly, undo.pc = "write", undo.which = "all",
                      NEW i \in DOMAIN undo.read, NEW j \in DOMAIN undo.read, i < j,
                      undo.read[i].src = undo.read[j].src, undo.read[i] \in undo.undone
               PROVE  undo.read[j].dst = NoSlot \/ inbox[undo.read[j].dst] = Nothing
    BY DEF UndoBackwards
  <2>1. Spent(j)
    BY AllSpent
  <2>2. i \in 1..(j - 1)
    <3>1. undo.read \in Seq(Records)
      BY DEF Orderly, Steady, Typed, UndoTyped
    <3>2. i \in Nat /\ j \in Nat /\ i >= 1
      BY <3>1
    <3> QED BY <3>2
  <2> QED BY <2>1, <2>2 DEF Spent
<1> QED BY <1>1, OrderlyAlways, PTL

\* Under the same conditions such an undo, if it ends, leaves no record in the journal that
\* it could still act on.
THEOREM UndoIsThorough == ASSUME Alone PROVE Spec => UndoThorough
<1>1. Orderly /\ [Next]_vars =>
        [undo.pc = "write" /\ undo'.pc = "idle" /\ undo.which = "all"
         /\ crashes' = crashes => \A r \in ToSet(journal') : ~Restorable(r)]_vars
  <2> SUFFICES ASSUME Orderly, Next, undo.pc = "write", undo'.pc = "idle", undo.which = "all",
                      crashes' = crashes, NEW r \in ToSet(journal')
               PROVE  ~Restorable(r)
    OBVIOUS
  <2>t. Steady /\ Typed
    BY DEF Orderly, Steady
  <2>1. WriteBack
    <3>1. ASSUME Crash PROVE FALSE
      BY <3>1, <2>t, SweepConstants DEF Crash, Typed, NatureTyped
    <3>2. ASSUME User PROVE FALSE
      BY <3>2, <2>t, UserTyped
    <3>3. ASSUME NEW p \in Sweepers, Start(p) \/ SweepStep(p) PROVE FALSE
      <4>1. UNCHANGED undo
        BY <3>3, <2>t, SweepShape DEF Start, Passes, Decides, Finish, Fails, Abort
      <4> QED BY <4>1
    <3>4. ASSUME \E B : UndoStart(B) PROVE FALSE
      BY <3>4 DEF UndoStart
    <3> QED BY <3>1, <3>2, <3>3, <3>4 DEF Next, Unkilled, UndoStep, UndoSkip, UndoChoose, Restore, Truncate
  <2> DEFINE S == {i \in DOMAIN undo.read : undo.read[i] \notin undo.undone}
  <2>2. journal' \in InOrder(undo.read, S) /\ S \in SUBSET DOMAIN undo.read
    BY <2>1 DEF WriteBack
  <2> HIDE DEF S
  <2>3. undo.read \in Seq(Records)
    BY <2>t DEF Typed, UndoTyped
  <2>4. ToSet(journal') = {undo.read[i] : i \in S}
    BY <2>2, <2>3, InOrderOf
  <2>5. PICK j \in DOMAIN undo.read : r = undo.read[j]
    BY <2>2, <2>4
  <2>6. Spent(j)
    BY <2>5, AllSpent
  <2> QED BY <2>5, <2>6 DEF Spent, Restorable
<1> QED BY <1>1, OrderlyAlways, PTL DEF Spec, UndoThorough

-----------------------------------------------------------------------------
(***************************************************************************)
(* Checks beside the sweeps.                                               *)
(***************************************************************************)
\* What a check does not do: touch the home, its entries' nature or the journal, or go on
\* with a sweep or an undo.
CheckOnly == UNCHANGED vars

\* Every step of a home with checks is a step of the sweep's home, a kill, or a check's.
LEMMA CheckShape ==
  ASSUME Typed, [CheckNext]_cvars
  PROVE  Next \/ Killed \/ CheckOnly
<1>1. ASSUME SweepOnly PROVE Next
  <2>1. ASSUME NEW p \in Sweepers, StartSweep(p) \/ SweepOn(p) PROVE Next
    BY <2>1 DEF StartSweep, SweepOn, SweepStep, Next, Unkilled
  <2>2. journal # <<>> => Batches(ToSet(journal)) \in Picks
    <3> SUFFICES ASSUME journal # <<>> PROVE Batches(ToSet(journal)) \in Picks
      OBVIOUS
    <3>1. /\ 1 \in DOMAIN journal /\ Len(journal) \in DOMAIN journal
          /\ DOMAIN journal = 1..Len(journal)
      BY DEF Typed, JournalTyped
    <3>2. Batches(ToSet(journal)) = {journal[k].batch : k \in 1..Len(journal)}
      BY <3>1 DEF Batches, ToSet
    <3> QED BY <3>1, <3>2 DEF Picks
  <2>3. \A B : UndoStart(B) => journal # <<>>
    BY DEF UndoStart
  <2> QED BY <1>1, <2>1, <2>2, <2>3 DEF SweepOnly, Next, Unkilled
<1>2. ASSUME NEW p \in Sweepers, FinishSweep(p) PROVE Next
  BY <1>2 DEF FinishSweep, SweepStep, Next, Unkilled
<1>3. ASSUME NEW p \in Sweepers, StartCheck(p) \/ CheckStep(p) PROVE CheckOnly
  BY <1>3 DEF CheckOnly, StartCheck, CheckStep, CheckNames, CheckRoot, CheckRest, Finds,
              EmptyReport, WriteReport
<1>4. ASSUME KillAll PROVE Killed
  BY <1>4 DEF KillAll, Killed
<1>5. ASSUME UNCHANGED cvars PROVE CheckOnly
  BY <1>5 DEF cvars, CheckOnly
<1> QED BY <1>1, <1>2, <1>3, <1>4, <1>5 DEF CheckNext

\* The variables of Sweep keep their types.
LEMMA CheckTyped == CheckSpec => []Typed
<1>1. CheckInit => Typed
  BY InitTyped DEF CheckInit
<1>2. Typed /\ [CheckNext]_cvars => Typed'
  <2> SUFFICES ASSUME Typed, [CheckNext]_cvars PROVE Typed'
    OBVIOUS
  <2>1. Next \/ UNCHANGED vars => [Next]_vars
    OBVIOUS
  <2> QED BY <2>1, CheckShape, KilledTyped, NextTyped DEF CheckOnly
<1> QED BY <1>1, <1>2, PTL DEF CheckSpec

\* With checks beside the sweeps, the journal is as complete as without.
THEOREM CheckedJournalIsComplete ==
  ASSUME Overlap = "never" PROVE CheckSpec => []JournalComplete
<1>1. CheckInit => Accounting
  BY InitAccounts DEF CheckInit
<1>2. Accounting /\ [CheckNext]_cvars => Accounting'
  <2> SUFFICES ASSUME Accounting, [CheckNext]_cvars PROVE Accounting'
    OBVIOUS
  <2>1. Next \/ UNCHANGED vars => [Next]_vars
    OBVIOUS
  <2>2. Typed
    BY DEF Accounting
  <2> QED BY <2>1, <2>2, CheckShape, KilledAccounts, NextAccounts DEF CheckOnly
<1> QED BY <1>1, <1>2, AccountingGives, PTL DEF CheckSpec

\* Nothing that the checks add, not even a kill in the middle of one, makes a directory
\* disappear in which there is a file.
THEOREM CheckedDirectoriesAreSafe == CheckSpec => DirectoriesSurvive
<1>1. Typed /\ [CheckNext]_cvars =>
        [sweep' # sweep \/ undo' # undo =>
           \A i \in Dirs \ hollow : Present(i) => Present(i)']_vars
  <2> SUFFICES ASSUME Typed, [CheckNext]_cvars, sweep' # sweep \/ undo' # undo,
                      NEW i \in Dirs \ hollow, Present(i)
               PROVE  Present(i)'
    BY DEF vars
  <2>1. CASE Next
    BY <2>1, DirectoryKept
  <2>2. CASE Killed
    BY <2>2, PresentFrame DEF Killed
  <2>3. ~ CheckOnly
    BY DEF CheckOnly, vars
  <2> QED BY <2>1, <2>2, <2>3, CheckShape
<1> QED BY <1>1, CheckTyped, PTL DEF CheckSpec, DirectoriesSurvive
=============================================================================
