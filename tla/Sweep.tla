------------------------------- MODULE Sweep --------------------------------
(***************************************************************************)
(* The hourly `home_tidy.py sweep' of stray entries of ~ into ~/inbox, and *)
(* `home_tidy.py undo', in a home directory its user goes on using.        *)
(* Neither takes a lock: the timer's sweep, one started by hand, an undo   *)
(* and the user interleave between the system calls of a run.  What a run  *)
(* has moved is in its memory until it ends.                               *)
(***************************************************************************)
EXTENDS Integers, FiniteSets, SequencesExt

CONSTANTS
  Names,     \* names of entries of ~ outside [root].allow
  NameOrder, \* the same, in the order list_root sorts them
  Items,     \* the things a user may leave at the root
  Origin,    \* [Items -> Names]: the name an item is created under
  Dirs,      \* items that are directories; the others are files
  Big,       \* items over the size or count limit of [sweep]
  Rivals,    \* names a repository under src/ or vendor/ also has
  Bridges,   \* names in the manifest's [bridges].paths
  Sticky,    \* items that may come not to be renamed or removed: another user's, a mount point
  Sweepers,  \* the timer's sweep, and those started by hand
  MaxSuffix, \* an item is filed as name, name.1 .. name.MaxSuffix
  UserActs,  \* "always", or "between": only while nothing runs
  Overlap,   \* "always", or "never": do runs start while another is under way
  MaxCrashes \* bound on runs that are killed

Nothing == "nothing"
Link == "link"            \* a bridge symlink
Slots == Names \X (0..MaxSuffix)
NoSlot == <<"none", 0>>   \* the destination in the record of a removed skeleton

ASSUME SweepConstants ==
  /\ NameOrder \in Seq(Names) /\ Range(NameOrder) = Names /\ IsInjective(NameOrder)
  /\ Origin \in [Items -> Names]
  /\ Dirs \subseteq Items /\ Big \subseteq Items /\ Sticky \subseteq Items
  /\ Rivals \subseteq Names /\ Bridges \subseteq Names
  /\ MaxSuffix \in Nat /\ MaxCrashes \in Nat
  /\ Nothing \notin Items /\ Link \notin Items

VARIABLES
  root,    \* [Names -> ...]: what ~/<name> holds
  inbox,   \* [Slots -> ...]: what ~/inbox/<name>[.k] holds
  unborn,  \* items nobody has created yet
  aged,    \* items past the grace period
  hollow,  \* directories with no file or symlink at any depth
  newer,   \* items holding data that their counterpart does not have
  stuck,   \* items that os.rename and os.rmdir now fail on
  expired, \* "yes" when the bridges are past their expiry date
  lock,    \* migrate.lock
  journal, \* moves.jsonl: a sequence of [src, dst, batch]
  sweep,   \* [Sweepers -> the memory of that run]
  undo,    \* the memory of the undo
  crashes,
  adrift   \* slots filled by a run that ended before it wrote to the journal

home == <<root, inbox>>
nature == <<unborn, aged, hollow, newer, stuck, expired, lock>>
past == <<crashes, adrift>>
vars == <<home, nature, journal, sweep, undo, past>>

NoSweep == [pc |-> "idle", todo |-> <<>>, dst |-> NoSlot, moves |-> <<>>, batch |-> 0,
            expired |-> "no"]
NoUndo == [pc |-> "idle", which |-> "none", read |-> <<>>, left |-> <<>>, undone |-> {}]

\* The bridges of a migration are there; nobody has left anything at the root.
Init ==
  /\ root = [n \in Names |-> IF n \in Bridges THEN Link ELSE Nothing]
  /\ inbox = [s \in Slots |-> Nothing]
  /\ unborn = Items /\ aged = {} /\ hollow = Dirs /\ newer = {} /\ stuck = {}
  /\ expired = "no" /\ lock = "absent"
  /\ journal = <<>>
  /\ sweep = [p \in Sweepers |-> NoSweep]
  /\ undo = NoUndo
  /\ crashes = 0 /\ adrift = {}

Quiet == undo.pc = "idle" /\ \A p \in Sweepers : sweep[p].pc = "idle"
MayStart == Overlap = "always" \/ Quiet
UserMay == UserActs = "always" \/ Quiet

(***************************************************************************)
(* The sweep.  list_root reads names, kinds and ages once; everything else *)
(* is looked at when the entry's turn comes.                               *)
(***************************************************************************)

Entry(n) == [name |-> n, link |-> root[n] = Link, ripe |-> root[n] \in aged]

\* What a sequence holds at the indices S, in its order: a set of one sequence.
InOrder(seq, S) ==
  {[k \in DOMAIN f |-> seq[f[k]]] :
     f \in {g \in [1..Cardinality(S) -> S] : \A i, j \in DOMAIN g : i < j => g[i] < g[j]}}

RootEntries == {[k \in DOMAIN names |-> Entry(names[k])] :
  names \in InOrder(NameOrder, {i \in DOMAIN NameOrder : root[NameOrder[i]] # Nothing})}

\* A batch id is a uuid: nobody else has it.
Unused(b) == /\ \A r \in ToSet(journal) : r.batch # b
             /\ \A p \in Sweepers : sweep[p].batch # b
FreshBatch == {b \in 1..(Len(journal) + Cardinality(Sweepers) + 1) :
                 Unused(b) /\ \A c \in 1..(b - 1) : ~Unused(c)}

Start(p) ==
  /\ sweep[p].pc = "idle" /\ MayStart /\ lock = "absent"
  /\ \E todo \in RootEntries, batch \in FreshBatch :
       sweep' = [sweep EXCEPT ![p] = [pc |-> "loop", todo |-> todo, dst |-> NoSlot, moves |-> <<>>,
                                      batch |-> batch, expired |-> expired]]
  /\ UNCHANGED <<home, nature, journal, undo, past>>

\* The entry whose turn it is, as listed, and what is there now.
Listed(p) == Head(sweep[p].todo)
Here(p) == root[Listed(p).name]
InLoop(p) == sweep[p].pc = "loop" /\ sweep[p].todo # <<>>
IsBridge(p) == Listed(p).link /\ Listed(p).name \in Bridges

\* Mutant: only a name that still has its bridge in the manifest is compared.
BuggyBlocked(n) == n \in Rivals \ Bridges /\ root[n] \in newer

\* _freshness_block: data newer than its counterpart is left where it is.
Blocked(n) == n \in Rivals /\ root[n] \in newer

\* Mutant: the suffix is never counted up.
BuggyUniqueDestination(n) == <<n, 0>>

\* unique_destination: the first of name, name.1, ... that is free.
Free(n) == {k \in 0..MaxSuffix : inbox[<<n, k>>] = Nothing}
UniqueDestination(n) == <<n, CHOOSE k \in Free(n) : \A j \in Free(n) : k <= j>>

Movable(p) == ~IsBridge(p) /\ Listed(p).ripe /\ Here(p) \in Items \ Big

Advance(p, m) == [sweep EXCEPT ![p].pc = "loop", ![p].todo = Tail(@), ![p].moves = m]

\* Mutant: `break' for `continue'.
BuggySkip(p) ==
  /\ InLoop(p)
  /\ \/ IsBridge(p) /\ sweep[p].expired = "no"
     \/ ~IsBridge(p) /\ ~Listed(p).ripe
     \/ ~IsBridge(p) /\ Listed(p).ripe /\ Here(p) \in Big
     \/ Movable(p) /\ Here(p) \notin hollow /\ Blocked(Listed(p).name)
  /\ sweep' = [sweep EXCEPT ![p].todo = <<>>]
  /\ UNCHANGED <<home, nature, journal, undo, past>>

Skip(p) ==
  /\ InLoop(p)
  /\ \/ IsBridge(p) /\ sweep[p].expired = "no"
     \/ ~IsBridge(p) /\ ~Listed(p).ripe
     \/ ~IsBridge(p) /\ Listed(p).ripe /\ Here(p) \in Big
     \/ Movable(p) /\ Here(p) \notin hollow /\ Blocked(Listed(p).name)
  /\ sweep' = Advance(p, sweep[p].moves)
  /\ UNCHANGED <<home, nature, journal, undo, past>>

\* Where what was moved is now, if it still is there.
FiledTo(records) == {r.dst : r \in records} \cap {d \in Slots : inbox[d] # Nothing}

\* An uncaught exception: the run ends, and what it has moved is not journaled.
Abort(p) == /\ sweep' = [sweep EXCEPT ![p] = NoSweep]
            /\ adrift' = adrift \cup FiledTo(ToSet(sweep[p].moves))
            /\ UNCHANGED <<home, nature, journal, undo, crashes>>

Vanished(p) == ~IsBridge(p) /\ Listed(p).ripe /\ Here(p) = Nothing

\* An expired bridge, if what was listed as one still is; a file that has taken
\* its place is unlinked too, a directory cannot be.
UnlinkBridge(p) ==
  /\ InLoop(p) /\ IsBridge(p) /\ sweep[p].expired = "yes"
  /\ IF Here(p) \in Dirs \cup {Nothing} THEN Abort(p)
     ELSE /\ root' = [root EXCEPT ![Listed(p).name] = Nothing]
          /\ sweep' = Advance(p, sweep[p].moves)
          /\ UNCHANGED <<inbox, nature, journal, undo, past>>

\* is_empty_skeleton, then remove_empty_tree: rmdir fails on a directory that has got a
\* file since, or that it may not remove, and the entry is skipped.
FindSkeleton(p) == /\ InLoop(p) /\ Movable(p) /\ Here(p) \in hollow
                   /\ sweep' = [sweep EXCEPT ![p].pc = "rmdir"]
                   /\ UNCHANGED <<home, nature, journal, undo, past>>

\* Mutant: rmtree for rmdir.
BuggyRemoveSkeleton(p) ==
  /\ sweep[p].pc = "rmdir"
  /\ root' = [root EXCEPT ![Listed(p).name] = Nothing]
  /\ sweep' = Advance(p, Append(sweep[p].moves,
                      [src |-> Listed(p).name, dst |-> NoSlot, batch |-> sweep[p].batch]))
  /\ UNCHANGED <<inbox, nature, journal, undo, past>>

RemoveSkeleton(p) ==
  /\ sweep[p].pc = "rmdir"
  /\ IF Here(p) \in hollow \ stuck
     THEN /\ root' = [root EXCEPT ![Listed(p).name] = Nothing]
          /\ sweep' = Advance(p, Append(sweep[p].moves,
                              [src |-> Listed(p).name, dst |-> NoSlot, batch |-> sweep[p].batch]))
     ELSE /\ sweep' = Advance(p, sweep[p].moves)
          /\ root' = root
  /\ UNCHANGED <<inbox, nature, journal, undo, past>>

\* What looks at an entry that has gone meanwhile raises.
Choose(p) ==
  /\ InLoop(p)
  /\ IF Vanished(p) THEN Abort(p)
     ELSE /\ Movable(p) /\ Here(p) \notin hollow /\ ~Blocked(Listed(p).name)
          /\ Free(Listed(p).name) # {}
          /\ sweep' = [sweep EXCEPT ![p].pc = "rename", ![p].dst = UniqueDestination(Listed(p).name)]
          /\ UNCHANGED <<home, nature, journal, undo, past>>

\* os.rename moves whatever is there, replaces a file by a file, and raises on
\* anything else in its way (a directory of ours is never bare: mkdir -p made it).
Renames(x, y) == x # Nothing /\ (y = Nothing \/ (x \notin Dirs /\ y \notin Dirs))

File(p) ==
  /\ sweep[p].pc = "rename"
  /\ LET n == Listed(p).name
         d == sweep[p].dst IN
     IF root[n] \in stuck \/ ~Renames(root[n], inbox[d]) THEN Abort(p)
     ELSE /\ inbox' = [inbox EXCEPT ![d] = root[n]]
          /\ root' = [root EXCEPT ![n] = Nothing]
          /\ sweep' = Advance(p, Append(sweep[p].moves,
                              [src |-> n, dst |-> d, batch |-> sweep[p].batch]))
          /\ UNCHANGED <<nature, journal, undo, past>>

\* Mutant: the journal is opened for writing, not for appending.
BuggyFinish(p) == /\ sweep[p].pc = "loop" /\ sweep[p].todo = <<>>
                  /\ journal' = sweep[p].moves
                  /\ sweep' = [sweep EXCEPT ![p] = NoSweep]
                  /\ UNCHANGED <<home, nature, undo, past>>

\* append_moves, the only time this run writes moves.jsonl.
Finish(p) == /\ sweep[p].pc = "loop" /\ sweep[p].todo = <<>>
             /\ journal' = journal \o sweep[p].moves
             /\ sweep' = [sweep EXCEPT ![p] = NoSweep]
             /\ UNCHANGED <<home, nature, undo, past>>

(***************************************************************************)
(* The undo: read the journal, restore, write what remains of it back.     *)
(***************************************************************************)

\* The runs that "all", "last" or the beginning of a timestamp picks: such as follow one
\* another in the journal.
Batches(records) == {r.batch : r \in records}
Picks == {{journal[k].batch : k \in i..j} : i, j \in DOMAIN journal}
Selected(B) == InOrder(journal, {i \in DOMAIN journal : journal[i].batch \in B})
Which(B) == IF Batches(ToSet(journal)) \subseteq B THEN "all" ELSE "some"

\* Mutant: the oldest move is undone first.
BuggyUndoStart(B) ==
  /\ undo.pc = "idle" /\ MayStart /\ journal # <<>>
  /\ \E moves \in Selected(B) :
       undo' = [pc |-> "loop", which |-> Which(B), read |-> journal, left |-> moves, undone |-> {}]
  /\ UNCHANGED <<home, nature, journal, sweep, past>>

UndoStart(B) ==
  /\ undo.pc = "idle" /\ MayStart /\ journal # <<>>
  /\ \E moves \in Selected(B) :
       undo' = [pc |-> "loop", which |-> Which(B), read |-> journal, left |-> Reverse(moves),
                undone |-> {}]
  /\ UNCHANGED <<home, nature, journal, sweep, past>>

Undoing == Head(undo.left)

Restorable(r) == r.dst # NoSlot /\ inbox[r.dst] # Nothing /\ root[r.src] = Nothing

\* Mutant: an undo stops at the first move that it cannot undo.
BuggyUndoSkip == /\ undo.pc = "loop" /\ undo.left # <<>> /\ ~Restorable(Undoing)
                 /\ undo' = [undo EXCEPT !.left = <<>>]
                 /\ UNCHANGED <<home, nature, journal, sweep, past>>

UndoSkip == /\ undo.pc = "loop" /\ undo.left # <<>> /\ ~Restorable(Undoing)
            /\ undo' = [undo EXCEPT !.left = Tail(@)]
            /\ UNCHANGED <<home, nature, journal, sweep, past>>

UndoChoose == /\ undo.pc = "loop" /\ undo.left # <<>> /\ Restorable(Undoing)
              /\ undo' = [undo EXCEPT !.pc = "rename"]
              /\ UNCHANGED <<home, nature, journal, sweep, past>>

UndoAbort == /\ undo' = NoUndo
             /\ UNCHANGED <<home, nature, journal, sweep, past>>

Restore ==
  /\ undo.pc = "rename"
  /\ LET n == Undoing.src
         d == Undoing.dst IN
     IF ~Renames(inbox[d], root[n]) THEN UndoAbort
     ELSE /\ root' = [root EXCEPT ![n] = inbox[d]]
          /\ inbox' = [inbox EXCEPT ![d] = Nothing]
          /\ undo' = [undo EXCEPT !.pc = "loop", !.left = Tail(@), !.undone = @ \cup {Undoing}]
          /\ adrift' = adrift \ {d}
          /\ UNCHANGED <<nature, journal, sweep, crashes>>

\* write_text truncates the journal before it writes.
Truncate == /\ undo.pc = "loop" /\ undo.left = <<>>
            /\ journal' = <<>>
            /\ undo' = [undo EXCEPT !.pc = "write"]
            /\ UNCHANGED <<home, nature, sweep, past>>

WriteBack == /\ undo.pc = "write"
             /\ journal' \in InOrder(undo.read, {i \in DOMAIN undo.read : undo.read[i] \notin undo.undone})
             /\ undo' = NoUndo
             /\ UNCHANGED <<home, nature, sweep, past>>

(***************************************************************************)
(* Kills, the user, and a migration.                                       *)
(***************************************************************************)

\* What runs that are killed have moved and not journaled; or had journaled, where an undo is
\* writing the journal anew.
Unwritten == (UNION {ToSet(sweep[p].moves) : p \in Sweepers})
             \cup (IF undo.pc = "write" THEN ToSet(undo.read) ELSE {})

Crash == /\ ~Quiet /\ crashes < MaxCrashes
         /\ crashes' = crashes + 1 /\ adrift' = adrift \cup FiledTo(Unwritten)
         /\ sweep' = [p \in Sweepers |-> NoSweep] /\ undo' = NoUndo
         /\ UNCHANGED <<home, nature, journal>>

\* A new file or directory at the root; where a repository has the name, its data
\* is newer than the repository's.
Create(i) == /\ UserMay /\ i \in unborn /\ root[Origin[i]] = Nothing
             /\ root' = [root EXCEPT ![Origin[i]] = i]
             /\ unborn' = unborn \ {i}
             /\ newer' = IF i \in hollow THEN newer ELSE newer \cup {i}
             /\ UNCHANGED <<inbox, aged, hollow, stuck, expired, lock, journal, sweep, undo, past>>

\* The grace period of an item passes.
Age(i) == /\ UserMay /\ root[Origin[i]] = i /\ i \notin aged
          /\ aged' = aged \cup {i}
          /\ UNCHANGED <<home, unborn, hollow, newer, stuck, expired, lock, journal, sweep, undo, past>>

\* Somebody writes a file into a directory that had none.
Fill(i) == /\ UserMay /\ root[Origin[i]] = i /\ i \in hollow
           /\ hollow' = hollow \ {i} /\ newer' = newer \cup {i}
           /\ UNCHANGED <<home, unborn, aged, stuck, expired, lock, journal, sweep, undo, past>>

\* The user reconciles it with the repository of that name.
Reconcile(i) == /\ UserMay /\ i \in newer /\ Origin[i] \in Rivals
                /\ newer' = newer \ {i}
                /\ UNCHANGED <<home, unborn, aged, hollow, stuck, expired, lock, journal, sweep, undo, past>>

\* Something makes it impossible to rename an entry, or possible again.
Pin(i) == /\ UserMay /\ i \in Sticky /\ root[Origin[i]] = i
          /\ stuck' = IF i \in stuck THEN stuck \ {i} ELSE stuck \cup {i}
          /\ UNCHANGED <<home, unborn, aged, hollow, newer, expired, lock, journal, sweep, undo, past>>

Discard(n) == /\ UserMay /\ root[n] \notin {Nothing} \cup stuck
              /\ root' = [root EXCEPT ![n] = Nothing]
              /\ UNCHANGED <<inbox, nature, journal, sweep, undo, past>>

Triage(s) == /\ UserMay /\ inbox[s] # Nothing
             /\ inbox' = [inbox EXCEPT ![s] = Nothing]
             /\ adrift' = adrift \ {s}
             /\ UNCHANGED <<root, nature, journal, sweep, undo, crashes>>

Expire == /\ UserMay /\ expired = "no"
          /\ expired' = "yes"
          /\ UNCHANGED <<home, unborn, aged, hollow, newer, stuck, lock, journal, sweep, undo, past>>

Migration == /\ UserMay
             /\ lock' = IF lock = "absent" THEN "present" ELSE "absent"
             /\ UNCHANGED <<home, unborn, aged, hollow, newer, stuck, expired, journal, sweep, undo, past>>

SweepStep(p) == \/ Skip(p) \/ UnlinkBridge(p) \/ FindSkeleton(p)
                \/ RemoveSkeleton(p) \/ Choose(p) \/ File(p) \/ Finish(p)
UndoStep == UndoSkip \/ UndoChoose \/ Restore \/ Truncate \/ WriteBack
User == \/ \E i \in Items : Create(i) \/ Age(i) \/ Fill(i) \/ Reconcile(i) \/ Pin(i)
        \/ \E n \in Names : Discard(n)
        \/ \E s \in Slots : Triage(s)
        \/ Expire \/ Migration

Unkilled ==
  \/ \E p \in Sweepers : Start(p) \/ SweepStep(p)
  \/ \E B \in Picks : UndoStart(B)
  \/ UndoStep \/ User

Next == Unkilled \/ Crash
Spec == Init /\ [][Next]_vars

\* Nobody kills a run: the timer fires for ever, a run goes on, and a migration ends.
FairSpec == /\ Init /\ [][Unkilled]_vars
            /\ \A p \in Sweepers : SF_vars(Start(p)) /\ WF_vars(SweepStep(p))
            /\ WF_vars(UndoStep)
            /\ SF_vars(lock = "present" /\ Migration)

-----------------------------------------------------------------------------
(***************************************************************************)
(* Properties.  A run's step is one that changes the memory of a run.      *)
(***************************************************************************)

Records == [src : Names, dst : Slots \cup {NoSlot}, batch : Nat]
Things == Items \cup {Nothing, Link}

\* Every variable keeps its type.
TypeOK ==
  /\ root \in [Names -> Things] /\ inbox \in [Slots -> Things]
  /\ unborn \subseteq Items /\ aged \subseteq Items /\ newer \subseteq Items
  /\ hollow \subseteq Dirs /\ stuck \subseteq Sticky
  /\ expired \in {"no", "yes"} /\ lock \in {"absent", "present"}
  /\ ToSet(journal) \subseteq Records
  /\ \A p \in Sweepers : /\ sweep[p].pc \in {"idle", "loop", "rmdir", "rename"}
                         /\ sweep[p].pc \in {"rmdir", "rename"} => sweep[p].todo # <<>>
                         /\ ToSet(sweep[p].moves) \subseteq Records
  /\ undo.pc \in {"idle", "loop", "rename", "write"}
  /\ undo.undone \subseteq ToSet(undo.read) /\ ToSet(undo.read) \subseteq Records
  /\ crashes \in 0..MaxCrashes /\ adrift \subseteq Slots

Present(i) == \/ \E n \in Names : root[n] = i
              \/ \E s \in Slots : inbox[s] = i

\* No run makes a directory disappear that has got a file in it, not even one
\* written while the run is removing the tree.
DirectoriesSurvive == [][sweep' # sweep \/ undo' # undo =>
                           \A i \in Dirs \ hollow : Present(i) => Present(i)']_vars

\* No run makes a file disappear.
FilesSurvive == [][sweep' # sweep \/ undo' # undo =>
                     \A i \in Items \ hollow : Present(i) => Present(i)']_vars

\* Data that its counterpart does not have is left where it is.
NothingBuried == [][sweep' # sweep =>
   \A n \in Rivals : root[n] \in newer => root'[n] = root[n]]_vars

\* Whatever a sweep has put in the inbox, the journal knows where it came from; but for what
\* was filed by a run that came upon an entry it could not rename, or was killed, before it
\* wrote to the journal, and for a kill while an undo writes it anew.
Journaled(n, k) == \E r \in ToSet(journal) : r.src = n /\ r.dst = <<n, k>>
JournalComplete == Quiet =>
   \A n \in Names, k \in 0..MaxSuffix :
      inbox[<<n, k>>] # Nothing => <<n, k>> \in adrift \/ Journaled(n, k)

\* `undo all' goes backwards: where two filed items have the same old name, the
\* one filed later gets it back.
UndoBackwards == undo.pc = "write" /\ undo.which = "all" =>
   \A i, j \in DOMAIN undo.read :
      /\ i < j /\ undo.read[i].src = undo.read[j].src
      /\ undo.read[i] \in undo.undone /\ undo.read[i].dst # undo.read[j].dst
      => undo.read[j].dst = NoSlot \/ inbox[undo.read[j].dst] = Nothing

\* An undo that ends leaves in the journal no record it could still act on: each
\* has lost its item, or has its old name taken.
UndoThorough == [][undo.pc = "write" /\ undo'.pc = "idle" /\ undo.which = "all"
                   /\ crashes' = crashes => \A r \in ToSet(journal') : ~Restorable(r)]_vars

Fileable(i) == /\ root[Origin[i]] = i /\ i \in aged \ Big
               /\ i \in hollow \/ ~Blocked(Origin[i])

\* Every run ends with an exception when it comes to this one.
Jams(i) == Fileable(i) /\ i \in stuck \ hollow
Place(n) == CHOOSE k \in DOMAIN NameOrder : NameOrder[k] = n
InTheWay(i) == i \in stuck \/ \E j \in Items : Jams(j) /\ Place(Origin[j]) < Place(Origin[i])

\* A stray that may be swept is, in the end, unless the user takes it away, or it is one
\* that cannot be moved, or sorts after one.
StraysFiled == \A i \in Items : Fileable(i) ~> ~Fileable(i) \/ InTheWay(i)

-----------------------------------------------------------------------------
(***************************************************************************)
(* What the documentation says.  The code keeps the middle three only      *)
(* where no run overlaps another, the user or a migration, and the others  *)
(* not even then.                                                          *)
(***************************************************************************)

\* "Every move is appended to moves.jsonl so undo can replay it backwards."
EveryMoveJournaled == Quiet =>
   \A n \in Names, k \in 0..MaxSuffix : inbox[<<n, k>>] # Nothing => Journaled(n, k)

\* A stray that may be swept is, whatever else lies at the root.
EveryStrayFiled == \A i \in Items \ Sticky : Fileable(i) ~> ~Fileable(i)

\* What is in the inbox stays there through a sweep ("so a sweep never overwrites").
NeverOverwrites == [][sweep' # sweep =>
                        \A s \in Slots : inbox[s] # Nothing => inbox'[s] = inbox[s]]_vars

\* An item within its grace period is left alone.
GraceRespected == [][sweep' # sweep =>
   \A n \in Names : root[n] \in Items \ aged => root'[n] = root[n]]_vars

\* While a migration holds its lock nothing is swept.
OutOfTheWay == [][sweep' # sweep /\ lock = "present" => root' = root]_vars

\* The only thing a sweep takes from the root without filing it is an empty tree.
OneDeletion == [][sweep' # sweep => \A n \in Names :
   root[n] # Nothing /\ root'[n] = Nothing =>
      root[n] \in hollow \/ \E s \in Slots : inbox'[s] = root[n]]_vars
=============================================================================
