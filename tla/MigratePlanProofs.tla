-------------------------- MODULE MigratePlanProofs --------------------------
(***************************************************************************)
(* Theorems about MigratePlan: the order in which build_plan puts the      *)
(* moves, what a plan consists of, and why carrying plans out, however     *)
(* often that is cut short, neither fails nor loses an entry or what       *)
(* refers to it.                                                           *)
(***************************************************************************)
EXTENDS MigratePlan, FiniteSetTheorems, WellFoundedInduction, TLAPS

-----------------------------------------------------------------------------
(***************************************************************************)
(* The order of the moves.                                                 *)
(***************************************************************************)
ManifestTyped == map \in Maps

LEMMA MapValues ==
  ASSUME ManifestTyped
  PROVE  Mapped \subseteq Keys /\ map \in [Mapped -> Places]
BY DEF ManifestTyped, Maps, Mapped

LEMMA KeysFinite == IsFiniteSet(Keys)
<1>1. KeyOrder \in Surjection(1..Len(KeyOrder), Keys)
  BY PlanConstants DEF Surjection, Range
<1>2. IsFiniteSet(1..Len(KeyOrder))
  BY PlanConstants, FS_Interval
<1> QED BY <1>1, <1>2, FS_Surjection

LEMMA MappedFinite ==
  ASSUME ManifestTyped
  PROVE  IsFiniteSet(Mapped)
BY KeysFinite, MapValues, FS_Subset

\* What stands in a sequence without repetitions has one place there.
LEMMA PositionIs ==
  ASSUME NEW T, NEW s \in Seq(T), IsInjective(s)
  PROVE  \A x \in Range(s) : Position(s, x) \in DOMAIN s /\ s[Position(s, x)] = x
BY DEF Position, Range

LEMMA Positions ==
  ASSUME ManifestTyped, NEW k \in Mapped
  PROVE  /\ Position(KeyOrder, k) \in Int
         /\ KeyOrder[Position(KeyOrder, k)] = k
         /\ BucketRank(k) \in Int /\ Own(k) \in Int
<1>1. k \in Range(KeyOrder) /\ DOMAIN KeyOrder \subseteq Int
  BY PlanConstants, MapValues
<1>2. Position(KeyOrder, k) \in DOMAIN KeyOrder /\ KeyOrder[Position(KeyOrder, k)] = k
  BY <1>1, PlanConstants, PositionIs
<1>3. BucketOf[map[k]] \in Range(Buckets) /\ DOMAIN Buckets \subseteq Int
  BY PlanConstants, MapValues
<1>4. Position(Buckets, BucketOf[map[k]]) \in DOMAIN Buckets
  BY <1>3, PlanConstants, PositionIs
<1> QED BY <1>1, <1>2, <1>3, <1>4 DEF BucketRank, Own

\* build_plan sorts by a strict total order.
LEMMA PrecedesOrders ==
  ASSUME ManifestTyped
  PROVE  /\ \A a \in Mapped : ~Precedes(a, a)
         /\ \A a, b \in Mapped : a # b => Precedes(a, b) \/ Precedes(b, a)
         /\ \A a, b, c \in Mapped : Precedes(a, b) /\ Precedes(b, c) => Precedes(a, c)
<1> DEFINE pos(k) == Position(KeyOrder, k)
<1>1. \A k \in Mapped : pos(k) \in Int /\ BucketRank(k) \in Int /\ Own(k) \in Int
  BY Positions
<1>2. \A a, b \in Mapped : pos(a) = pos(b) => a = b
  BY Positions
<1>3. \A a, b : Before(a, b) <=> pos(a) < pos(b)
  BY DEF Before
<1> HIDE DEF pos
<1>4. \A a, b \in Mapped :
        Sorts(a, b) <=> \/ Own(a) < Own(b)
                        \/ Own(a) = Own(b) /\ BucketRank(a) < BucketRank(b)
                        \/ Own(a) = Own(b) /\ BucketRank(a) = BucketRank(b) /\ pos(a) < pos(b)
  BY <1>3 DEF Sorts
<1>5. \A a \in Mapped : ~Sorts(a, a)
  BY <1>1, <1>4
<1>6. \A a, b \in Mapped : a # b => Sorts(a, b) \/ Sorts(b, a)
  BY <1>1, <1>2, <1>4
<1>7. \A a, b, c \in Mapped : Sorts(a, b) /\ Sorts(b, c) => Sorts(a, c)
  BY <1>1, <1>4
<1>8. \A a, b \in Mapped :
        Precedes(a, b) <=> \/ a \in Nested /\ b \notin Nested
                           \/ a \in Nested /\ b \in Nested /\ pos(a) < pos(b)
                           \/ a \notin Nested /\ b \notin Nested /\ Sorts(a, b)
  BY <1>3 DEF Precedes
<1>9. \A a \in Mapped : ~Precedes(a, a)
  BY <1>1, <1>5, <1>8
<1>10. \A a, b \in Mapped : a # b => Precedes(a, b) \/ Precedes(b, a)
  BY <1>1, <1>2, <1>6, <1>8
<1>11. \A a, b, c \in Mapped : Precedes(a, b) /\ Precedes(b, c) => Precedes(a, c)
  BY <1>1, <1>7, <1>8
<1> QED BY <1>9, <1>10, <1>11

\* How many entries move before one: an entry's place in the order, from 0 on.
Rank(k) == Cardinality({j \in Mapped : Precedes(j, k)})

LEMMA RankRises ==
  ASSUME ManifestTyped
  PROVE  /\ \A k \in Mapped : Rank(k) \in Nat /\ Rank(k) < Cardinality(Mapped)
         /\ \A a, b \in Mapped : Precedes(a, b) => Rank(a) < Rank(b)
<1> DEFINE below(k) == {j \in Mapped : Precedes(j, k)}
<1>1. \A k \in Mapped : IsFiniteSet(below(k)) /\ Rank(k) \in Nat
  <2> SUFFICES ASSUME NEW k \in Mapped PROVE IsFiniteSet(below(k)) /\ Rank(k) \in Nat
    OBVIOUS
  <2>1. below(k) \in SUBSET Mapped
    OBVIOUS
  <2>2. IsFiniteSet(below(k))
    BY <2>1, MappedFinite, FS_Subset
  <2> QED BY <2>2, FS_CardinalityType DEF Rank
\* A set in a finite one that lacks an element has fewer.
<1>2. \A S, T : IsFiniteSet(T) /\ S \subseteq T /\ (\E x \in T : x \notin S)
                => Cardinality(S) < Cardinality(T)
  <2> SUFFICES ASSUME NEW S, NEW T, IsFiniteSet(T), S \subseteq T, \E x \in T : x \notin S
               PROVE  Cardinality(S) < Cardinality(T)
    OBVIOUS
  <2>1. S \in SUBSET T /\ S # T
    OBVIOUS
  <2>2. IsFiniteSet(S) /\ Cardinality(S) <= Cardinality(T) /\ Cardinality(S) # Cardinality(T)
    BY <2>1, FS_Subset
  <2>3. Cardinality(S) \in Nat /\ Cardinality(T) \in Nat
    BY <2>2, FS_CardinalityType
  <2> QED BY <2>2, <2>3
<1>3. \A k \in Mapped : Rank(k) < Cardinality(Mapped)
  <2> SUFFICES ASSUME NEW k \in Mapped PROVE Rank(k) < Cardinality(Mapped)
    OBVIOUS
  <2>1. below(k) \subseteq Mapped /\ k \in Mapped /\ k \notin below(k)
    BY PrecedesOrders
  <2> HIDE DEF below
  <2>2. Cardinality(below(k)) < Cardinality(Mapped)
    BY <2>1, <1>2, MappedFinite
  <2> QED BY <2>2 DEF Rank, below
<1>4. \A a, b \in Mapped : Precedes(a, b) => Rank(a) < Rank(b)
  <2> SUFFICES ASSUME NEW a \in Mapped, NEW b \in Mapped, Precedes(a, b)
               PROVE  Rank(a) < Rank(b)
    OBVIOUS
  <2>1. below(a) \subseteq below(b)
    BY PrecedesOrders
  <2>2. a \in below(b) /\ a \notin below(a)
    BY PrecedesOrders
  <2>3. IsFiniteSet(below(b))
    BY <1>1
  <2> HIDE DEF below
  <2>4. Cardinality(below(a)) < Cardinality(below(b))
    BY <2>1, <2>2, <2>3, <1>2
  <2> QED BY <2>4 DEF Rank, below
<1> QED BY <1>1, <1>3, <1>4

\* Every place is taken, by one entry.
LEMMA RankIsOnto ==
  ASSUME ManifestTyped
  PROVE  /\ \A a, b \in Mapped : Rank(a) = Rank(b) => a = b
         /\ \A i \in 1..Cardinality(Mapped) : \E k \in Mapped : Rank(k) = i - 1
<1> DEFINE n == Cardinality(Mapped)
           r == [k \in Mapped |-> Rank(k)]
<1>1. n \in Nat
  BY MappedFinite, FS_CardinalityType
<1>2. \A a, b \in Mapped : Rank(a) = Rank(b) => a = b
  BY RankRises, PrecedesOrders
<1>3. r \in [Mapped -> 0..(n - 1)]
  BY <1>1, RankRises
<1>4. r \in Injection(Mapped, 0..(n - 1))
  BY <1>2, <1>3 DEF Injection, IsInjective
<1>5. IsFiniteSet(0..(n - 1)) /\ Cardinality(0..(n - 1)) = n
  <2>1. 0 \in Int /\ n - 1 \in Int
    BY <1>1
  <2> HIDE DEF n
  <2>2. /\ IsFiniteSet(0..(n - 1))
        /\ Cardinality(0..(n - 1)) = IF 0 > n - 1 THEN 0 ELSE (n - 1) - 0 + 1
    BY <2>1, FS_Interval
  <2> QED BY <1>1, <2>2
<1>6. r \in Surjection(Mapped, 0..(n - 1))
  <2> HIDE DEF r
  <2>1. IsFiniteSet(0..(n - 1)) /\ Cardinality(Mapped) = Cardinality(0..(n - 1))
    BY <1>5
  <2> QED BY <2>1, <1>4, FS_Injection
<1>7. \A t \in 0..(n - 1) : \E k \in Mapped : r[k] = t
  BY <1>6 DEF Surjection
<1>8. \A i \in 1..n : i - 1 \in 0..(n - 1)
  BY <1>1
<1> QED BY <1>2, <1>7, <1>8

\* The entries in the order of their moves: each once, what precedes another first.
LEMMA EntryOrderSorts ==
  ASSUME ManifestTyped
  PROVE  /\ EntryOrder \in Seq(Mapped)
         /\ IsInjective(EntryOrder) /\ Range(EntryOrder) = Mapped
         /\ \A i, j \in DOMAIN EntryOrder : Precedes(EntryOrder[i], EntryOrder[j]) => i < j
<1> DEFINE n == Cardinality(Mapped)
<1>1. n \in Nat
  BY MappedFinite, FS_CardinalityType
<1>2. EntryOrder = [i \in 1..n |-> CHOOSE k \in Mapped : Rank(k) = i - 1]
  BY DEF EntryOrder, Rank
<1>3. \A i \in 1..n : EntryOrder[i] \in Mapped /\ Rank(EntryOrder[i]) = i - 1
  BY <1>2, RankIsOnto
<1>4. DOMAIN EntryOrder = 1..n
  BY <1>2
<1> HIDE DEF n
<1>5. EntryOrder \in Seq(Mapped)
  <2>1. EntryOrder \in [1..n -> Mapped]
    BY <1>2, <1>3
  <2> QED BY <2>1, <1>1
<1>6. IsInjective(EntryOrder)
  <2> SUFFICES ASSUME NEW i \in 1..n, NEW j \in 1..n, EntryOrder[i] = EntryOrder[j]
               PROVE  i = j
    BY <1>4 DEF IsInjective
  <2>1. i - 1 = j - 1
    BY <1>3
  <2> QED BY <1>1, <2>1
<1>7. Mapped \subseteq Range(EntryOrder)
  <2> SUFFICES ASSUME NEW k \in Mapped PROVE k \in Range(EntryOrder)
    OBVIOUS
  <2>1. Rank(k) \in Nat /\ Rank(k) < n
    BY RankRises DEF n
  <2>2. Rank(k) + 1 \in 1..n /\ (Rank(k) + 1) - 1 = Rank(k)
    BY <1>1, <2>1
  <2>3. EntryOrder[Rank(k) + 1] = k
    BY <2>2, <1>3, RankIsOnto
  <2> QED BY <2>2, <2>3, <1>4 DEF Range
<1>8. Range(EntryOrder) = Mapped
  BY <1>3, <1>4, <1>7 DEF Range
<1>9. \A i, j \in DOMAIN EntryOrder : Precedes(EntryOrder[i], EntryOrder[j]) => i < j
  <2> SUFFICES ASSUME NEW i \in 1..n, NEW j \in 1..n, Precedes(EntryOrder[i], EntryOrder[j])
               PROVE  i < j
    BY <1>4
  <2>1. Rank(EntryOrder[i]) < Rank(EntryOrder[j])
    BY <1>3, RankRises
  <2>2. i - 1 < j - 1
    BY <2>1, <1>3
  <2> QED BY <1>1, <2>2
<1> QED BY <1>5, <1>6, <1>8, <1>9

\* A set listed in any order: each element once.
LEMMA AnyOrderLists ==
  ASSUME NEW S, IsFiniteSet(S)
  PROVE  AnyOrder(S) \in Seq(S) /\ IsInjective(AnyOrder(S)) /\ Range(AnyOrder(S)) = S
<1> DEFINE n == Cardinality(S)
           f == AnyOrder(S)
<1>1. n \in Nat /\ \E b : b \in Bijection(1..n, S)
  BY FS_CardinalityType DEF ExistsBijection
<1>2. \E b \in [1..n -> S] : IsInjective(b)
  BY <1>1 DEF Bijection, Injection
<1>3. f \in [1..n -> S] /\ IsInjective(f)
  BY <1>2 DEF AnyOrder, SetToSeq
<1> HIDE DEF f
<1>4. f \in Injection(1..n, S)
  BY <1>3 DEF Injection
<1>5. IsFiniteSet(1..n) /\ Cardinality(1..n) = n
  <2> HIDE DEF n
  <2>1. IsFiniteSet(1..n) /\ Cardinality(1..n) = IF 1 > n THEN 0 ELSE n - 1 + 1
    BY <1>1, FS_Interval
  <2> QED BY <1>1, <2>1
<1>6. f \in Surjection(1..n, S)
  BY <1>4, <1>5, FS_Injection
<1>7. Range(f) = S
  BY <1>3, <1>6 DEF Surjection, Range
<1>8. f \in Seq(S)
  BY <1>1, <1>3
<1> QED BY <1>3, <1>7, <1>8 DEF f

-----------------------------------------------------------------------------
(***************************************************************************)
(* What a plan consists of.                                                *)
(***************************************************************************)
Phases == {"move", "rewrite", "link", "commit", "push", "ci-summary", "bridge",
           "bridges-record", "verify"}
Items == Keys \cup Refs \cup {"-", "with-bridges", "bridgeless"}
AllSteps == [phase : Phases, item : Items]

\* Actions whose turns lie between lo and hi, in the order of their turns, none twice.
InTurn(s, lo, hi) == /\ s \in Seq(AllSteps) /\ IsInjective(s)
                     /\ \A i \in DOMAIN s : lo <= Turn(s[i]) /\ Turn(s[i]) <= hi
                     /\ \A i, j \in DOMAIN s : i < j => Turn(s[i]) <= Turn(s[j])

\* Where the elements of s \o t are.
LEMMA PlanConcat ==
  ASSUME NEW T, NEW s \in Seq(T), NEW t \in Seq(T)
  PROVE  /\ Len(s) \in Nat /\ Len(s \o t) = Len(s) + Len(t)
         /\ DOMAIN (s \o t) = 1..(Len(s) + Len(t))
         /\ \A i \in 1..Len(t) : (s \o t)[Len(s) + i] = t[i]
         /\ \A i \in DOMAIN (s \o t) :
              \/ i \in DOMAIN s /\ (s \o t)[i] = s[i]
              \/ /\ i > Len(s) /\ i - Len(s) \in DOMAIN t
                 /\ (s \o t)[i] = t[i - Len(s)]
         /\ Range(s \o t) = Range(s) \cup Range(t)
<1>1. /\ DOMAIN s = 1..Len(s) /\ DOMAIN t = 1..Len(t) /\ Len(s) \in Nat /\ Len(t) \in Nat
      /\ DOMAIN (s \o t) = 1..(Len(s) + Len(t)) /\ Len(s \o t) = Len(s) + Len(t)
      /\ \A i \in 1..Len(s) : (s \o t)[i] = s[i]
      /\ \A i \in 1..Len(t) : (s \o t)[Len(s) + i] = t[i]
  OBVIOUS
<1>2. \A i \in DOMAIN (s \o t) :
        \/ i \in 1..Len(s)
        \/ i > Len(s) /\ i - Len(s) \in 1..Len(t) /\ Len(s) + (i - Len(s)) = i
  BY <1>1
<1>3. \A i \in DOMAIN (s \o t) :
        \/ i \in DOMAIN s /\ (s \o t)[i] = s[i]
        \/ i > Len(s) /\ i - Len(s) \in DOMAIN t /\ (s \o t)[i] = t[i - Len(s)]
  <2> SUFFICES ASSUME NEW i \in DOMAIN (s \o t)
               PROVE  \/ i \in DOMAIN s /\ (s \o t)[i] = s[i]
                      \/ i > Len(s) /\ i - Len(s) \in DOMAIN t /\ (s \o t)[i] = t[i - Len(s)]
    OBVIOUS
  <2>1. CASE i \in 1..Len(s)
    BY <1>1, <2>1
  <2>2. ASSUME i > Len(s), i - Len(s) \in 1..Len(t), Len(s) + (i - Len(s)) = i
        PROVE  (s \o t)[i] = t[i - Len(s)]
    <3> DEFINE k == i - Len(s)
    <3>1. k \in 1..Len(t) /\ Len(s) + k = i
      BY <2>2
    <3> HIDE DEF k
    <3>2. (s \o t)[Len(s) + k] = t[k]
      BY <1>1, <3>1
    <3> QED BY <3>1, <3>2 DEF k
  <2> QED BY <1>1, <1>2, <2>1, <2>2
<1>4. Range(s) \cup Range(t) \subseteq Range(s \o t)
  <2>1. \A i \in 1..Len(s) : i \in DOMAIN (s \o t)
    BY <1>1
  <2>2. \A i \in 1..Len(t) : Len(s) + i \in DOMAIN (s \o t)
    BY <1>1
  <2> QED BY <1>1, <2>1, <2>2 DEF Range
<1>5. Range(s \o t) \subseteq Range(s) \cup Range(t)
  BY <1>3 DEF Range
<1> QED BY <1>1, <1>3, <1>4, <1>5

\* Two lists in turn, one after the other, are a list in turn if they have no action in
\* common and the turns of the second come after those of the first, or with the last of them.
LEMMA InTurnJoin ==
  ASSUME NEW s, NEW t, NEW a \in Nat, NEW b \in Nat, NEW c \in Nat, NEW d \in Nat,
         InTurn(s, a, b), InTurn(t, c, d), a <= b, b <= c, c <= d,
         Range(s) \cap Range(t) = {}
  PROVE  InTurn(s \o t, a, d)
<1> DEFINE u == s \o t
           in(i) == i \in DOMAIN s /\ u[i] = s[i]
           out(i) == i > Len(s) /\ i - Len(s) \in DOMAIN t /\ u[i] = t[i - Len(s)]
<1>1. s \in Seq(AllSteps) /\ t \in Seq(AllSteps) /\ u \in Seq(AllSteps)
  BY DEF InTurn
<1>2. /\ \A i \in DOMAIN u : in(i) \/ out(i)
      /\ DOMAIN u \subseteq Nat /\ Len(s) \in Nat /\ DOMAIN s = 1..Len(s)
  BY <1>1, PlanConcat
<1>3. \A x \in AllSteps : Turn(x) \in Nat
  BY DEF Turn
<1>4. \A i \in DOMAIN s : s[i] \in AllSteps
  BY <1>1
<1>5. \A i \in DOMAIN t : t[i] \in AllSteps
  BY <1>1
<1> HIDE DEF u
<1>6. \A i \in DOMAIN u :
        /\ in(i) => a <= Turn(u[i]) /\ Turn(u[i]) <= b
        /\ out(i) => c <= Turn(u[i]) /\ Turn(u[i]) <= d
        /\ Turn(u[i]) \in Nat
  BY <1>2, <1>3, <1>4, <1>5 DEF InTurn
<1>7. \A i \in DOMAIN u : a <= Turn(u[i]) /\ Turn(u[i]) <= d
  <2> SUFFICES ASSUME NEW i \in DOMAIN u PROVE a <= Turn(u[i]) /\ Turn(u[i]) <= d
    OBVIOUS
  <2> DEFINE z == Turn(u[i])
  <2>1. z \in Nat /\ ((a <= z /\ z <= b) \/ (c <= z /\ z <= d))
    BY <1>2, <1>6
  <2> HIDE DEF z
  <2>2. a <= z /\ z <= d
    BY <2>1
  <2> QED BY <2>2 DEF z
<1>8. ASSUME NEW i \in DOMAIN u, NEW j \in DOMAIN u, i < j
      PROVE  Turn(u[i]) <= Turn(u[j])
  <2>1. CASE in(i) /\ in(j)
    BY <1>8, <2>1 DEF InTurn
  <2>2. CASE out(i) /\ out(j)
    <3>1. i - Len(s) < j - Len(s)
      BY <1>2, <1>8
    <3> QED BY <3>1, <2>2 DEF InTurn
  <2>3. CASE in(i) /\ out(j)
    <3> DEFINE y == Turn(u[i])
               z == Turn(u[j])
    <3>1. y \in Nat /\ z \in Nat /\ y <= b /\ c <= z
      BY <2>3, <1>6
    <3> HIDE DEF y, z
    <3>2. y <= z
      BY <3>1
    <3> QED BY <3>2 DEF y, z
  <2>4. ~(out(i) /\ in(j))
    BY <1>2, <1>8
  <2> QED BY <1>2, <2>1, <2>2, <2>3, <2>4
<1>9. ASSUME NEW i \in DOMAIN u, NEW j \in DOMAIN u, u[i] = u[j]
      PROVE  i = j
  <2>1. CASE in(i) /\ in(j)
    BY <1>9, <2>1 DEF InTurn, IsInjective
  <2>2. CASE out(i) /\ out(j)
    <3>1. i - Len(s) = j - Len(s)
      BY <1>9, <2>2 DEF InTurn, IsInjective
    <3> QED BY <3>1, <1>2
  <2>3. \A y, z \in DOMAIN u : u[y] = u[z] => ~(in(y) /\ out(z))
    BY DEF Range
  <2> QED BY <1>2, <1>9, <2>1, <2>2, <2>3
<1> QED BY <1>1, <1>7, <1>8, <1>9 DEF InTurn, IsInjective, u

LEMMA InTurnConcat ==
  ASSUME NEW s, NEW t, NEW a \in Nat, NEW b \in Nat, NEW c \in Nat, NEW d \in Nat,
         InTurn(s, a, b), InTurn(t, c, d), a <= b, b < c, c <= d
  PROVE  InTurn(s \o t, a, d)
<1>1. \A x \in AllSteps : Turn(x) \in Nat
  BY DEF Turn
<1>2. \A x \in Range(s) : x \in AllSteps /\ Turn(x) <= b
  BY DEF InTurn, Range
<1>3. \A x \in Range(t) : c <= Turn(x)
  BY DEF InTurn, Range
<1>4. \A x : ~(x \in Range(s) /\ x \in Range(t))
  BY <1>1, <1>2, <1>3
<1>5. Range(s) \cap Range(t) = {} /\ b <= c
  BY <1>4
<1> QED BY <1>5, InTurnJoin

\* The actions of one phase, an item each.
LEMMA InTurnSteps ==
  ASSUME NEW p \in Phases \ {"verify"}, NEW S \in SUBSET Items, NEW s \in Seq(S),
         IsInjective(s)
  PROVE  /\ InTurn(Steps(p, s), Turn(Step(p, "-")), Turn(Step(p, "-")))
         /\ DOMAIN Steps(p, s) = DOMAIN s
         /\ \A i \in DOMAIN s : Steps(p, s)[i].phase = p /\ Steps(p, s)[i].item = s[i]
         /\ Range(Steps(p, s)) = {Step(p, x) : x \in Range(s)}
<1> DEFINE t == Steps(p, s)
           z == Turn(Step(p, "-"))
<1>1. /\ DOMAIN t = 1..Len(s) /\ DOMAIN s = 1..Len(s) /\ Len(s) \in Nat
      /\ \A i \in DOMAIN s : t[i] = Step(p, s[i])
  BY DEF Steps
<1>2. \A i \in DOMAIN s : t[i].phase = p /\ t[i].item = s[i]
  BY <1>1 DEF Step
<1>3. \A i \in DOMAIN s : s[i] \in Items
  OBVIOUS
<1>4. \A i \in DOMAIN t : t[i] \in AllSteps
  BY <1>1, <1>3 DEF AllSteps, Step
<1>5. t \in Seq(AllSteps)
  <2>1. t \in [1..Len(s) -> AllSteps]
    BY <1>1, <1>4 DEF Steps
  <2> QED BY <2>1, <1>1
<1>6. z \in Nat /\ \A i \in DOMAIN t : Turn(t[i]) = z
  BY <1>1, <1>2 DEF Turn, Phases, Step
<1>7. IsInjective(t)
  BY <1>1, <1>2 DEF IsInjective
<1>8. Range(t) = {Step(p, x) : x \in Range(s)}
  BY <1>1 DEF Range
<1> HIDE DEF t, z
<1>9. \A i \in DOMAIN t : z <= Turn(t[i]) /\ Turn(t[i]) <= z
  BY <1>6
<1>10. \A i, j \in DOMAIN t : Turn(t[i]) <= Turn(t[j])
  BY <1>6
<1>11. InTurn(t, z, z)
  BY <1>5, <1>7, <1>9, <1>10 DEF InTurn
<1> QED BY <1>1, <1>2, <1>8, <1>11 DEF t, z

LEMMA TurnsOfPhases ==
  /\ Turn(Step("move", "-")) = 1 /\ Turn(Step("rewrite", "-")) = 2
  /\ Turn(Step("link", "-")) = 2
  /\ Turn(Step("commit", "-")) = 3 /\ Turn(Step("push", "-")) = 4
  /\ Turn(Step("ci-summary", "-")) = 5 /\ Turn(Step("bridge", "-")) = 6
  /\ \A a \in AllSteps : a.phase = "move" => Turn(a) = 1
  /\ \A a \in AllSteps : a.phase \in {"rewrite", "link"} => Turn(a) = 2
  /\ \A a \in AllSteps : a.phase = "commit" => Turn(a) = 3
  /\ \A a \in AllSteps : a.phase = "bridge" => Turn(a) = 6
  /\ \A a \in AllSteps : Turn(a) = 6 => a.phase = "bridge"
  /\ \A a \in AllSteps : Turn(a) \in 1..9
<1>1. /\ Turn(Step("move", "-")) = 1 /\ Turn(Step("rewrite", "-")) = 2
      /\ Turn(Step("link", "-")) = 2
      /\ Turn(Step("commit", "-")) = 3 /\ Turn(Step("push", "-")) = 4
      /\ Turn(Step("ci-summary", "-")) = 5 /\ Turn(Step("bridge", "-")) = 6
  BY DEF Turn, Step
<1>2. \A a \in AllSteps : /\ a.phase = "move" => Turn(a) = 1
                          /\ a.phase \in {"rewrite", "link"} => Turn(a) = 2
                          /\ a.phase = "commit" => Turn(a) = 3
                          /\ a.phase = "bridge" => Turn(a) = 6
  BY DEF Turn
<1>3. \A a \in AllSteps : Turn(a) = 6 => a.phase = "bridge"
  BY DEF Turn, AllSteps, Phases
<1>4. \A a \in AllSteps : Turn(a) \in 1..9
  BY DEF Turn
<1> QED BY <1>1, <1>2, <1>3, <1>4

\* What governs a key: the key itself or the flat directory around it.
LEMMA GovernsIs ==
  ASSUME ManifestTyped, NEW k \in Keys
  PROVE  /\ Governs(k) \subseteq Mapped
         /\ \A g \in Governs(k) : g = k \/ (g # k /\ k \notin Mapped /\ g = Parent[k])
         /\ k \notin Loose => Governs(k) \cap Loose = {}
<1>1. Governs(k) \subseteq Mapped /\ \A g \in Governs(k) : g = k \/ (k \notin Mapped /\ g = Parent[k])
  BY DEF Governs
<1>2. \A g \in Governs(k) : g \notin Loose \/ g = k
  <2> SUFFICES ASSUME NEW g \in Governs(k), g # k PROVE g \notin Loose
    OBVIOUS
  <2>1. g = Parent[k] /\ g \in Keys
    BY <1>1, MapValues
  <2>2. k \in Nested
    BY <2>1, PlanConstants DEF Nested
  <2> QED BY <2>1, <2>2, PlanConstants
<1> QED BY <1>1, <1>2

\* The directories a repository of which has a rewritten file.
LEMMA ReposFinite ==
  ASSUME ManifestTyped
  PROVE  Repos \subseteq Mapped /\ IsFiniteSet(Repos)
<1>1. \A f \in Refs : LiesIn[f] # "~" => LiesIn[f] \in Keys
  BY PlanConstants DEF Refs, Range
<1>2. \A f \in Refs : LiesIn[f] # "~" => ReposOf(f) \subseteq Mapped
  BY <1>1, GovernsIs DEF ReposOf
<1>3. Repos \in SUBSET Mapped
  BY <1>2 DEF Repos
<1> QED BY <1>3, MappedFinite, FS_Subset

\* Commits, then pushes, then the summary, or none of it.
LEMMA CommitsInTurn ==
  ASSUME ManifestTyped
  PROVE  InTurn(Commits, 3, 5) /\ \A k \in Repos : Step("commit", k) \in Range(Commits)
<1>1. CASE Repos = {}
  <2>1. Commits = <<>>
    BY <1>1 DEF Commits
  <2> QED BY <1>1, <2>1 DEF InTurn, IsInjective
<1>2. CASE Repos # {}
  <2> DEFINE r == AnyOrder(Repos)
             c == Steps("commit", r)
             p == Steps("push", r)
             l == <<Step("ci-summary", "-")>>
  <2>1. r \in Seq(Repos) /\ IsInjective(r) /\ Range(r) = Repos
    BY ReposFinite, AnyOrderLists
  <2>2. Repos \in SUBSET Items
    BY ReposFinite, MapValues DEF Items
  <2>3. "commit" \in Phases \ {"verify"} /\ "push" \in Phases \ {"verify"}
    BY DEF Phases
  <2> HIDE DEF r
  <2>4. /\ InTurn(c, 3, 3) /\ InTurn(p, 4, 4)
        /\ Range(c) = {Step("commit", x) : x \in Repos}
    BY <2>1, <2>2, <2>3, InTurnSteps, TurnsOfPhases
  <2>5. InTurn(l, 5, 5)
    <3>1. Step("ci-summary", "-") \in AllSteps
      BY DEF Step, AllSteps, Phases, Items
    <3>2. Len(l) = 1 /\ l[1] = Step("ci-summary", "-") /\ l \in Seq(AllSteps)
          /\ DOMAIN l = {1}
      BY <3>1
    <3> QED BY <3>2, TurnsOfPhases DEF InTurn, IsInjective
  <2> HIDE DEF c, p, l
  <2>6. InTurn(c \o p, 3, 4)
    BY <2>4, InTurnConcat
  <2>7. InTurn((c \o p) \o l, 3, 5)
    BY <2>5, <2>6, InTurnConcat
  <2>8. /\ Range(c \o p) = Range(c) \cup Range(p)
        /\ Range((c \o p) \o l) = Range(c \o p) \cup Range(l)
    <3>1. /\ c \in Seq(AllSteps) /\ p \in Seq(AllSteps) /\ l \in Seq(AllSteps)
          /\ c \o p \in Seq(AllSteps)
      BY <2>4, <2>5, <2>6 DEF InTurn
    <3>2. Range(c \o p) = Range(c) \cup Range(p)
      BY <3>1, PlanConcat, Zenon
    <3> DEFINE cp == c \o p
    <3>3. cp \in Seq(AllSteps)
      BY <3>1
    <3> HIDE DEF cp
    <3>4. Range(cp \o l) = Range(cp) \cup Range(l)
      BY <3>1, <3>3, PlanConcat, Zenon
    <3> QED BY <3>2, <3>4 DEF cp
  <2>9. \A k \in Repos : Step("commit", k) \in Range((c \o p) \o l)
    BY <2>4, <2>8
  <2> QED BY <1>2, <2>7, <2>9 DEF Commits, c, p, l, r
<1> QED BY <1>1, <1>2

Ending == <<Step("bridges-record", "-"), Step("verify", "with-bridges"),
            Step("verify", "bridgeless")>>

LEMMA EndingInTurn ==
  InTurn(Ending, 7, 9) /\ Len(Ending) = 3 /\ Ending[3] = Step("verify", "bridgeless")
<1>1. /\ Step("bridges-record", "-") \in AllSteps /\ Step("verify", "with-bridges") \in AllSteps
      /\ Step("verify", "bridgeless") \in AllSteps
  BY DEF Step, AllSteps, Phases, Items
<1>2. /\ Turn(Step("bridges-record", "-")) = 7 /\ Turn(Step("verify", "with-bridges")) = 8
      /\ Turn(Step("verify", "bridgeless")) = 9
  BY DEF Turn, Step
<1>3. /\ Ending \in Seq(AllSteps) /\ Len(Ending) = 3 /\ DOMAIN Ending = 1..3
      /\ Ending[1] = Step("bridges-record", "-") /\ Ending[2] = Step("verify", "with-bridges")
      /\ Ending[3] = Step("verify", "bridgeless")
  BY <1>1 DEF Ending
<1>4. Turn(Ending[1]) = 7 /\ Turn(Ending[2]) = 8 /\ Turn(Ending[3]) = 9
  BY <1>2, <1>3
<1>5. \A i \in 1..3 : i = 1 \/ i = 2 \/ i = 3
  OBVIOUS
<1>6. \A i \in 1..3 : 7 <= Turn(Ending[i]) /\ Turn(Ending[i]) <= 9 /\ Turn(Ending[i]) = i + 6
  BY <1>4, <1>5
<1>7. \A i, j \in 1..3 : i < j => Turn(Ending[i]) <= Turn(Ending[j])
  BY <1>6
<1>8. \A i, j \in 1..3 : Ending[i] = Ending[j] => i = j
  <2>1. \A i, j \in 1..3 : Ending[i] = Ending[j] => i + 6 = j + 6
    BY <1>6
  <2> QED BY <2>1
<1> QED BY <1>3, <1>6, <1>7, <1>8 DEF InTurn, IsInjective

\* What a list of actions must be for the migration that carries it out: in turn; the moves
\* of entries, nested ones before flat ones; the bridges of flat directories in use; and
\* the suite without bridges last.
Bridgeable == {k \in Mapped : Bridged(k)}
MovesOf(s) == \A i \in DOMAIN s : s[i].phase = "move" => s[i].item \in Mapped
Hoisted(s) == \A i, j \in DOMAIN s :
   s[i].phase = "move" /\ s[j].phase = "move" /\ s[i].item \in Nested /\ s[j].item \notin Nested
   => i < j
BridgesOf(s) == \A i \in DOMAIN s : s[i].phase = "bridge" => s[i].item \in Bridgeable
SuiteLast(s) == s # <<>> => Last(s) = Step("verify", "bridgeless")
WellMade(s) == InTurn(s, 1, 9) /\ MovesOf(s) /\ Hoisted(s) /\ BridgesOf(s) /\ SuiteLast(s)

\* Actions put after the moves leave these where they are.
LEMMA MovesStay ==
  ASSUME NEW s \in Seq(AllSteps), NEW t \in Seq(AllSteps), NEW e,
         \A i \in DOMAIN s : s[i].phase = "move" => i \in DOMAIN e /\ s[i].item = e[i],
         \A i \in DOMAIN t : t[i].phase # "move"
  PROVE  \A i \in DOMAIN (s \o t) :
           (s \o t)[i].phase = "move" => i \in DOMAIN e /\ (s \o t)[i].item = e[i]
<1> DEFINE u == s \o t
<1>1. \A i \in DOMAIN u : \/ i \in DOMAIN s /\ u[i] = s[i]
                          \/ i - Len(s) \in DOMAIN t /\ u[i] = t[i - Len(s)]
  BY PlanConcat
<1> HIDE DEF u
<1>2. \A i \in DOMAIN u : u[i].phase = "move" => i \in DOMAIN e /\ u[i].item = e[i]
  BY <1>1
<1> QED BY <1>2 DEF u

\* The action that rewrites a file, or points a link to where its target goes.
RewriteOf(f) == Step(IF f \in Links THEN "link" ELSE "rewrite", f)

\* Each file and each link to rewrite once.
LEMMA RewritesInTurn ==
  ASSUME needy \subseteq Refs
  PROVE  InTurn(RewriteSteps, 2, 2) /\ Range(RewriteSteps) = {RewriteOf(f) : f \in Rewrites}
<1> DEFINE W == Rewrites \ Links
           L == Rewrites \cap Links
           w == AnyOrder(W)
           l == AnyOrder(L)
           s == Steps("rewrite", w)
           t == Steps("link", l)
<1>1. /\ W \in SUBSET Refs /\ L \in SUBSET Refs /\ W \in SUBSET Items /\ L \in SUBSET Items
      /\ "rewrite" \in Phases \ {"verify"} /\ "link" \in Phases \ {"verify"}
  BY DEF Rewrites, Items, Phases
<1>2. IsFiniteSet(W) /\ IsFiniteSet(L)
  BY <1>1, PlanConstants, FS_Subset
<1> HIDE DEF W, L
<1>3. /\ w \in Seq(W) /\ IsInjective(w) /\ Range(w) = W
      /\ l \in Seq(L) /\ IsInjective(l) /\ Range(l) = L
  BY <1>2, AnyOrderLists
<1> HIDE DEF w, l
<1>4. /\ InTurn(s, 2, 2) /\ Range(s) = {Step("rewrite", x) : x \in W}
      /\ InTurn(t, 2, 2) /\ Range(t) = {Step("link", x) : x \in L}
  BY <1>1, <1>3, InTurnSteps, TurnsOfPhases
<1> HIDE DEF s, t
<1>5. Range(s) \cap Range(t) = {}
  BY <1>4 DEF Step
<1>6. InTurn(s \o t, 2, 2)
  BY <1>4, <1>5, InTurnJoin
<1>7. s \in Seq(AllSteps) /\ t \in Seq(AllSteps)
  BY <1>4 DEF InTurn
<1>8. Range(s \o t) = Range(s) \cup Range(t)
  BY <1>7, PlanConcat, Zenon
<1>9. {RewriteOf(f) : f \in Rewrites} = Range(s) \cup Range(t)
  BY <1>4 DEF W, L, RewriteOf
<1> QED BY <1>6, <1>8, <1>9 DEF RewriteSteps, s, t, w, l, W, L

\* The plan that build_plan makes is well made, moves every entry of the manifest, has a
\* rewrite for each file to rewrite, a commit for each repository to commit and a bridge for
\* each directory that gets one.
LEMMA ActionsWellMade ==
  ASSUME ManifestTyped, needy \subseteq Refs
  PROVE  /\ WellMade(Actions)
         /\ \A k \in Mapped : Step("move", k) \in Range(Actions)
         /\ \A f \in Rewrites : RewriteOf(f) \in Range(Actions)
         /\ \A f : Step("rewrite", f) \in Range(Actions) => f \in Rewrites
         /\ \A k \in Repos : Step("commit", k) \in Range(Actions)
         /\ \A k \in Bridgeable : Step("bridge", k) \in Range(Actions)
<1> DEFINE b == AnyOrder(Bridgeable)
           A1 == Steps("move", EntryOrder)
           A2 == RewriteSteps
           A3 == Commits
           A4 == Steps("bridge", b)
           B2 == A1 \o A2
           B3 == B2 \o A3
           B4 == B3 \o A4
<1>1. EntryOrder \in Seq(Mapped) /\ IsInjective(EntryOrder) /\ Range(EntryOrder) = Mapped
  BY EntryOrderSorts
<1>3. b \in Seq(Bridgeable) /\ IsInjective(b) /\ Range(b) = Bridgeable
  <2>1. Bridgeable \in SUBSET Mapped
    BY DEF Bridgeable
  <2>2. IsFiniteSet(Bridgeable)
    BY <2>1, MappedFinite, FS_Subset
  <2> QED BY <2>2, AnyOrderLists
<1>4. Actions = B4 \o Ending
  BY DEF Actions, Ending, Bridgeable
<1>5. "move" \in Phases \ {"verify"} /\ "bridge" \in Phases \ {"verify"}
  BY DEF Phases
<1>6. Mapped \in SUBSET Items /\ Bridgeable \in SUBSET Items
  BY MapValues DEF Items, Bridgeable
<1> HIDE DEF b
<1>7. /\ InTurn(A1, 1, 1) /\ DOMAIN A1 = DOMAIN EntryOrder
      /\ \A i \in DOMAIN EntryOrder : A1[i].phase = "move" /\ A1[i].item = EntryOrder[i]
      /\ Range(A1) = {Step("move", x) : x \in Mapped}
  BY <1>1, <1>5, <1>6, InTurnSteps, TurnsOfPhases
<1>8. InTurn(A2, 2, 2) /\ Range(A2) = {RewriteOf(f) : f \in Rewrites}
  BY RewritesInTurn
<1>9. InTurn(A3, 3, 5) /\ \A k \in Repos : Step("commit", k) \in Range(A3)
  BY CommitsInTurn
<1>10. InTurn(A4, 6, 6) /\ Range(A4) = {Step("bridge", x) : x \in Bridgeable}
  BY <1>3, <1>5, <1>6, InTurnSteps, TurnsOfPhases
<1>11. InTurn(Ending, 7, 9) /\ Len(Ending) = 3 /\ Ending[3] = Step("verify", "bridgeless")
  BY EndingInTurn
<1> HIDE DEF A1, A2, A3, A4
<1>12. InTurn(B2, 1, 2)
  BY <1>7, <1>8, InTurnConcat
<1>13. Range(B2) = Range(A1) \cup Range(A2)
  BY <1>7, <1>8, PlanConcat DEF InTurn
<1> HIDE DEF B2
<1>14. InTurn(B3, 1, 5)
  BY <1>9, <1>12, InTurnConcat
<1>15. Range(B3) = Range(B2) \cup Range(A3)
  BY <1>9, <1>12, PlanConcat DEF InTurn
<1> HIDE DEF B3
<1>16. InTurn(B4, 1, 6)
  BY <1>10, <1>14, InTurnConcat
<1>17. Range(B4) = Range(B3) \cup Range(A4)
  BY <1>10, <1>14, PlanConcat DEF InTurn
<1> HIDE DEF B4
<1>18. InTurn(Actions, 1, 9)
  BY <1>4, <1>11, <1>16, InTurnConcat
<1>19. Range(Actions) = Range(B4) \cup Range(Ending)
  BY <1>4, <1>11, <1>16, PlanConcat DEF InTurn
\* Later segments have no moves, and only one of them has bridges.
<1>20. \A s, lo, hi : lo \in 2..9 /\ hi \in 2..9 /\ InTurn(s, lo, hi)
                      => \A i \in DOMAIN s : s[i].phase # "move"
  <2> SUFFICES ASSUME NEW s, NEW lo \in 2..9, NEW hi \in 2..9, InTurn(s, lo, hi),
                      NEW i \in DOMAIN s, s[i].phase = "move"
               PROVE  FALSE
    OBVIOUS
  <2>1. s[i] \in AllSteps /\ lo <= Turn(s[i])
    BY DEF InTurn
  <2>2. Turn(s[i]) = 1
    BY <2>1, TurnsOfPhases
  <2> QED BY <2>1, <2>2
<1>21. \A i \in DOMAIN Actions : Actions[i].phase = "move"
         => i \in DOMAIN EntryOrder /\ Actions[i].item = EntryOrder[i]
  <2> DEFINE Kept(s) == \A i \in DOMAIN s : s[i].phase = "move"
                          => i \in DOMAIN EntryOrder /\ s[i].item = EntryOrder[i]
             Unmoving(t) == \A i \in DOMAIN t : t[i].phase # "move"
  <2>1. Kept(A1)
    BY <1>7
  <2>2. /\ Unmoving(A2) /\ A1 \in Seq(AllSteps) /\ A2 \in Seq(AllSteps)
        /\ Unmoving(A3) /\ B2 \in Seq(AllSteps) /\ A3 \in Seq(AllSteps)
        /\ Unmoving(A4) /\ B3 \in Seq(AllSteps) /\ A4 \in Seq(AllSteps)
        /\ Unmoving(Ending) /\ B4 \in Seq(AllSteps) /\ Ending \in Seq(AllSteps)
    <3>1. Unmoving(A2) /\ Unmoving(A3) /\ Unmoving(A4) /\ Unmoving(Ending)
      BY <1>8, <1>9, <1>10, <1>11, <1>20
    <3>2. \A s, lo, hi : InTurn(s, lo, hi) => s \in Seq(AllSteps)
      BY DEF InTurn
    <3> QED BY <3>1, <3>2, <1>7, <1>8, <1>9, <1>10, <1>11, <1>12, <1>14, <1>16
  <2>3. ASSUME NEW s \in Seq(AllSteps), NEW t \in Seq(AllSteps), Kept(s), Unmoving(t)
        PROVE  Kept(s \o t)
    BY <2>3, MovesStay
  <2> HIDE DEF Kept, Unmoving
  <2>4. Kept(B2)
    BY <2>1, <2>2, <2>3 DEF B2
  <2>5. Kept(B3)
    BY <2>4, <2>2, <2>3 DEF B3
  <2>6. Kept(B4)
    BY <2>5, <2>2, <2>3 DEF B4
  <2>7. Kept(Actions)
    BY <2>6, <2>2, <2>3, <1>4
  <2> QED BY <2>7 DEF Kept
<1>22. MovesOf(Actions)
  BY <1>1, <1>21 DEF MovesOf, Range
<1>23. Hoisted(Actions)
  <2> SUFFICES ASSUME NEW i \in DOMAIN Actions, NEW j \in DOMAIN Actions,
                      Actions[i].phase = "move", Actions[j].phase = "move",
                      Actions[i].item \in Nested, Actions[j].item \notin Nested
               PROVE  i < j
    BY DEF Hoisted
  <2>1. /\ i \in DOMAIN EntryOrder /\ EntryOrder[i] \in Nested
        /\ j \in DOMAIN EntryOrder /\ EntryOrder[j] \notin Nested
    BY <1>21
  <2>2. Precedes(EntryOrder[i], EntryOrder[j])
    BY <2>1 DEF Precedes
  <2> QED BY <2>1, <2>2, EntryOrderSorts
<1>24. BridgesOf(Actions)
  <2> SUFFICES ASSUME NEW i \in DOMAIN Actions, Actions[i].phase = "bridge"
               PROVE  Actions[i].item \in Bridgeable
    BY DEF BridgesOf
  <2>1. Actions[i] \in Range(Actions) /\ Actions[i] \in AllSteps
    BY <1>18 DEF Range, InTurn
  <2>2. Turn(Actions[i]) = 6
    BY <2>1, TurnsOfPhases
  <2>3. Actions[i] \notin Range(Ending)
    BY <2>2, <1>11 DEF InTurn, Range
  <2>4. Actions[i] \notin Range(B3)
    BY <2>2, <1>14 DEF InTurn, Range
  <2>5. Actions[i] \in Range(A4)
    BY <2>1, <2>3, <2>4, <1>17, <1>19
  <2> QED BY <2>5, <1>10 DEF Step
<1>25. SuiteLast(Actions)
  <2>1. /\ Len(Actions) = Len(B4) + 3 /\ Len(B4) \in Nat
        /\ \A i \in 1..3 : Actions[Len(B4) + i] = Ending[i]
    <3>1. /\ B4 \in Seq(AllSteps) /\ Ending \in Seq(AllSteps) /\ Len(Ending) = 3
          /\ Actions = B4 \o Ending
      BY <1>4, <1>11, <1>16 DEF InTurn
    <3>2. /\ Len(B4) \in Nat /\ Len(B4 \o Ending) = Len(B4) + Len(Ending)
          /\ \A i \in 1..Len(Ending) : (B4 \o Ending)[Len(B4) + i] = Ending[i]
      BY <3>1, PlanConcat, SMTT(30)
    <3>3. /\ Len(B4) \in Nat /\ Len(Actions) = Len(B4) + Len(Ending)
          /\ \A i \in 1..Len(Ending) : Actions[Len(B4) + i] = Ending[i]
      BY <3>1, <3>2, Zenon
    <3>4. Len(Ending) = 3
      BY <3>1
    <3> QED BY <3>3, <3>4, Zenon
  <2>2. Actions[Len(Actions)] = Ending[3]
    BY <2>1
  <2> QED BY <2>2, <1>11 DEF SuiteLast, Last
<1>26. \A f : Step("rewrite", f) \in Range(Actions) => f \in Rewrites
  <2> SUFFICES ASSUME NEW f, Step("rewrite", f) \in Range(Actions) PROVE f \in Rewrites
    OBVIOUS
  <2> DEFINE r == Step("rewrite", f)
  <2>1. r \in AllSteps /\ r.phase = "rewrite" /\ r.item = f
    BY <1>18 DEF InTurn, Range, Step
  <2>2. Turn(r) = 2
    BY <2>1, TurnsOfPhases
  <2> HIDE DEF r
  <2>3. r \notin Range(Ending) /\ r \notin Range(A4) /\ r \notin Range(A3) /\ r \notin Range(A1)
    BY <2>2, <1>7, <1>9, <1>10, <1>11 DEF InTurn, Range
  <2>4. r \in Range(A2)
    BY <2>3, <1>13, <1>15, <1>17, <1>19 DEF r
  <2> QED BY <2>1, <2>4, <1>8 DEF RewriteOf, Step
<1> QED BY <1>7, <1>8, <1>9, <1>10, <1>13, <1>15, <1>17, <1>18, <1>19, <1>22, <1>23, <1>24, <1>25,
           <1>26 DEF WellMade

\* What is left of a plan when its first action is done.
LEMMA TailIs ==
  ASSUME NEW T, NEW s \in Seq(T), s # <<>>
  PROVE  /\ Tail(s) \in Seq(T) /\ Len(s) \in Nat /\ DOMAIN s = 1..Len(s) /\ 1 \in DOMAIN s
         /\ Len(Tail(s)) = Len(s) - 1
         /\ \A i \in DOMAIN Tail(s) : i + 1 \in DOMAIN s /\ Tail(s)[i] = s[i + 1] /\ i \in Nat
         /\ Range(s) = {s[1]} \cup Range(Tail(s))
<1>1. /\ Tail(s) \in Seq(T) /\ Len(s) \in Nat /\ DOMAIN s = 1..Len(s) /\ 1 \in DOMAIN s
      /\ Len(Tail(s)) = Len(s) - 1 /\ DOMAIN Tail(s) = 1..(Len(s) - 1)
      /\ \A i \in DOMAIN Tail(s) : i + 1 \in DOMAIN s /\ Tail(s)[i] = s[i + 1] /\ i \in Nat
  OBVIOUS
<1>2. \A i \in DOMAIN s : i = 1 \/ (i - 1 \in 1..(Len(s) - 1) /\ (i - 1) + 1 = i)
  BY <1>1
<1>3. \A i \in DOMAIN s : i = 1 \/ s[i] \in Range(Tail(s))
  <2> SUFFICES ASSUME NEW i \in DOMAIN s, i # 1 PROVE s[i] \in Range(Tail(s))
    OBVIOUS
  <2> DEFINE k == i - 1
  <2>1. k \in DOMAIN Tail(s) /\ k + 1 = i
    BY <1>1, <1>2
  <2> HIDE DEF k
  <2>2. Tail(s)[k] = s[i]
    BY <2>1, <1>1
  <2> QED BY <2>1, <2>2 DEF Range
<1>4. Range(s) = {s[1]} \cup Range(Tail(s))
  BY <1>1, <1>3 DEF Range
<1> QED BY <1>1, <1>4

LEMMA TailWellMade ==
  ASSUME NEW s, WellMade(s), s # <<>>
  PROVE  WellMade(Tail(s))
<1> DEFINE t == Tail(s)
<1>1. /\ s \in Seq(AllSteps) /\ t \in Seq(AllSteps)
      /\ \A i \in DOMAIN t : i + 1 \in DOMAIN s /\ t[i] = s[i + 1] /\ i \in Nat
      /\ Len(s) \in Nat /\ Len(t) = Len(s) - 1
  BY TailIs DEF WellMade, InTurn
<1>2. /\ DOMAIN t \subseteq Nat
      /\ \A i, j \in Nat : (i < j <=> i + 1 < j + 1) /\ (i = j <=> i + 1 = j + 1)
  BY <1>1
<1> HIDE DEF t
<1>3. InTurn(t, 1, 9)
  <2>1. IsInjective(t)
    BY <1>1, <1>2 DEF WellMade, InTurn, IsInjective
  <2>2. \A i \in DOMAIN t : 1 <= Turn(t[i]) /\ Turn(t[i]) <= 9
    BY <1>1 DEF WellMade, InTurn
  <2>3. \A i, j \in DOMAIN t : i < j => Turn(t[i]) <= Turn(t[j])
    BY <1>1, <1>2 DEF WellMade, InTurn
  <2> QED BY <1>1, <2>1, <2>2, <2>3 DEF InTurn
<1>4. MovesOf(t) /\ BridgesOf(t)
  BY <1>1 DEF WellMade, MovesOf, BridgesOf
<1>5. Hoisted(t)
  BY <1>1, <1>2 DEF WellMade, Hoisted
<1>6. SuiteLast(t)
  <2> SUFFICES ASSUME t # <<>> PROVE Last(t) = Last(s)
    BY DEF WellMade, SuiteLast
  <2>1. Len(t) \in DOMAIN t
    BY <1>1
  <2>2. t[Len(t)] = s[Len(t) + 1]
    BY <1>1, <2>1
  <2> QED BY <1>1, <2>2 DEF Last
<1> QED BY <1>3, <1>4, <1>5, <1>6 DEF WellMade, t

-----------------------------------------------------------------------------
(***************************************************************************)
(* The inductive invariant.                                                *)
(***************************************************************************)
Wheres == {"home", "absent", "inside", "lost"} \cup Places
States == {"idle", "acting", "journal", "stopped", "failed", "refused", "over"}
Running == pc \in {"acting", "journal"}

Typed == /\ ManifestTyped /\ needy \subseteq Refs /\ done \subseteq AllSteps
         /\ at \in [Keys -> Wheres] /\ pc \in States /\ runs \in Nat

\* Between an action and its line in the journal.
Halfway == pc = "journal" =>
   /\ plan # <<>> /\ Next1 \notin done
   /\ Next1.phase \in {"rewrite", "link"} => Next1.item \notin needy

\* What is journaled as rewritten needs it no more.
Recorded == \A a \in done : a.phase \in {"rewrite", "link"} => a.item \notin needy

\* While a run carries out its plan, every action is done or to come.
Planned == Running =>
   /\ \A k \in Mapped : Step("move", k) \in done \cup Range(plan)
   /\ \A k \in Bridgeable : Step("bridge", k) \in done \cup Range(plan)
   /\ plan # <<>> /\ Turn(Next1) <= 2 =>
        \A f \in Tracked \ Links : Step("rewrite", f) \in done \cup Range(plan)
           => \A k \in ReposOf(f) : Step("commit", k) \in Range(plan)

Regular == Typed /\ WellMade(plan) /\ Halfway /\ Recorded /\ Planned

There(k) == at[k] = map[k]

\* What is journaled has moved, what is not is where it was, or its line is still to come.
Stands == \A k \in Mapped : /\ HasMoved(k) => There(k)
                            /\ ~HasMoved(k) => at[k] \in {"home", "absent"} \/ There(k)

\* What the manifest does not name was left at home, or went along with what it lies in.
GoesAlong == \A k \in Keys \ Mapped :
   /\ at[k] \in {"home", "absent", "inside"}
   /\ at[k] = "inside" => Parent[k] \in Mapped /\ There(Parent[k])
   /\ at[k] = "home" => ~(Parent[k] \in Mapped /\ There(Parent[k]))

\* What is still to move is at home, and its place is free.
Clear == \A k \in Mapped : ~HasMoved(k) /\ ~There(k)
                             => at[k] = "home" /\ map[k] \notin blocked \cup Range(at)

\* A migration under way, or begun and cut short, has a clear road, and at most one move
\* is not in the journal: the one just made.
Begun == /\ Running \/ Underway => Clear /\ \A j, k \in Unrecorded : j = k
         /\ pc = "acting" => Unrecorded = {}
         /\ pc = "journal" => \A k \in Unrecorded : Next1 = Step("move", k)
         /\ pc = "journal" /\ Next1.phase = "move" => Next1.item \in Unrecorded

\* What is to be rewritten; a relative link only if the plan is the first.
Wanted(f) == /\ LookedAfter(f)
             /\ IF Adrift(f) THEN runs = 1 ELSE Governs(NamesKey[f]) # {}

\* The rest of the plan has all that is still to rewrite, or its rewrite failed.
Pending == Running => \A f \in needy : Wanted(f) /\ RewriteOf(f) \notin Range(plan)
                                         => f \in failed /\ (clean => BehindBridge(f))

\* A file that still needs rewriting is behind a bridge only when its rewrite has failed.
Behind == /\ \A g \in bridges : g \in Mapped /\ Bridged(g)
          /\ \A f \in needy : /\ Wanted(f) /\ LiesIn[f] # "~"
                              /\ Governs(LiesIn[f]) \cap bridges # {}
                              => f \in failed

\* Before the first plan nothing is done; after the last nothing is left to do.
Bounds == /\ runs = 0 => done = {} /\ bridges = {} /\ pc = "idle"
          /\ pc # "failed"
          /\ pc = "over" => /\ \A k \in Mapped : HasMoved(k)
                            /\ \A f \in needy : Wanted(f) => BehindBridge(f)

Sound == Stands /\ GoesAlong /\ Begun /\ Pending /\ Behind /\ Bounds
Inv == Regular /\ (SharedPlace \/ Sound)

LEMMA EmptyWellMade == WellMade(<<>>)
BY DEF WellMade, InTurn, MovesOf, Hoisted, BridgesOf, SuiteLast, IsInjective

LEMMA InitInv == Init => Inv
<1> SUFFICES ASSUME Init PROVE Inv
  OBVIOUS
<1>1. Typed /\ Halfway /\ Recorded /\ Planned
  BY DEF Init, Typed, ManifestTyped, Wheres, States, Halfway, Recorded, Planned, Running
<1>2. WellMade(plan)
  BY EmptyWellMade DEF Init
<1>3. \A k \in Mapped : ~There(k) /\ ~HasMoved(k) /\ at[k] \in {"home", "absent"}
  <2>1. \A k \in Mapped : map[k] \in Places /\ k \in Keys
    BY <1>1, MapValues DEF Typed
  <2> QED BY <2>1, PlanConstants DEF Init, There, HasMoved
<1>4. Stands /\ Begun /\ Pending /\ Behind /\ Bounds
  BY <1>3 DEF Init, Stands, Begun, Pending, Behind, Bounds, Running, Underway, Unrecorded, There
<1>5. GoesAlong
  BY <1>3 DEF Init, GoesAlong
<1> QED BY <1>1, <1>2, <1>4, <1>5 DEF Inv, Regular, Sound

-----------------------------------------------------------------------------
(***************************************************************************)
(* What a step leaves alone.                                               *)
(***************************************************************************)
LEMMA ManifestFixed ==
  ASSUME [Next]_vars
  PROVE  map' = map /\ blocked' = blocked
BY DEF Next, vars, disk, BuildPlan, Skip, MoveEntry, MoveFails, Rewrite, RewriteFails, Bridge,
       RecordBridges, Rerun, Journal, Finish, Interrupt

LEMMA MapFrame ==
  ASSUME map' = map
  PROVE  /\ Mapped' = Mapped /\ Bridgeable' = Bridgeable
         /\ (SharedPlace' <=> SharedPlace) /\ (ManifestTyped' <=> ManifestTyped)
         /\ \A k : Governs(k)' = Governs(k) /\ (Bridged(k)' <=> Bridged(k))
         /\ \A f : (LookedAfter(f)' <=> LookedAfter(f)) /\ ReposOf(f)' = ReposOf(f)
<1>1. Mapped' = Mapped
  BY DEF Mapped
<1>2. \A k : Bridged(k)' <=> Bridged(k)
  BY DEF Bridged
<1>3. Bridgeable' = Bridgeable
  BY <1>1, <1>2 DEF Bridgeable
<1>4. \A k : Governs(k)' = Governs(k)
  BY <1>1 DEF Governs
<1>5. \A f : (LookedAfter(f)' <=> LookedAfter(f)) /\ ReposOf(f)' = ReposOf(f)
  BY <1>4 DEF LookedAfter, ReposOf
<1> QED BY <1>1, <1>2, <1>3, <1>4, <1>5 DEF SharedPlace, ManifestTyped

LEMMA WellMadeFrame ==
  ASSUME map' = map, WellMade(plan')
  PROVE  WellMade(plan)'
BY MapFrame DEF WellMade, MovesOf, Hoisted, BridgesOf, SuiteLast

LEMMA GroundFrame ==
  ASSUME map' = map, blocked' = blocked, at' = at
  PROVE  /\ \A k : There(k)' <=> There(k)
         /\ GoesAlong' <=> GoesAlong
         /\ done' = done => /\ (Clear' <=> Clear) /\ (Stands' <=> Stands)
                            /\ Unrecorded' = Unrecorded /\ (Underway' <=> Underway)
                            /\ \A k : HasMoved(k)' <=> HasMoved(k)
BY MapFrame DEF Clear, Stands, GoesAlong, There, HasMoved, Unrecorded, Underway

LEMMA WantedFrame ==
  ASSUME map' = map, runs' = runs
  PROVE  \A f : Wanted(f)' <=> Wanted(f)
BY MapFrame DEF Wanted, Adrift

-----------------------------------------------------------------------------
(***************************************************************************)
(* The plan stays well made, and the record of what is done complete.      *)
(***************************************************************************)
\* The first action of a plan, and the rest.
LEMMA FirstAction ==
  ASSUME WellMade(plan), plan # <<>>
  PROVE  /\ Next1 \in AllSteps /\ Next1 = Step(Next1.phase, Next1.item)
         /\ Next1.phase = "move" => Next1.item \in Mapped
         /\ Next1.phase = "bridge" => Next1.item \in Bridgeable
         /\ 1 \in DOMAIN plan /\ DOMAIN plan \subseteq Nat \ {0}
         /\ Range(plan) = {Next1} \cup Range(Tail(plan))
<1>1. /\ plan \in Seq(AllSteps) /\ DOMAIN plan = 1..Len(plan) /\ 1 \in DOMAIN plan
      /\ Range(plan) = {plan[1]} \cup Range(Tail(plan)) /\ Len(plan) \in Nat
  BY TailIs DEF WellMade, InTurn
<1>2. Next1 \in AllSteps
  BY <1>1 DEF Next1
<1>3. Next1 = Step(Next1.phase, Next1.item)
  BY <1>2 DEF AllSteps, Step
<1>4. /\ Next1.phase = "move" => Next1.item \in Mapped
      /\ Next1.phase = "bridge" => Next1.item \in Bridgeable
  BY <1>1 DEF WellMade, MovesOf, BridgesOf, Next1
<1>5. DOMAIN plan \subseteq Nat \ {0}
  BY <1>1
<1>6. Range(plan) = {Next1} \cup Range(Tail(plan))
  BY <1>1 DEF Next1
<1> QED BY <1>1, <1>2, <1>3, <1>4, <1>5, <1>6, Zenon

\* The turns of what is left of a plan.
LEMMA LaterTurns ==
  ASSUME WellMade(plan), plan # <<>>, NEW a \in Range(plan)
  PROVE  a \in AllSteps /\ Turn(Next1) <= Turn(a)
<1>1. PICK i \in DOMAIN plan : plan[i] = a
  BY DEF Range
<1>2. /\ plan \in Seq(AllSteps) /\ 1 \in DOMAIN plan /\ DOMAIN plan \subseteq Nat \ {0}
  BY FirstAction DEF WellMade, InTurn
<1>3. a \in AllSteps /\ Turn(a) \in 1..9
  BY <1>1, <1>2, TurnsOfPhases
<1>4. CASE i = 1
  BY <1>1, <1>3, <1>4 DEF Next1
<1>5. CASE i # 1
  <2>1. 1 < i
    BY <1>2, <1>5
  <2>2. Turn(plan[1]) <= Turn(plan[i])
    BY <1>2, <2>1 DEF WellMade, InTurn
  <2> QED BY <1>1, <1>3, <2>2 DEF Next1
<1> QED BY <1>4, <1>5

\* A step that takes an action from the plan which is done already, or now, or which is
\* neither a move nor a bridge, and no rewrite that is not done.
LEMMA FollowingPlanned ==
  ASSUME Regular, Running, plan # <<>>, plan' = Tail(plan), map' = map,
         done' \in {done, done \cup {Next1}},
         Next1 \in done' \/ Next1.phase \notin {"move", "bridge"}
  PROVE  Planned' /\ WellMade(plan)'
<1>1. WellMade(plan')
  BY TailWellMade DEF Regular
<1>2. WellMade(plan)'
  BY <1>1, WellMadeFrame
<1>3. /\ Range(plan) = {Next1} \cup Range(plan') /\ Next1 = Step(Next1.phase, Next1.item)
      /\ Next1 \in AllSteps
  BY FirstAction DEF Regular
<1>4. \A p \in {"move", "bridge"} : \A k :
        Step(p, k) \in done \cup Range(plan) => Step(p, k) \in done' \cup Range(plan')
  BY <1>3 DEF Step
<1>5. /\ \A k \in Mapped' : Step("move", k) \in done' \cup Range(plan')
      /\ \A k \in Bridgeable' : Step("bridge", k) \in done' \cup Range(plan')
  BY <1>4, MapFrame DEF Regular, Planned
<1>6. ASSUME plan' # <<>>, Turn(Next1') <= 2, NEW f \in Tracked \ Links,
             Step("rewrite", f) \in done' \cup Range(plan'), NEW k \in ReposOf(f)'
      PROVE  Step("commit", k) \in Range(plan')
  <2>1. Next1' \in Range(plan)
    <3>1. plan' \in Seq(AllSteps) /\ 1 \in DOMAIN plan'
      BY <1>1, <1>6, TailIs DEF WellMade, InTurn
    <3> QED BY <3>1, <1>3 DEF Next1, Range
  <2>2. Turn(Next1) <= Turn(Next1') /\ Turn(Next1) \in 1..9 /\ Turn(Next1') \in 1..9
    BY <2>1, <1>3, LaterTurns, TurnsOfPhases DEF Regular
  <2>3. Turn(Next1) <= 2
    BY <2>2, <1>6
  <2>4. Step("rewrite", f) \in done \cup Range(plan)
    BY <1>3, <1>6
  <2>5. k \in ReposOf(f)
    BY <1>6, MapFrame
  <2>6. Step("commit", k) \in Range(plan)
    BY <2>3, <2>4, <2>5 DEF Regular, Planned
  <2>7. Next1.phase # "commit"
    BY <1>3, <2>3, TurnsOfPhases
  <2>8. Step("commit", k) # Next1
    BY <2>7 DEF Step
  <2> QED BY <2>6, <2>8, <1>3
<1> QED BY <1>2, <1>5, <1>6 DEF Planned

\* A step that leaves the plan alone.
LEMMA StayingPlanned ==
  ASSUME Regular, plan' = plan, done' = done, map' = map, Running' => Running
  PROVE  Planned' /\ WellMade(plan)'
<1>1. WellMade(plan)'
  BY WellMadeFrame DEF Regular
<1> QED BY <1>1, MapFrame DEF Regular, Planned, Next1

LEMMA BuildPlanPlanned ==
  ASSUME Regular, BuildPlan
  PROVE  Planned' /\ WellMade(plan)'
<1>1. map' = map /\ done' = done
  BY DEF BuildPlan, kept
<1>2. CASE Preflight # {}
  <2>1. WellMade(plan') /\ pc' = "refused"
    BY <1>2, EmptyWellMade DEF BuildPlan
  <2> QED BY <1>1, <2>1, WellMadeFrame DEF Planned, Running
<1>3. CASE Preflight = {}
  <2>1. plan' = Actions
    BY <1>3 DEF BuildPlan
  <2>2. /\ WellMade(Actions) /\ \A k \in Mapped : Step("move", k) \in Range(Actions)
        /\ \A k \in Bridgeable : Step("bridge", k) \in Range(Actions)
        /\ \A f : Step("rewrite", f) \in Range(Actions) => f \in Rewrites
        /\ \A k \in Repos : Step("commit", k) \in Range(Actions)
    BY ActionsWellMade DEF Regular, Typed
  <2>3. ASSUME NEW f \in Tracked \ Links, Step("rewrite", f) \in done \cup Range(Actions)
        PROVE  ReposOf(f) \subseteq Repos
    <3>1. Committed(f)
      BY <2>2, <2>3 DEF Committed
    <3>2. f \in Refs \ Links /\ LiesIn[f] # "~"
      BY PlanConstants
    <3> QED BY <3>1, <3>2 DEF Repos
  <2>4. \A f \in Tracked \ Links : Step("rewrite", f) \in done \cup Range(Actions)
          => \A k \in ReposOf(f) : Step("commit", k) \in Range(Actions)
    BY <2>2, <2>3
  <2> QED BY <1>1, <2>1, <2>2, <2>4, WellMadeFrame, MapFrame DEF Planned
<1> QED BY <1>2, <1>3

LEMMA RegularNext ==
  ASSUME Regular, [Next]_vars
  PROVE  Regular'
<1> USE ManifestFixed, MapFrame
<1>1. CASE BuildPlan
  <2>1. Typed' /\ Halfway' /\ Recorded'
    BY <1>1 DEF BuildPlan, disk, kept, Regular, Typed, States, Halfway, Recorded
  <2> QED BY <1>1, <2>1, BuildPlanPlanned DEF Regular
<1>2. CASE Skip
  <2>1. Planned' /\ WellMade(plan)'
    BY <1>2, FollowingPlanned DEF Skip, Following, kept, Running
  <2>2. Typed' /\ Halfway' /\ Recorded'
    BY <1>2 DEF Skip, disk, kept, Regular, Typed, Halfway, Recorded
  <2> QED BY <2>1, <2>2 DEF Regular
<1>3. CASE MoveEntry
  <2>1. Planned' /\ WellMade(plan)'
    BY <1>3, StayingPlanned DEF MoveEntry, Due, kept, Running
  <2>2. Next1.item \in Mapped
    BY <1>3, FirstAction DEF MoveEntry, Due, Regular
  <2>3. map[Next1.item] \in Wheres /\ "inside" \in Wheres /\ "lost" \in Wheres
    BY <2>2, MapValues DEF Regular, Typed, Wheres
  <2>4. at' \in [Keys -> Wheres]
    BY <1>3, <2>3 DEF MoveEntry, Moved, Regular, Typed
  <2>5. Typed' /\ Recorded'
    BY <1>3, <2>4 DEF MoveEntry, kept, Regular, Typed, States, Recorded
  <2>6. Halfway'
    BY <1>3 DEF MoveEntry, Due, kept, Halfway, Next1
  <2> QED BY <2>1, <2>5, <2>6 DEF Regular
<1>4. CASE Rewrite \/ Bridge \/ RecordBridges
  <2>1. /\ plan' = plan /\ done' = done /\ needy' \subseteq needy /\ at' = at /\ runs' = runs
        /\ pc = "acting" /\ pc' = "journal" /\ plan # <<>> /\ Next1 \notin done
        /\ Next1.phase \in {"rewrite", "link"} => Next1.item \notin needy'
    BY <1>4 DEF Rewrite, Bridge, RecordBridges, Due, disk, kept
  <2>2. Planned' /\ WellMade(plan)'
    BY <2>1, StayingPlanned DEF Running
  <2>3. Typed' /\ Halfway' /\ Recorded'
    BY <2>1 DEF Regular, Typed, States, Halfway, Recorded, Next1
  <2> QED BY <2>2, <2>3 DEF Regular
<1>5. CASE RewriteFails \/ Rerun
  <2>1. /\ plan' = Tail(plan) /\ done' = done /\ needy' = needy /\ at' = at /\ runs' = runs
        /\ pc = "acting" /\ pc' = pc /\ plan # <<>> /\ Next1.phase \notin {"move", "bridge"}
    BY <1>5 DEF RewriteFails, Rerun, Due, Following, disk, kept, AlwaysRerun
  <2>2. Planned' /\ WellMade(plan)'
    BY <2>1, FollowingPlanned DEF Running
  <2>3. Typed' /\ Halfway' /\ Recorded'
    BY <2>1 DEF Regular, Typed, Halfway, Recorded
  <2> QED BY <2>2, <2>3 DEF Regular
<1>6. CASE Journal
  <2>1. /\ plan' = Tail(plan) /\ done' = done \cup {Next1} /\ needy' = needy /\ at' = at
        /\ runs' = runs /\ pc = "journal" /\ pc' = "acting" /\ plan # <<>>
        /\ Next1.phase \in {"rewrite", "link"} => Next1.item \notin needy
    BY <1>6 DEF Journal, Following, disk, Regular, Halfway
  <2>2. Planned' /\ WellMade(plan)'
    BY <2>1, FollowingPlanned DEF Running
  <2>3. Next1 \in AllSteps
    BY <2>1, FirstAction DEF Regular
  <2>4. Typed' /\ Halfway' /\ Recorded'
    BY <2>1, <2>3 DEF Regular, Typed, States, Halfway, Recorded
  <2> QED BY <2>2, <2>4 DEF Regular
<1>7. CASE MoveFails \/ Finish \/ Interrupt
  <2>1. /\ plan' = plan /\ done' = done /\ needy' = needy /\ at' = at /\ runs' = runs
        /\ pc' \in {"stopped", "failed", "over"}
    BY <1>7 DEF MoveFails, Finish, Interrupt, disk, kept
  <2>2. Planned' /\ WellMade(plan)'
    BY <2>1, StayingPlanned DEF Running
  <2>3. Typed' /\ Halfway' /\ Recorded'
    BY <2>1 DEF Regular, Typed, States, Halfway, Recorded
  <2> QED BY <2>2, <2>3 DEF Regular
<1>8. CASE UNCHANGED vars
  <2>1. Planned' /\ WellMade(plan)'
    BY <1>8, StayingPlanned DEF vars, kept, Running
  <2>2. Typed' /\ Halfway' /\ Recorded'
    BY <1>8 DEF vars, disk, kept, Regular, Typed, Halfway, Recorded, Next1
  <2> QED BY <2>1, <2>2 DEF Regular
<1> QED BY <1>1, <1>2, <1>3, <1>4, <1>5, <1>6, <1>7, <1>8 DEF Next

LEMMA AlwaysRegular == Spec => []Regular
<1>1. Init => Regular
  BY InitInv DEF Inv
<1> QED BY <1>1, RegularNext, PTL DEF Spec

\* What Migrate assumes of a plan is true of each that build_plan makes, for any manifest, and
\* of what is left of it at any moment of a migration, however often that was cut short:
\* apply_plan and the journal between them leave no move, commit or bridge out.
THEOREM PlansAreAsAssumed == Spec => []PlanIsAsAssumed
<1>1. ASSUME Regular, pc \in {"acting", "journal"} PROVE PlanIsAsAssumed
  <2>1. /\ InTurn(plan, 1, 9) /\ MovesOf(plan) /\ BridgesOf(plan) /\ SuiteLast(plan)
        /\ Planned /\ Running
    BY <1>1 DEF Regular, WellMade, Running
  <2>2. /\ IsInjective(plan)
        /\ \A i, j \in DOMAIN plan : i < j => Turn(plan[i]) <= Turn(plan[j])
    BY <2>1 DEF InTurn
  <2>3. \A i \in DOMAIN plan : /\ plan[i].phase = "move" => plan[i].item \in Mapped
                               /\ plan[i].phase = "bridge" => Bridged(plan[i].item)
    BY <2>1 DEF MovesOf, BridgesOf, Bridgeable
  <2>4. \A k \in Mapped : Bridged(k) => Step("bridge", k) \in done \cup Range(plan)
    BY <2>1 DEF Planned, Bridgeable
  <2> QED BY <2>1, <2>2, <2>3, <2>4 DEF PlanIsAsAssumed, Planned, SuiteLast
<1>2. Regular => PlanIsAsAssumed
  BY <1>1 DEF PlanIsAsAssumed
<1> QED BY <1>2, AlwaysRegular, PTL

-----------------------------------------------------------------------------
(***************************************************************************)
(* Each action keeps the invariant, if no two entries go to one place.     *)
(***************************************************************************)
\* A plan has no errors when the road is clear and the journal complete, and only then.
LEMMA ClearIsPreflight ==
  ASSUME Typed
  PROVE  /\ Unrecorded \subseteq Preflight
         /\ Clear => Preflight = Unrecorded
         /\ Preflight = {} => Clear /\ Unrecorded = {}
<1>1. Mapped \subseteq Keys /\ at \in [Keys -> Wheres]
  BY MapValues DEF Typed
<1>2. Unrecorded \subseteq Preflight
  BY <1>1 DEF Unrecorded, Preflight, Range
<1>3. Clear => Preflight \subseteq Unrecorded
  BY DEF Clear, Preflight, Unrecorded, There
<1>4. Preflight = {} => Clear
  BY DEF Clear, Preflight
<1> QED BY <1>2, <1>3, <1>4

\* On a clear road every file whose references the migration looks after is inspected, if it
\* is not behind a bridge, and rewritten if the manifest moves what it names, or if it is a
\* link that has not moved.
LEMMA WantedIsRewritten ==
  ASSUME Typed, Stands, Clear, Unrecorded = {}, NEW f \in needy, LookedAfter(f),
         IF Adrift(f) THEN \A k \in Mapped : ~HasMoved(k) ELSE Governs(NamesKey[f]) # {},
         LiesIn[f] # "~" => Governs(LiesIn[f]) \cap bridges = {}
  PROVE  f \in Rewrites
<1>1. LiesIn[f] \in (Keys \ Loose) \cup {"~"}
  BY PlanConstants DEF Typed, Refs, Range
<1>2. \A g \in Mapped : g \notin bridges => Locatable(g)
  BY DEF Clear, Stands, Locatable, There, Unrecorded
<1>3. Inspected(f)
  <2>1. CASE LiesIn[f] = "~"
    BY <2>1 DEF Inspected
  <2>2. CASE LiesIn[f] # "~"
    <3>1. LiesIn[f] \in Keys \ Loose /\ Governs(LiesIn[f]) # {}
      BY <1>1, <2>2 DEF LookedAfter
    <3>2. Governs(LiesIn[f]) \subseteq Mapped /\ Governs(LiesIn[f]) \cap Loose = {}
      BY <3>1, GovernsIs DEF Typed
    <3> QED BY <1>2, <2>2, <3>1, <3>2 DEF Inspected
  <2> QED BY <2>1, <2>2
<1>4. Changes(f)
  <2>1. CASE Adrift(f)
    <3>1. LiesIn[f] \in Keys
      BY <1>1, <2>1 DEF Adrift
    <3>2. Governs(LiesIn[f]) \subseteq Mapped
      BY <3>1, GovernsIs DEF Typed
    <3> QED BY <2>1, <3>2 DEF Changes, Clear, Adrift, Unrecorded, There
  <2>2. CASE ~Adrift(f)
    BY <2>2 DEF Changes, Adrift
  <2> QED BY <2>1, <2>2
<1> QED BY <1>3, <1>4 DEF Rewrites

LEMMA BuildPlanSound ==
  ASSUME Typed, Sound, BuildPlan
  PROVE  Sound'
<1>1. /\ map' = map /\ at' = at /\ blocked' = blocked /\ done' = done /\ needy' = needy
      /\ bridges' = bridges /\ failed' = failed
      /\ runs' = runs + 1 /\ runs' \in Nat /\ runs' # 0 /\ errors' = Preflight
  BY DEF BuildPlan, Typed, disk, kept
<1>2. Stands' /\ GoesAlong'
  BY <1>1, GroundFrame DEF Sound
<1>3. \A f : Wanted(f)' => Wanted(f) \/ (Adrift(f) /\ runs = 0)
  BY <1>1, MapFrame DEF Wanted, Adrift, Typed
<1>4. Behind'
  <2>1. runs = 0 => bridges = {}
    BY DEF Sound, Bounds
  <2> QED BY <1>1, <1>3, <2>1, MapFrame DEF Sound, Behind
<1>5. CASE Preflight # {}
  <2>1. pc' = "refused" /\ pc \notin {"acting", "journal"}
    BY <1>5 DEF BuildPlan
  <2>2. Begun' /\ Pending' /\ Bounds'
    BY <1>1, <2>1, GroundFrame DEF Sound, Begun, Pending, Bounds, Running
  <2> QED BY <1>2, <1>4, <2>2 DEF Sound
<1>6. CASE Preflight = {}
  <2>1. pc' = "acting" /\ plan' = Actions /\ Clear /\ Unrecorded = {}
    BY <1>6, ClearIsPreflight DEF BuildPlan
  <2>2. \A f \in Rewrites : RewriteOf(f) \in Range(Actions)
    BY ActionsWellMade DEF Typed
  <2>3. ASSUME NEW f \in needy, Wanted(f)', f \notin Rewrites
        PROVE  f \in failed /\ BehindBridge(f)
    <3>1. LookedAfter(f) /\ Governs(NamesKey[f])' = Governs(NamesKey[f])
      BY <1>1, <2>3, MapFrame DEF Wanted
    <3>2. Adrift(f) => \A k \in Mapped : ~HasMoved(k)
      <4>1. Adrift(f) => runs = 0
        BY <1>1, <2>3 DEF Wanted, Adrift, Typed
      <4> QED BY <4>1 DEF Sound, Bounds, HasMoved
    <3>3. ~Adrift(f) => Governs(NamesKey[f]) # {}
      BY <2>3, <3>1 DEF Wanted, Adrift
    <3>4. LiesIn[f] # "~" /\ Governs(LiesIn[f]) \cap bridges # {}
      BY <2>1, <2>3, <3>1, <3>2, <3>3, WantedIsRewritten DEF Sound
    <3>5. Adrift(f) => runs = 0
      BY <1>1, <2>3 DEF Wanted, Adrift, Typed
    <3>6. Wanted(f)
      BY <1>3, <2>3, <3>4, <3>5 DEF Sound, Bounds
    <3>7. f \in failed
      BY <3>4, <3>6 DEF Sound, Behind
    <3> QED BY <3>4, <3>7 DEF BehindBridge, Sound, Behind
  <2>4. \A f : BehindBridge(f) => BehindBridge(f)'
    BY <1>1, MapFrame DEF BehindBridge
  <2>5. Pending'
    BY <1>1, <2>1, <2>2, <2>3, <2>4 DEF Pending
  <2>6. Begun' /\ Bounds'
    BY <1>1, <2>1, GroundFrame DEF Begun, Bounds, Running
  <2> QED BY <1>2, <1>4, <2>5, <2>6 DEF Sound
<1> QED BY <1>5, <1>6

\* A step of a run that moves nothing and makes no reference worse.
LEMMA RunningFrame ==
  ASSUME Sound, pc # "idle", UNCHANGED <<map, at, blocked, done, runs>>, needy' \subseteq needy,
         failed \subseteq failed', bridges' \subseteq bridges
  PROVE  /\ Stands' /\ GoesAlong' /\ Behind' /\ runs' # 0
         /\ (Clear' <=> Clear) /\ Unrecorded' = Unrecorded /\ (Underway' <=> Underway)
         /\ \A f : (Wanted(f)' <=> Wanted(f)) /\ (BehindBridge(f) => BehindBridge(f)')
<1>1. Stands' /\ GoesAlong' /\ (Clear' <=> Clear) /\ Unrecorded' = Unrecorded
      /\ (Underway' <=> Underway)
  BY GroundFrame DEF Sound
<1>2. \A f : Wanted(f)' <=> Wanted(f)
  BY WantedFrame
<1>3. \A f : BehindBridge(f) => BehindBridge(f)'
  BY MapFrame DEF BehindBridge
<1>4. Behind'
  BY <1>2, MapFrame DEF Sound, Behind
<1>5. runs' # 0
  BY DEF Sound, Bounds
<1> QED BY <1>1, <1>2, <1>3, <1>4, <1>5

\* An action is passed over or fails, and the run goes on.
LEMMA FollowingSound ==
  ASSUME Regular, Sound, pc = "acting", pc' = "acting", plan # <<>>, plan' = Tail(plan),
         UNCHANGED <<map, at, blocked, done, runs>>, needy' = needy,
         failed \subseteq failed', bridges' \subseteq bridges, clean' => clean,
         \A f \in needy : Next1 = RewriteOf(f) => f \in failed' /\ ~clean'
  PROVE  Sound'
<1>1. Stands' /\ GoesAlong' /\ Behind'
  BY RunningFrame
<1>2. Range(plan) = {Next1} \cup Range(plan')
  BY FirstAction DEF Regular
<1>3. Pending'
  BY <1>2, RunningFrame DEF Sound, Pending, Running
<1>4. Begun'
  BY RunningFrame DEF Sound, Begun, Running
<1>5. Bounds'
  BY RunningFrame DEF Bounds
<1> QED BY <1>1, <1>3, <1>4, <1>5 DEF Sound

\* A rewrite or a bridge's record is made, and its line is to come.
LEMMA RewriteSound ==
  ASSUME Regular, Sound, pc = "acting", pc' = "journal", plan' = plan,
         UNCHANGED <<map, at, blocked, done, runs, failed, clean>>, needy' \subseteq needy,
         bridges' \subseteq bridges, Next1.phase # "move"
  PROVE  Sound'
<1>1. Stands' /\ GoesAlong' /\ Behind'
  BY RunningFrame
<1>2. Pending'
  BY RunningFrame DEF Sound, Pending, Running
<1>3. Begun'
  BY RunningFrame DEF Sound, Begun, Running, Next1
<1>4. Bounds'
  BY RunningFrame DEF Bounds
<1> QED BY <1>1, <1>2, <1>3, <1>4 DEF Sound

\* When the bridges' turn has come every rewrite has been made, or has failed.
LEMMA BridgeSound ==
  ASSUME Regular, Sound, Bridge
  PROVE  Sound'
<1>1. /\ pc = "acting" /\ pc' = "journal" /\ plan' = plan /\ plan # <<>> /\ needy' = needy
      /\ UNCHANGED <<map, at, blocked, done, runs, failed, clean>>
      /\ bridges' = bridges \cup {Next1.item} /\ Next1.phase = "bridge"
  BY DEF Bridge, Due, kept
<1>2. Next1.item \in Mapped /\ Bridged(Next1.item) /\ Next1 \in AllSteps
  BY <1>1, FirstAction DEF Regular, Bridgeable
<1>3. Stands' /\ GoesAlong' /\ (Clear' <=> Clear) /\ Unrecorded' = Unrecorded
      /\ (Underway' <=> Underway)
  BY <1>1, GroundFrame DEF Sound
<1>4. \A f : Wanted(f)' <=> Wanted(f)
  BY <1>1, WantedFrame
<1>5. \A f : BehindBridge(f) => BehindBridge(f)'
  BY <1>1, MapFrame DEF BehindBridge
<1>6. \A f : RewriteOf(f) \notin Range(plan)
  <2> SUFFICES ASSUME NEW f, RewriteOf(f) \in Range(plan) PROVE FALSE
    OBVIOUS
  <2>1. RewriteOf(f) \in AllSteps /\ Turn(Next1) <= Turn(RewriteOf(f))
    BY <1>1, LaterTurns DEF Regular
  <2>2. Turn(RewriteOf(f)) = 2 /\ Turn(Next1) = 6
    BY <1>1, <1>2, <2>1, TurnsOfPhases DEF RewriteOf, Step
  <2> QED BY <2>1, <2>2
<1>7. \A f \in needy : Wanted(f) => f \in failed
  BY <1>1, <1>6 DEF Sound, Pending, Running
<1>8. Behind'
  BY <1>1, <1>2, <1>4, <1>7, MapFrame DEF Sound, Behind
<1>9. Pending'
  BY <1>1, <1>4, <1>5 DEF Sound, Pending, Running
<1>10. Begun'
  BY <1>1, <1>3 DEF Sound, Begun, Running, Next1
<1>11. Bounds'
  BY <1>1 DEF Sound, Bounds
<1> QED BY <1>3, <1>8, <1>9, <1>10, <1>11 DEF Sound

LEMMA MoveEntrySound ==
  ASSUME Regular, Sound, ~SharedPlace, MoveEntry
  PROVE  Sound'
<1>0. PICK p : p = Next1.item
  OBVIOUS
<1>1. /\ map' = map /\ blocked' = blocked /\ needy' = needy /\ bridges' = bridges
      /\ done' = done /\ failed' = failed /\ clean' = clean /\ plan' = plan /\ runs' = runs
      /\ pc = "acting" /\ pc' = "journal" /\ plan # <<>> /\ Next1.phase = "move"
      /\ Next1 \notin done /\ at' = Moved(p)
  BY <1>0 DEF MoveEntry, Due, kept
<1>2. /\ p \in Mapped /\ ~HasMoved(p) /\ Next1 = Step("move", p) /\ 1 \in DOMAIN plan
      /\ DOMAIN plan \subseteq Nat \ {0}
  BY <1>0, <1>1, FirstAction DEF Regular, HasMoved
<1>3. Clear /\ Unrecorded = {}
  BY <1>1 DEF Sound, Begun, Running
<1>4. at[p] = "home" /\ map[p] \notin blocked \cup Range(at)
  BY <1>2, <1>3 DEF Clear, Unrecorded, There
<1>5. /\ Mapped \subseteq Keys /\ map \in [Mapped -> Places] /\ Mapped' = Mapped
      /\ at \in [Keys -> Wheres]
  BY <1>1, MapValues, MapFrame DEF Regular, Typed
\* What lies in an entry that moves, and moves itself, has moved before.
<1>6. \A k \in Mapped : ~HasMoved(k) => Parent[k] # p
  <2> SUFFICES ASSUME NEW k \in Mapped, ~HasMoved(k), Parent[k] = p PROVE FALSE
    OBVIOUS
  <2>1. k \in Nested /\ p \notin Nested
    BY <1>2, <1>5, PlanConstants DEF Nested
  <2>2. Step("move", k) \in Range(plan)
    BY <1>1 DEF Regular, Planned, Running, HasMoved
  <2>3. PICK i \in DOMAIN plan : plan[i] = Step("move", k)
    BY <2>2 DEF Range
  <2>4. /\ plan[i].phase = "move" /\ plan[i].item = k /\ plan[1].phase = "move"
        /\ plan[1].item = p
    BY <2>3, <1>2 DEF Step, Next1
  <2>5. i < 1
    BY <2>1, <2>4, <1>2 DEF Regular, WellMade, Hoisted
  <2> QED BY <2>5, <1>2
<1>7. /\ at'[p] = map[p]
      /\ \A j \in Keys : j # p /\ Parent[j] = p /\ at[j] = "home" => at'[j] = "inside"
      /\ \A j \in Keys : j # p /\ ~(Parent[j] = p /\ at[j] = "home") => at'[j] = at[j]
  <2>1. \A j \in Keys : at[j] # map[p]
    BY <1>4, <1>5 DEF Range
  <2>2. at' = [j \in Keys |-> IF j = p THEN map[p]
                              ELSE IF Parent[j] = p /\ at[j] = "home" THEN "inside"
                              ELSE IF at[j] = map[p] THEN "lost" ELSE at[j]]
    BY <1>1 DEF Moved
  <2> QED BY <2>1, <2>2, <1>2, <1>5
<1>8. Range(at') \subseteq Range(at) \cup {map[p], "inside"}
  <2>1. DOMAIN at' = Keys /\ DOMAIN at = Keys
    BY <1>1, <1>5 DEF Moved
  <2> QED BY <2>1, <1>7 DEF Range
<1>9. /\ \A k : HasMoved(k)' <=> HasMoved(k)
      /\ \A k \in Mapped : map[k] \notin {"home", "inside", "lost", "absent"}
  BY <1>1, <1>5, PlanConstants DEF HasMoved
\* Of what has to move, nothing but p is in another place than before.
<1>10. \A k \in Mapped : k # p => at'[k] = at[k] /\ (There(k)' <=> There(k))
  <2> SUFFICES ASSUME NEW k \in Mapped, k # p PROVE at'[k] = at[k]
    BY <1>1 DEF There
  <2>1. CASE HasMoved(k)
    <3>1. at[k] = map[k] /\ at[k] # "home"
      BY <2>1, <1>9 DEF Sound, Stands, There
    <3> QED BY <3>1, <1>5, <1>7
  <2>2. CASE ~HasMoved(k)
    BY <2>2, <1>5, <1>6, <1>7
  <2> QED BY <2>1, <2>2
<1>11. There(p)' /\ Unrecorded' = {p}
  <2>1. There(p)'
    BY <1>1, <1>7 DEF There
  <2>2. \A k \in Mapped : k # p /\ There(k)' => HasMoved(k)
    BY <1>3, <1>10 DEF Unrecorded, There
  <2>3. Unrecorded' = {k \in Mapped : There(k)' /\ ~HasMoved(k)}
    BY <1>5, <1>9 DEF Unrecorded, There
  <2> QED BY <2>1, <2>2, <2>3, <1>2
<1>12. Clear'
  <2> SUFFICES ASSUME NEW k \in Mapped, k # p, ~HasMoved(k), ~There(k)
               PROVE  at'[k] = "home" /\ map[k] \notin blocked \cup Range(at')
    BY <1>1, <1>5, <1>9, <1>10, <1>11 DEF Clear
  <2>1. at[k] = "home" /\ map[k] \notin blocked \cup Range(at)
    BY <1>3 DEF Clear
  <2>2. map[k] # map[p] /\ map[k] # "inside"
    BY <1>2, <1>9 DEF SharedPlace
  <2> QED BY <2>1, <2>2, <1>8, <1>10
<1>13. Stands'
  <2> SUFFICES ASSUME NEW k \in Mapped
               PROVE  /\ HasMoved(k) => There(k)'
                      /\ ~HasMoved(k) => at'[k] \in {"home", "absent"} \/ There(k)'
    BY <1>5, <1>9 DEF Stands
  <2>1. CASE k = p
    BY <2>1, <1>11
  <2>2. CASE k # p
    BY <2>2, <1>10 DEF Sound, Stands
  <2> QED BY <2>1, <2>2
<1>14. GoesAlong'
  <2> SUFFICES ASSUME NEW k \in Keys \ Mapped
               PROVE  /\ at'[k] \in {"home", "absent", "inside"}
                      /\ at'[k] = "inside" => Parent[k] \in Mapped /\ There(Parent[k])'
                      /\ at'[k] = "home" => ~(Parent[k] \in Mapped /\ There(Parent[k])')
    BY <1>5 DEF GoesAlong
  <2>1. /\ at[k] \in {"home", "absent", "inside"} /\ k # p
        /\ at[k] = "inside" => Parent[k] \in Mapped /\ There(Parent[k])
        /\ at[k] = "home" => ~(Parent[k] \in Mapped /\ There(Parent[k]))
    BY <1>2 DEF Sound, GoesAlong
  <2>2. CASE Parent[k] = p
    BY <2>1, <2>2, <1>2, <1>7, <1>11
  <2>3. CASE Parent[k] # p
    BY <2>1, <2>3, <1>7, <1>10
  <2> QED BY <2>2, <2>3
<1>15. Begun'
  <2>1. Next1' = Next1
    BY <1>1 DEF Next1
  <2> QED BY <2>1, <1>0, <1>1, <1>2, <1>11, <1>12 DEF Begun
<1>16. \A f : Wanted(f)' <=> Wanted(f)
  BY <1>1, WantedFrame
<1>17. \A f : BehindBridge(f) => BehindBridge(f)'
  BY <1>1, MapFrame DEF BehindBridge
<1>18. Pending' /\ Behind'
  BY <1>1, <1>16, <1>17, MapFrame DEF Sound, Pending, Behind, Running
<1>19. Bounds'
  BY <1>1 DEF Sound, Bounds
<1> QED BY <1>13, <1>14, <1>15, <1>18, <1>19 DEF Sound

\* The line that was to come is in the journal.
LEMMA JournalSound ==
  ASSUME Regular, Sound, Journal
  PROVE  Sound'
<1>1. /\ pc = "journal" /\ pc' = "acting" /\ plan # <<>> /\ plan' = Tail(plan)
      /\ done' = done \cup {Next1} /\ Next1 \notin done
      /\ UNCHANGED <<map, at, blocked, needy, bridges, runs, failed, clean>>
  BY DEF Journal, Following, disk, Regular, Halfway
<1>2. Next1 = Step(Next1.phase, Next1.item) /\ Range(plan) = {Next1} \cup Range(plan')
  BY <1>1, FirstAction DEF Regular
<1>3. GoesAlong' /\ (\A k : There(k)' <=> There(k)) /\ Mapped' = Mapped
  BY <1>1, GroundFrame, MapFrame DEF Sound
<1>4. Clear /\ (\A k \in Unrecorded : Next1 = Step("move", k))
      /\ (Next1.phase = "move" => Next1.item \in Unrecorded)
  BY <1>1 DEF Sound, Begun, Running
<1>5. \A k : HasMoved(k)' <=> HasMoved(k) \/ Next1 = Step("move", k)
  BY <1>1 DEF HasMoved
<1>6. \A k : Next1 = Step("move", k) => There(k)
  BY <1>4 DEF Unrecorded, There, Step
<1>7. Stands'
  BY <1>1, <1>3, <1>5, <1>6 DEF Sound, Stands
<1>8. Clear'
  BY <1>1, <1>3, <1>4, <1>5 DEF Clear
<1>9. Unrecorded' = {}
  BY <1>3, <1>4, <1>5 DEF Unrecorded, There
<1>10. Begun'
  BY <1>1, <1>8, <1>9 DEF Begun
<1>11. \A f : (Wanted(f)' <=> Wanted(f)) /\ (BehindBridge(f) => BehindBridge(f)')
  BY <1>1, WantedFrame, MapFrame DEF BehindBridge
<1>12. \A f \in needy : RewriteOf(f) # Next1
  BY <1>1 DEF Regular, Halfway, RewriteOf, Step
<1>13. Pending' /\ Behind'
  BY <1>1, <1>2, <1>11, <1>12, MapFrame DEF Sound, Pending, Behind, Running
<1>14. Bounds'
  BY <1>1 DEF Sound, Bounds
<1> QED BY <1>3, <1>7, <1>10, <1>13, <1>14 DEF Sound

\* A run ends, or is cut short.
LEMMA EndingSound ==
  ASSUME Regular, Sound, Finish \/ Interrupt
  PROVE  Sound'
<1>1. /\ Running /\ plan' = plan /\ UNCHANGED <<map, at, blocked, done, runs, needy, bridges>>
      /\ failed' = failed /\ clean' = clean
      /\ pc' = "stopped" \/ (pc' = "over" /\ pc = "acting" /\ plan = <<>> /\ clean)
  BY DEF Finish, Interrupt, disk, kept, Running
<1>2. /\ Stands' /\ GoesAlong' /\ Behind' /\ runs' # 0
      /\ (Clear' <=> Clear) /\ Unrecorded' = Unrecorded
      /\ \A f : (Wanted(f)' <=> Wanted(f)) /\ (BehindBridge(f) => BehindBridge(f)')
  BY <1>1, RunningFrame DEF Running
<1>3. Begun' /\ Pending'
  BY <1>1, <1>2 DEF Sound, Begun, Pending, Running
<1>4. pc' = "over" => (\A k \in Mapped : HasMoved(k))
                      /\ \A f \in needy : Wanted(f) => BehindBridge(f)
  <2>1. Range(<<>>) = {}
    BY DEF Range
  <2> QED BY <2>1, <1>1 DEF Sound, Pending, Regular, Planned, HasMoved
<1>5. Mapped' = Mapped /\ \A k : HasMoved(k)' <=> HasMoved(k)
  BY <1>1, MapFrame DEF HasMoved
<1>6. Bounds'
  BY <1>1, <1>2, <1>4, <1>5 DEF Bounds
<1> QED BY <1>2, <1>3, <1>6 DEF Sound

LEMMA SoundNext ==
  ASSUME Regular, Sound, ~SharedPlace, [Next]_vars
  PROVE  Sound'
<1>1. CASE BuildPlan
  BY <1>1, BuildPlanSound DEF Regular
<1>2. CASE Skip
  <2>1. \A f \in needy : Next1 # RewriteOf(f)
    BY <1>2 DEF Skip, Regular, Recorded, RewriteOf, Step
  <2> QED BY <1>2, <2>1, FollowingSound DEF Skip, Following, disk, kept
<1>3. CASE MoveEntry
  BY <1>3, MoveEntrySound
<1>4. ~MoveFails
  <2> SUFFICES ASSUME MoveFails PROVE FALSE
    OBVIOUS
  <2> DEFINE p == Next1.item
  <2>1. p \in Mapped /\ ~HasMoved(p) /\ Collides(p) /\ Clear /\ Unrecorded = {}
    BY FirstAction DEF MoveFails, Due, Sound, Begun, Running, Regular, HasMoved
  <2> HIDE DEF p
  <2>2. at[p] = "home" /\ map[p] \notin blocked /\ map[p] \notin Range(at)
    BY <2>1 DEF Clear, Unrecorded, There
  <2>3. Occupants(map[p]) = {}
    BY <2>2 DEF Occupants, Range, Regular, Typed
  <2> QED BY <2>1, <2>2, <2>3 DEF Collides
<1>5. CASE Rewrite \/ RecordBridges
  BY <1>5, RewriteSound DEF Rewrite, RecordBridges, Due, disk, kept
<1>6. CASE RewriteFails
  <2>1. \A f : Next1 = RewriteOf(f) => f = Next1.item
    BY DEF RewriteOf, Step
  <2> QED BY <1>6, <2>1, FollowingSound DEF RewriteFails, Due, Following, disk
<1>7. CASE Bridge
  BY <1>7, BridgeSound
<1>8. CASE Rerun
  <2>1. \A f : Next1 # RewriteOf(f)
    BY <1>8 DEF Rerun, Due, AlwaysRerun, RewriteOf, Step
  <2>2. clean' => clean
    BY <1>8, Zenon DEF Rerun
  <2>3. bridges' \subseteq bridges
    BY <1>8 DEF Rerun
  <2>4. /\ pc = "acting" /\ pc' = "acting" /\ plan # <<>> /\ plan' = Tail(plan)
        /\ UNCHANGED <<map, at, blocked, done, runs, needy, failed>>
    BY <1>8 DEF Rerun, Due, Following, kept
  <2> QED BY <2>1, <2>2, <2>3, <2>4, FollowingSound
<1>9. CASE Journal
  BY <1>9, JournalSound
<1>10. CASE Finish \/ Interrupt
  BY <1>10, EndingSound
<1>11. CASE UNCHANGED vars
  <2>1. UNCHANGED <<map, at, blocked, needy, bridges, done, failed, plan, clean, pc, runs>>
    BY <1>11 DEF vars, disk, kept
  <2>2. \A f : (Wanted(f)' <=> Wanted(f)) /\ (BehindBridge(f)' <=> BehindBridge(f))
    BY <2>1, WantedFrame, MapFrame DEF BehindBridge
  <2>3. Stands' /\ GoesAlong' /\ Begun'
    BY <2>1, GroundFrame DEF Sound, Begun, Running, Next1
  <2>4. Pending' /\ Behind' /\ Bounds'
    BY <2>1, <2>2, GroundFrame, MapFrame DEF Sound, Pending, Behind, Bounds, Running
  <2> QED BY <2>3, <2>4 DEF Sound
<1> QED BY <1>1, <1>2, <1>3, <1>4, <1>5, <1>6, <1>7, <1>8, <1>9, <1>10, <1>11 DEF Next

LEMMA AlwaysSound == Spec => []Inv
<1>1. Inv /\ [Next]_vars => Inv'
  BY RegularNext, SoundNext, ManifestFixed, MapFrame DEF Inv
<1> QED BY <1>1, InitInv, PTL DEF Spec

-----------------------------------------------------------------------------
(***************************************************************************)
(* The theorems.                                                           *)
(***************************************************************************)
\* Whatever the manifest nests in what, no move of a plan without errors meets a missing
\* source or an occupied destination.
THEOREM MovesDoNotFail == Spec => []MovesSucceed
<1>1. Inv => MovesSucceed
  BY DEF Inv, Sound, Bounds, MovesSucceed
<1> QED BY <1>1, AlwaysSound, PTL

\* A migration that was cut short can be taken up, unless the kill came between the rename
\* of an entry and its line in the journal: then that entry is all that the next plan finds
\* wrong.
THEOREM MigrationsResume == Spec => []ResumesClean
<1>1. Inv => ResumesClean
  BY ClearIsPreflight DEF Inv, Regular, Sound, Begun, ResumesClean
<1> QED BY <1>1, AlwaysSound, PTL

\* No entry is lost under another or left inside a directory that has moved away.
THEOREM EntriesAreNotMislaid == Spec => []NothingMislaid
<1>1. Inv => NothingMislaid
  <2> SUFFICES ASSUME Inv, ~SharedPlace, NEW k \in Mapped
               PROVE  at[k] \notin {"inside", "lost"}
    BY DEF NothingMislaid
  <2>1. map[k] \notin {"inside", "lost"}
    BY MapValues, PlanConstants DEF Inv, Regular, Typed
  <2> QED BY <2>1 DEF Inv, Sound, Stands, There
<1> QED BY <1>1, AlwaysSound, PTL

\* When a migration is over, however often it was cut short or failed to write a file,
\* whatever it looks after names its entry where the entry is, but for a relative link of a
\* resumed run and a file whose rewrite failed and that a bridge now hides.
THEOREM ReferencesLead == Spec => []ReferencesFollow
<1>1. Inv => ReferencesFollow
  <2> SUFFICES ASSUME Inv, Settled, NEW f \in Refs, LookedAfter(f),
                      at[NamesKey[f]] # "absent", Adrift(f) => runs = 1, ~BehindBridge(f)
               PROVE  Leads(f)
    BY DEF ReferencesFollow
  <2> DEFINE k == NamesKey[f]
  <2>1. Sound /\ Typed /\ (\A g \in Mapped : HasMoved(g)) /\ (f \in needy => ~Wanted(f))
    BY DEF Inv, Regular, Settled, Sound, Bounds
  <2>2. k \in Keys
    BY PlanConstants DEF Refs
  <2> HIDE DEF k
  <2>3. CASE Governs(k) = {}
    <3>1. k \notin Mapped /\ Parent[k] \notin Mapped
      BY <2>3 DEF Governs
    <3>2. at[k] = "home"
      BY <2>1, <2>2, <3>1 DEF k, Sound, GoesAlong
    <3>3. f \in needy => ~Adrift(f)
      BY <2>1 DEF Wanted
    <3> QED BY <2>3, <3>2, <3>3 DEF Leads, k, Adrift
  <2>4. CASE Governs(k) # {}
    <3>1. PICK g \in Governs(k) : TRUE
      BY <2>4
    <3>2. f \notin needy
      BY <2>1, <2>4 DEF Wanted, k
    <3>3. g \in Mapped /\ (g = k \/ (g # k /\ k \notin Mapped /\ g = Parent[k]))
      BY <2>1, <2>2, GovernsIs DEF Typed
    <3>4. at[g] = map[g]
      BY <2>1, <3>3 DEF Sound, Stands, There
    <3>5. g # k => at[k] = "inside"
      BY <2>1, <2>2, <3>3, <3>4 DEF k, Sound, GoesAlong, There
    <3> QED BY <3>1, <3>2, <3>4, <3>5 DEF Leads, k
  <2> QED BY <2>3, <2>4
<1> QED BY <1>1, AlwaysSound, PTL
=============================================================================
