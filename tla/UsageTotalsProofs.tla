--------------------------- MODULE UsageTotalsProofs ---------------------------
(***************************************************************************)
(* Proofs about what a report computes.  Sums over a set and the merge of  *)
(* the days are recursive functions: the first part shows what they are,   *)
(* by an induction over the subsets of a finite set.  The second reads     *)
(* back the records of atop.  The third is the inductive invariant, which  *)
(* relates any two samples of a log; the rest draws the conclusions, for   *)
(* one process id, for one log, and for a report.                          *)
(***************************************************************************)
EXTENDS UsageTotals, FiniteSetTheorems, WellFoundedInduction, TLAPS

(***************************************************************************)
(* Induction.                                                              *)
(***************************************************************************)

\* A nonempty set of natural numbers has a least element.
LEMMA Least ==
  ASSUME NEW S \in SUBSET Nat, S # {}
  PROVE  \E k \in S : \A j \in S : k <= j
<1> DEFINE R == OpToRel(<, Nat)
<1>1. IsWellFoundedOn(R, Nat)
  BY NatLessThanWellFounded
<1> HIDE DEF R
<1>2. \E k \in S : \A j \in S : ~ (<<j, k>> \in R)
  BY <1>1, WFMin
<1>3. PICK k \in S : \A j \in S : ~ (<<j, k>> \in R)
  BY <1>2
<1>4. \A j \in S : j < k => <<j, k>> \in R
  BY DEF OpToRel, R
<1>5. \A j \in S : ~ (j < k)
  BY <1>3, <1>4
<1>6. k \in Nat /\ \A j \in S : j \in Nat
  OBVIOUS
<1> QED BY <1>5, <1>6

\* What holds of 0, and of k + 1 where it holds of k, holds of all.
LEMMA Counting ==
  ASSUME NEW Good \in SUBSET Nat, 0 \in Good, \A k \in Good : k + 1 \in Good
  PROVE  \A k \in Nat : k \in Good
<1> SUFFICES ASSUME Nat \ Good # {} PROVE FALSE
  OBVIOUS
<1>1. PICK k \in Nat \ Good : \A j \in Nat \ Good : k <= j
  BY Least
<1>2. k - 1 \in Nat /\ (k - 1) + 1 = k
  BY <1>1
<1>3. k - 1 \in Good
  BY <1>1, <1>2
<1> QED BY <1>1, <1>2, <1>3

\* What holds of a subset where it holds of all smaller ones, holds of all.
LEMMA Shrinking ==
  ASSUME NEW T, IsFiniteSet(T), NEW Good \in SUBSET SUBSET T,
         \A S \in SUBSET T : (\A x \in S : S \ {x} \in Good) => S \in Good
  PROVE  \A S \in SUBSET T : S \in Good
<1> DEFINE N == {k \in Nat : \A S \in SUBSET T : Cardinality(S) = k => S \in Good}
<1>1. \A S \in SUBSET T : IsFiniteSet(S) /\ Cardinality(S) \in Nat
  BY FS_Subset, FS_CardinalityType
<1>2. 0 \in N
  <2> SUFFICES ASSUME NEW S \in SUBSET T, Cardinality(S) = 0 PROVE S \in Good
    OBVIOUS
  <2>1. S = {}
    BY <1>1, FS_EmptySet
  <2> QED BY <2>1
<1>3. \A k \in N : k + 1 \in N
  <2> SUFFICES ASSUME NEW k \in N, NEW S \in SUBSET T, Cardinality(S) = k + 1
               PROVE  S \in Good
    OBVIOUS
  <2>1. \A x \in S : Cardinality(S \ {x}) = k
    <3> SUFFICES ASSUME NEW x \in S PROVE Cardinality(S \ {x}) = k
      OBVIOUS
    <3>1. Cardinality(S \ {x}) = Cardinality(S) - 1
      BY <1>1, FS_RemoveElement
    <3> QED BY <3>1
  <2>2. \A x \in S : S \ {x} \in Good
    BY <2>1
  <2> QED BY <2>2
<1> HIDE DEF N
<1>4. N \in SUBSET Nat
  BY DEF N
<1>5. \A k \in Nat : k \in N
  BY <1>2, <1>3, <1>4, Counting
<1> SUFFICES ASSUME NEW S \in SUBSET T PROVE S \in Good
  OBVIOUS
<1>6. Cardinality(S) \in N
  BY <1>1, <1>5
<1> QED BY <1>6 DEF N

\* What holds of {}, and of one more element where it holds of a set, holds of all.
LEMMA Growing ==
  ASSUME NEW T, IsFiniteSet(T), NEW Good \in SUBSET SUBSET T, {} \in Good,
         \A S \in SUBSET T, x \in T : (S \in Good /\ x \notin S) => S \cup {x} \in Good
  PROVE  \A S \in SUBSET T : S \in Good
<1>1. ASSUME NEW S \in SUBSET T, \A x \in S : S \ {x} \in Good
      PROVE  S \in Good
  <2>1. CASE S = {}
    BY <2>1
  <2>2. CASE S # {}
    <3>1. PICK x \in S : TRUE
      BY <2>2
    <3>2. S \ {x} \in Good /\ S \ {x} \in SUBSET T /\ x \in T /\ x \notin S \ {x}
      BY <1>1, <3>1
    <3>3. (S \ {x}) \cup {x} \in Good
      BY <3>2
    <3>4. (S \ {x}) \cup {x} = S
      BY <3>1
    <3> QED BY <3>3, <3>4
  <2> QED BY <2>1, <2>2
<1> QED BY <1>1, Shrinking

\* A finite set of integers has a largest and a smallest element.
LEMMA Extremes ==
  ASSUME NEW S \in SUBSET Int, S # {}, IsFiniteSet(S)
  PROVE  /\ Max(S) \in S /\ \A y \in S : y <= Max(S)
         /\ Min(S) \in S /\ \A y \in S : Min(S) <= y
<1> DEFINE Good == {U \in SUBSET S : U # {} => /\ \E x \in U : \A y \in U : x >= y
                                              /\ \E x \in U : \A y \in U : x <= y}
<1>1. ASSUME NEW U \in SUBSET S, NEW z \in S, U \in Good
      PROVE  U \cup {z} \in Good
  <2>1. CASE U = {}
    <3>1. U \cup {z} = {z} /\ z >= z /\ z <= z
      BY <2>1
    <3> QED BY <3>1
  <2>2. CASE U # {}
    <3>1. PICK a \in U : \A y \in U : a >= y
      BY <1>1, <2>2
    <3>2. PICK b \in U : \A y \in U : b <= y
      BY <1>1, <2>2
    <3> DEFINE A == IF a >= z THEN a ELSE z
               B == IF b <= z THEN b ELSE z
    <3>3. A \in U \cup {z} /\ \A y \in U \cup {z} : A >= y
      BY <3>1
    <3>4. B \in U \cup {z} /\ \A y \in U \cup {z} : B <= y
      BY <3>2
    <3> QED BY <3>3, <3>4
  <2> QED BY <2>1, <2>2
<1>2. {} \in Good /\ Good \in SUBSET SUBSET S
  OBVIOUS
<1> HIDE DEF Good
<1>3. S \in Good
  BY <1>1, <1>2, Growing
<1>4. (\E x \in S : \A y \in S : x >= y) /\ (\E x \in S : \A y \in S : x <= y)
  BY <1>3 DEF Good
<1>5. Max(S) \in S /\ \A y \in S : Max(S) >= y
  BY <1>4 DEF Max
<1>6. Min(S) \in S /\ \A y \in S : Min(S) <= y
  BY <1>4 DEF Min
<1>7. \A y \in S : y \in Int
  OBVIOUS
<1> QED BY <1>5, <1>6, <1>7

(***************************************************************************)
(* Sums.                                                                   *)
(***************************************************************************)
Plucked(s) == CHOOSE x \in s : TRUE
SumStep(f, g, s) == IF s = {} THEN 0 ELSE f[Plucked(s)] + g[s \ {Plucked(s)}]
Sums(g, f, T) == g = [s \in SUBSET T |-> SumStep(f, g, s)]

\* The recursion has a solution.
LEMMA SumExists ==
  ASSUME NEW T, IsFiniteSet(T), NEW f
  PROVE  \E g : g = [s \in SUBSET T |-> SumStep(f, g, s)]
<1> DEFINE Upto(g, k) == \A s \in SUBSET T : Cardinality(s) <= k => g[s] = SumStep(f, g, s)
           N == {k \in Nat : \E g : Upto(g, k)}
<1>1. \A s \in SUBSET T : IsFiniteSet(s) /\ Cardinality(s) \in Nat
  BY FS_Subset, FS_CardinalityType
<1>2. \A s \in SUBSET T : s # {} =>
        /\ s \ {Plucked(s)} \in SUBSET T
        /\ Cardinality(s \ {Plucked(s)}) = Cardinality(s) - 1
  <2> SUFFICES ASSUME NEW s \in SUBSET T, s # {}
               PROVE  Cardinality(s \ {Plucked(s)}) = Cardinality(s) - 1
    OBVIOUS
  <2>1. Plucked(s) \in s
    BY DEF Plucked
  <2> QED BY <2>1, <1>1, FS_RemoveElement
<1>3. 0 \in N
  <2> DEFINE g == [s \in SUBSET T |-> 0]
  <2>1. ASSUME NEW s \in SUBSET T, Cardinality(s) <= 0 PROVE g[s] = SumStep(f, g, s)
    <3>1. Cardinality(s) = 0
      BY <1>1, <2>1
    <3>2. s = {}
      BY <1>1, <3>1, FS_EmptySet
    <3> QED BY <3>2 DEF SumStep
  <2>2. Upto(g, 0)
    BY <2>1
  <2> QED BY <2>2
<1>4. ASSUME NEW g, NEW k \in Nat, Upto(g, k)
      PROVE  Upto([s \in SUBSET T |-> SumStep(f, g, s)], k + 1)
  <2> DEFINE h == [s \in SUBSET T |-> SumStep(f, g, s)]
  <2> SUFFICES ASSUME NEW s \in SUBSET T, Cardinality(s) <= k + 1
               PROVE  h[s] = SumStep(f, h, s)
    OBVIOUS
  <2>1. h[s] = SumStep(f, g, s)
    OBVIOUS
  <2>2. CASE s = {}
    BY <2>1, <2>2 DEF SumStep
  <2>3. CASE s # {}
    <3> DEFINE u == s \ {Plucked(s)}
    <3>1. u \in SUBSET T /\ Cardinality(u) = Cardinality(s) - 1
      BY <1>2, <2>3
    <3>2. Cardinality(s) \in Nat
      BY <1>1
    <3>3. Cardinality(u) <= k
      BY <3>1, <3>2
    <3>4. h[u] = SumStep(f, g, u)
      BY <3>1
    <3>5. g[u] = SumStep(f, g, u)
      BY <1>4, <3>1, <3>3
    <3>6. h[u] = g[u]
      BY <3>4, <3>5
    <3> HIDE DEF h
    <3> QED BY <2>1, <2>3, <3>6 DEF SumStep
  <2> QED BY <2>2, <2>3
<1>5. \A k \in N : k + 1 \in N
  <2> SUFFICES ASSUME NEW k \in N PROVE \E g : Upto(g, k + 1)
    OBVIOUS
  <2>1. PICK g : Upto(g, k)
    OBVIOUS
  <2> HIDE DEF Upto
  <2> QED BY <1>4, <2>1
<1> HIDE DEF N
<1>6. \A k \in Nat : k \in N
  <2>1. N \in SUBSET Nat
    BY DEF N
  <2> QED BY <2>1, <1>3, <1>5, Counting
<1>7. PICK g : Upto(g, Cardinality(T))
  BY <1>1, <1>6 DEF N
<1> DEFINE h == [s \in SUBSET T |-> SumStep(f, g, s)]
<1>8. Upto(h, Cardinality(T) + 1)
  <2> HIDE DEF Upto
  <2> QED BY <1>1, <1>4, <1>7
<1>9. \A s \in SUBSET T : h[s] = SumStep(f, h, s)
  <2> SUFFICES ASSUME NEW s \in SUBSET T PROVE h[s] = SumStep(f, h, s)
    OBVIOUS
  <2>1. Cardinality(s) <= Cardinality(T)
    BY FS_Subset
  <2>2. Cardinality(s) <= Cardinality(T) + 1
    BY <2>1, <1>1
  <2> HIDE DEF h
  <2> QED BY <1>8, <2>2
<1>10. h = [s \in SUBSET T |-> h[s]]
  OBVIOUS
<1> HIDE DEF h
<1>11. h = [s \in SUBSET T |-> SumStep(f, h, s)]
  BY <1>9, <1>10
<1> QED BY <1>11

LEMMA SumIs ==
  ASSUME NEW T, IsFiniteSet(T), NEW f
  PROVE  \E g : Sums(g, f, T) /\ SumFunctionOnSet(f, T) = g[T]
<1> DEFINE it == CHOOSE g : g = [s \in SUBSET T |-> SumStep(f, g, s)]
<1>1. it = [s \in SUBSET T |-> SumStep(f, it, s)]
  BY SumExists
<1>2. SumFunctionOnSet(f, T) = it[T]
  BY DEF SumFunctionOnSet, FoldFunctionOnSet, MapThenFoldSet, Plucked, SumStep
<1> QED BY <1>1, <1>2 DEF Sums

\* Solutions agree where both are one.
LEMMA SumUnique ==
  ASSUME NEW T, IsFiniteSet(T), NEW f, NEW U \in SUBSET T, NEW g, NEW h,
         Sums(g, f, T), Sums(h, f, U)
  PROVE  \A s \in SUBSET U : g[s] = h[s]
<1> DEFINE Good == {s \in SUBSET U : g[s] = h[s]}
<1>1. IsFiniteSet(U)
  BY FS_Subset
<1>2. ASSUME NEW s \in SUBSET U, \A x \in s : s \ {x} \in Good PROVE s \in Good
  <2>1. g[s] = SumStep(f, g, s) /\ h[s] = SumStep(f, h, s)
    BY DEF Sums
  <2>2. CASE s = {}
    BY <2>1, <2>2 DEF SumStep
  <2>3. CASE s # {}
    <3>1. Plucked(s) \in s
      BY <2>3 DEF Plucked
    <3>2. g[s \ {Plucked(s)}] = h[s \ {Plucked(s)}]
      BY <1>2, <3>1
    <3> QED BY <2>1, <2>3, <3>2 DEF SumStep
  <2> QED BY <2>2, <2>3
<1>3. Good \in SUBSET SUBSET U
  OBVIOUS
<1> HIDE DEF Good
<1>4. \A s \in SUBSET U : s \in Good
  BY <1>1, <1>2, <1>3, Shrinking
<1> QED BY <1>4 DEF Good

LEMMA SumNothing == ASSUME NEW f PROVE SumFunctionOnSet(f, {}) = 0
<1>1. PICK g : Sums(g, f, {}) /\ SumFunctionOnSet(f, {}) = g[{}]
  BY SumIs, FS_EmptySet
<1>2. g[{}] = SumStep(f, g, {})
  BY <1>1 DEF Sums
<1> QED BY <1>1, <1>2 DEF SumStep

LEMMA SumPlucked ==
  ASSUME NEW T, IsFiniteSet(T), NEW f, T # {}
  PROVE  SumFunctionOnSet(f, T) = f[Plucked(T)] + SumFunctionOnSet(f, T \ {Plucked(T)})
<1> DEFINE U == T \ {Plucked(T)}
<1>1. PICK g : Sums(g, f, T) /\ SumFunctionOnSet(f, T) = g[T]
  BY SumIs
<1>2. U \in SUBSET T /\ IsFiniteSet(U)
  BY FS_Subset
<1> HIDE DEF U
<1>3. PICK h : Sums(h, f, U) /\ SumFunctionOnSet(f, U) = h[U]
  BY SumIs, <1>2
<1>4. \A s \in SUBSET U : g[s] = h[s]
  BY <1>1, <1>2, <1>3, SumUnique
<1>5. g[T] = SumStep(f, g, T)
  BY <1>1 DEF Sums
<1>6. g[T] = f[Plucked(T)] + g[U]
  BY <1>5 DEF SumStep, U
<1> QED BY <1>1, <1>3, <1>4, <1>6 DEF U

LEMMA SumIntegral ==
  ASSUME NEW T, IsFiniteSet(T), NEW f, \A x \in T : f[x] \in Int
  PROVE  \A S \in SUBSET T : SumFunctionOnSet(f, S) \in Int
<1> DEFINE Good == {S \in SUBSET T : SumFunctionOnSet(f, S) \in Int}
<1>1. ASSUME NEW S \in SUBSET T, \A x \in S : S \ {x} \in Good PROVE S \in Good
  <2>1. CASE S = {}
    <3>1. SumFunctionOnSet(f, S) = 0
      BY <2>1, SumNothing
    <3> QED BY <3>1
  <2>2. CASE S # {}
    <3>1. Plucked(S) \in S
      BY <2>2 DEF Plucked
    <3>2. IsFiniteSet(S)
      BY FS_Subset
    <3>3. SumFunctionOnSet(f, S) = f[Plucked(S)] + SumFunctionOnSet(f, S \ {Plucked(S)})
      BY <2>2, <3>2, SumPlucked
    <3>4. f[Plucked(S)] \in Int /\ SumFunctionOnSet(f, S \ {Plucked(S)}) \in Int
      BY <1>1, <3>1
    <3> QED BY <3>3, <3>4
  <2> QED BY <2>1, <2>2
<1>2. Good \in SUBSET SUBSET T
  OBVIOUS
<1> HIDE DEF Good
<1>3. \A S \in SUBSET T : S \in Good
  BY <1>1, <1>2, Shrinking
<1> QED BY <1>3 DEF Good

\* A sum is an integer, and any of its elements can be taken out.
LEMMA SumTakeOut ==
  ASSUME NEW T, IsFiniteSet(T), NEW f, \A x \in T : f[x] \in Int
  PROVE  \A S \in SUBSET T : /\ SumFunctionOnSet(f, S) \in Int
                             /\ \A x \in S : SumFunctionOnSet(f, S)
                                               = f[x] + SumFunctionOnSet(f, S \ {x})
<1> DEFINE Sum(S) == SumFunctionOnSet(f, S)
           Good == {S \in SUBSET T : Sum(S) \in Int /\ \A x \in S : Sum(S) = f[x] + Sum(S \ {x})}
<1> HIDE DEF Sum
<1>0. Sum({}) = 0
  BY SumNothing DEF Sum
<1>1. ASSUME NEW S \in SUBSET T, \A x \in S : S \ {x} \in Good PROVE S \in Good
  <2>1. CASE S = {}
    BY <1>0, <2>1
  <2>2. CASE S # {}
    <3> DEFINE c == Plucked(S)
    <3>1. c \in S
      BY <2>2 DEF Plucked
    <3>2. IsFiniteSet(S)
      BY FS_Subset
    <3>3. Sum(S) = f[c] + Sum(S \ {c})
      BY <2>2, <3>2, SumPlucked DEF Sum
    <3> HIDE DEF c
    <3>4. f[c] \in Int /\ Sum(S \ {c}) \in Int
      BY <1>1, <3>1
    <3>5. ASSUME NEW x \in S, x # c PROVE Sum(S) = f[x] + Sum(S \ {x})
      <4> DEFINE U == (S \ {c}) \ {x}
      <4>1. (S \ {x}) \ {c} = U /\ x \in S \ {c} /\ c \in S \ {x}
        BY <3>1, <3>5
      <4>2. Sum(S \ {c}) = f[x] + Sum(U)
        BY <1>1, <3>1, <4>1
      <4>3. Sum(S \ {x}) = f[c] + Sum((S \ {x}) \ {c})
        BY <1>1, <3>1, <4>1
      <4>4. Sum(S \ {x}) \in Int /\ f[x] \in Int
        BY <1>1
      <4>5. Sum(U) \in Int
        <5>1. Sum(U) = Sum((S \ {c}) \ {x})
          OBVIOUS
        <5>2. U \in SUBSET T /\ S \ {c} \in SUBSET T
          OBVIOUS
        <5>3. IsFiniteSet(U)
          BY <5>2, FS_Subset
        <5> QED BY SumIntegral, <5>3, <5>2 DEF Sum
      <4> HIDE DEF U
      <4>6. Sum(S \ {x}) = f[c] + Sum(U)
        BY <4>1, <4>3
      <4> QED BY <3>3, <3>4, <4>2, <4>4, <4>5, <4>6
    <3>6. \A x \in S : Sum(S) = f[x] + Sum(S \ {x})
      BY <3>3, <3>5
    <3> QED BY <3>3, <3>4, <3>6
  <2> QED BY <2>1, <2>2
<1>2. Good \in SUBSET SUBSET T
  OBVIOUS
<1> HIDE DEF Good
<1>3. \A S \in SUBSET T : S \in Good
  BY <1>1, <1>2, Shrinking
<1> QED BY <1>3 DEF Good, Sum

\* One more element.
LEMMA SumOneMore ==
  ASSUME NEW T, IsFiniteSet(T), NEW f, \A x \in T : f[x] \in Int,
         NEW S \in SUBSET T, NEW x \in T, x \notin S
  PROVE  SumFunctionOnSet(f, S \cup {x}) = f[x] + SumFunctionOnSet(f, S)
<1>1. S \cup {x} \in SUBSET T /\ x \in S \cup {x} /\ (S \cup {x}) \ {x} = S
  OBVIOUS
<1>2. SumFunctionOnSet(f, S \cup {x}) = f[x] + SumFunctionOnSet(f, (S \cup {x}) \ {x})
  BY <1>1, SumTakeOut
<1> QED BY <1>1, <1>2

\* The smaller the elements, the smaller the sum.
LEMMA SumLeq ==
  ASSUME NEW T, IsFiniteSet(T), NEW f, NEW g,
         \A x \in T : f[x] \in Int /\ g[x] \in Int /\ f[x] <= g[x]
  PROVE  SumFunctionOnSet(f, T) <= SumFunctionOnSet(g, T)
<1> DEFINE F(S) == SumFunctionOnSet(f, S)
           G(S) == SumFunctionOnSet(g, S)
           Good == {S \in SUBSET T : F(S) <= G(S)}
<1>1. F({}) = 0 /\ G({}) = 0
  BY SumNothing
<1>2. \A S \in SUBSET T : F(S) \in Int /\ G(S) \in Int
  BY SumIntegral
<1>3. \A S \in SUBSET T, x \in T : x \notin S =>
        F(S \cup {x}) = f[x] + F(S) /\ G(S \cup {x}) = g[x] + G(S)
  BY SumOneMore
<1> HIDE DEF F, G
<1>4. {} \in Good
  BY <1>1
<1>5. ASSUME NEW S \in SUBSET T, NEW x \in T, S \in Good, x \notin S
      PROVE  S \cup {x} \in Good
  <2>1. F(S) <= G(S) /\ F(S) \in Int /\ G(S) \in Int
    BY <1>2, <1>5
  <2> QED BY <1>3, <1>5, <2>1
<1>6. Good \in SUBSET SUBSET T
  OBVIOUS
<1> HIDE DEF Good
<1>7. T \in Good
  BY <1>4, <1>5, <1>6, Growing
<1> QED BY <1>7 DEF Good, F, G

LEMMA SumSame ==
  ASSUME NEW T, IsFiniteSet(T), NEW f, NEW g,
         \A x \in T : f[x] \in Int /\ g[x] = f[x]
  PROVE  SumFunctionOnSet(f, T) = SumFunctionOnSet(g, T)
<1>1. \A x \in T : /\ f[x] \in Int /\ g[x] \in Int /\ f[x] <= g[x] /\ g[x] <= f[x]
  OBVIOUS
<1>2. /\ SumFunctionOnSet(f, T) <= SumFunctionOnSet(g, T)
      /\ SumFunctionOnSet(g, T) <= SumFunctionOnSet(f, T)
  BY <1>1, SumLeq
<1>3. SumFunctionOnSet(f, T) \in Int /\ SumFunctionOnSet(g, T) \in Int
  BY <1>1, SumIntegral
<1> QED BY <1>2, <1>3

\* The sum of sums.
LEMMA SumPlus ==
  ASSUME NEW T, IsFiniteSet(T), NEW f, NEW g, NEW h,
         \A x \in T : f[x] \in Int /\ g[x] \in Int /\ h[x] = f[x] + g[x]
  PROVE  SumFunctionOnSet(h, T) = SumFunctionOnSet(f, T) + SumFunctionOnSet(g, T)
<1> DEFINE F(S) == SumFunctionOnSet(f, S)
           G(S) == SumFunctionOnSet(g, S)
           H(S) == SumFunctionOnSet(h, S)
           Good == {S \in SUBSET T : H(S) = F(S) + G(S)}
<1>0. \A x \in T : h[x] \in Int
  OBVIOUS
<1>1. F({}) = 0 /\ G({}) = 0 /\ H({}) = 0
  BY SumNothing
<1>2. \A S \in SUBSET T : F(S) \in Int /\ G(S) \in Int
  BY SumIntegral
<1>3. \A S \in SUBSET T, x \in T : x \notin S =>
        F(S \cup {x}) = f[x] + F(S) /\ G(S \cup {x}) = g[x] + G(S)
  BY SumOneMore
<1>n. \A S \in SUBSET T, x \in T : x \notin S => H(S \cup {x}) = h[x] + H(S)
  BY <1>0, SumOneMore
<1> HIDE DEF F, G, H
<1>4. {} \in Good
  BY <1>1
<1>5. ASSUME NEW S \in SUBSET T, NEW x \in T, S \in Good, x \notin S
      PROVE  S \cup {x} \in Good
  <2>1. H(S) = F(S) + G(S) /\ F(S) \in Int /\ G(S) \in Int
    BY <1>2, <1>5
  <2> QED BY <1>3, <1>n, <1>5, <2>1
<1>6. Good \in SUBSET SUBSET T
  OBVIOUS
<1> HIDE DEF Good
<1>7. T \in Good
  BY <1>4, <1>5, <1>6, Growing
<1> QED BY <1>7 DEF Good, F, G, H

\* What is 0 need not be counted.
LEMMA SumZeroes ==
  ASSUME NEW T, IsFiniteSet(T), NEW f, NEW U \in SUBSET T, \A x \in T : f[x] \in Int,
         \A x \in T \ U : f[x] = 0
  PROVE  SumFunctionOnSet(f, T) = SumFunctionOnSet(f, U)
<1> DEFINE F(S) == SumFunctionOnSet(f, S)
           Good == {S \in SUBSET T : F(S) = F(S \cap U)}
<1>1. \A S \in SUBSET T : F(S) \in Int
  BY SumIntegral
<1>2. \A S \in SUBSET T, x \in T : x \notin S => F(S \cup {x}) = f[x] + F(S)
  BY SumOneMore
<1> HIDE DEF F
<1>3. {} \in Good
  <2>1. {} \cap U = {}
    OBVIOUS
  <2> QED BY <2>1
<1>4. ASSUME NEW S \in SUBSET T, NEW x \in T, S \in Good, x \notin S
      PROVE  S \cup {x} \in Good
  <2>1. F(S) = F(S \cap U) /\ F(S) \in Int /\ F(S \cup {x}) = f[x] + F(S)
    BY <1>1, <1>2, <1>4
  <2>2. CASE x \in U
    <3>1. (S \cup {x}) \cap U = (S \cap U) \cup {x} /\ x \notin S \cap U /\ S \cap U \in SUBSET T
      BY <1>4, <2>2
    <3>2. F((S \cap U) \cup {x}) = f[x] + F(S \cap U)
      BY <1>2, <3>1
    <3> QED BY <2>1, <3>1, <3>2
  <2>3. CASE x \notin U
    <3>1. (S \cup {x}) \cap U = S \cap U /\ f[x] = 0
      BY <2>3
    <3>2. F(S \cup {x}) = F(S)
      BY <2>1, <3>1
    <3>3. F(S \cup {x}) = F((S \cup {x}) \cap U)
      BY <2>1, <3>1, <3>2, Zenon
    <3> QED BY <3>3
  <2> QED BY <2>2, <2>3
<1>5. Good \in SUBSET SUBSET T
  OBVIOUS
<1> HIDE DEF Good
<1>6. T \in Good
  BY <1>3, <1>4, <1>5, Growing
<1>7. T \cap U = U
  OBVIOUS
<1> QED BY <1>6, <1>7 DEF Good, F

LEMMA SumOfZeroes ==
  ASSUME NEW T, IsFiniteSet(T), NEW f, \A x \in T : f[x] = 0
  PROVE  SumFunctionOnSet(f, T) = 0
<1>1. SumFunctionOnSet(f, T) = SumFunctionOnSet(f, {})
  <2>1. {} \in SUBSET T /\ (\A x \in T : f[x] \in Int) /\ \A x \in T \ {} : f[x] = 0
    OBVIOUS
  <2> QED BY <2>1, SumZeroes
<1> QED BY <1>1, SumNothing

\* The sum of a subset is less where nothing is negative.
LEMMA SumOfPart ==
  ASSUME NEW T, IsFiniteSet(T), NEW f, NEW U \in SUBSET T, \A x \in T : f[x] \in Nat
  PROVE  0 <= SumFunctionOnSet(f, U) /\ SumFunctionOnSet(f, U) <= SumFunctionOnSet(f, T)
<1> DEFINE g == [x \in T |-> IF x \in U THEN f[x] ELSE 0]
           z == [x \in T |-> 0]
<1>1. \A x \in T : /\ g[x] \in Int /\ f[x] \in Int /\ z[x] \in Int /\ 0 <= f[x]
                   /\ g[x] <= f[x] /\ z[x] <= g[x]
  OBVIOUS
<1>2. (\A x \in T \ U : g[x] = 0) /\ (\A x \in U : f[x] = g[x] /\ g[x] \in Int) /\ \A x \in T : z[x] = 0
  OBVIOUS
<1> HIDE DEF g, z
<1>3. SumFunctionOnSet(g, T) <= SumFunctionOnSet(f, T)
  BY <1>1, SumLeq
<1>4. SumFunctionOnSet(z, T) <= SumFunctionOnSet(g, T)
  BY <1>1, SumLeq
<1>5. SumFunctionOnSet(z, T) = 0
  BY <1>2, SumOfZeroes
<1>6. SumFunctionOnSet(g, T) = SumFunctionOnSet(g, U)
  BY <1>1, <1>2, SumZeroes
<1>7. SumFunctionOnSet(g, U) = SumFunctionOnSet(f, U)
  <2>1. IsFiniteSet(U)
    BY FS_Subset
  <2> QED BY <2>1, <1>2, SumSame
<1> QED BY <1>3, <1>4, <1>5, <1>6, <1>7

\* Elements that are at most c.
LEMMA SumAtMost ==
  ASSUME NEW T, IsFiniteSet(T), NEW f, NEW c \in Int,
         \A x \in T : f[x] \in Int /\ f[x] <= c
  PROVE  SumFunctionOnSet(f, T) <= c * Cardinality(T)
<1> DEFINE F(S) == SumFunctionOnSet(f, S)
           Good == {S \in SUBSET T : F(S) <= c * Cardinality(S)}
<1>1. \A S \in SUBSET T : F(S) \in Int
  BY SumIntegral
<1>2. \A S \in SUBSET T, x \in T : x \notin S => F(S \cup {x}) = f[x] + F(S)
  BY SumOneMore
<1>n. F({}) = 0
  BY SumNothing
<1> HIDE DEF F
<1>3. {} \in Good
  <2>1. Cardinality({}) = 0 /\ c * 0 = 0
    BY FS_EmptySet
  <2> QED BY <1>n, <2>1
<1>4. ASSUME NEW S \in SUBSET T, NEW x \in T, S \in Good, x \notin S
      PROVE  S \cup {x} \in Good
  <2>1. IsFiniteSet(S)
    BY FS_Subset
  <2>2. Cardinality(S) \in Nat /\ Cardinality(S \cup {x}) = Cardinality(S) + 1
    BY <2>1, <1>4, FS_CardinalityType, FS_AddElement
  <2>3. \A n \in Nat : c * (n + 1) = c * n + c /\ c * n \in Int
    OBVIOUS
  <2>4. c * Cardinality(S \cup {x}) = c * Cardinality(S) + c /\ c * Cardinality(S) \in Int
    BY <2>2, <2>3
  <2>5. F(S) <= c * Cardinality(S) /\ F(S) \in Int /\ F(S \cup {x}) = f[x] + F(S)
    BY <1>1, <1>2, <1>4
  <2>6. F(S \cup {x}) <= c * Cardinality(S \cup {x})
    BY <2>4, <2>5
  <2> QED BY <2>6
<1>5. Good \in SUBSET SUBSET T
  OBVIOUS
<1> HIDE DEF Good
<1>6. T \in Good
  BY <1>3, <1>4, <1>5, Growing
<1> QED BY <1>6 DEF Good, F

\* Summed in groups.
LEMMA SumByGroup ==
  ASSUME NEW T, IsFiniteSet(T), NEW f, \A x \in T : f[x] \in Int,
         NEW N, IsFiniteSet(N), NEW group, \A x \in T : group[x] \in N
  PROVE  SumFunctionOnSet([n \in N |-> SumFunctionOnSet(f, {x \in T : group[x] = n})], N)
           = SumFunctionOnSet(f, T)
<1> DEFINE F(S) == SumFunctionOnSet(f, S)
           Of(S, n) == {x \in S : group[x] = n}
           by(S) == [n \in N |-> F(Of(S, n))]
           G(S) == SumFunctionOnSet(by(S), N)
           Good == {S \in SUBSET T : G(S) = F(S)}
<1>1. \A S \in SUBSET T : F(S) \in Int
  BY SumIntegral
<1>2. \A S \in SUBSET T, x \in T : x \notin S => F(S \cup {x}) = f[x] + F(S)
  BY SumOneMore
<1>n. F({}) = 0
  BY SumNothing
<1> HIDE DEF F
<1>3. {} \in Good
  <2>1. \A n \in N : by({})[n] = 0
    <3>1. \A n \in N : Of({}, n) = {}
      OBVIOUS
    <3> QED BY <3>1, <1>n
  <2>2. G({}) = 0
    <3> HIDE DEF by
    <3> QED BY <2>1, SumOfZeroes
  <2> QED BY <1>n, <2>2
<1>4. ASSUME NEW S \in SUBSET T, NEW x \in T, S \in Good, x \notin S
      PROVE  S \cup {x} \in Good
  <2> DEFINE R == S \cup {x}
             m == group[x]
             old == by(S)
             new == by(R)
  <2>1. m \in N /\ \A n \in N : old[n] \in Int /\ new[n] \in Int
    <3>1. \A n \in N : Of(S, n) \in SUBSET T /\ Of(R, n) \in SUBSET T
      OBVIOUS
    <3> QED BY <3>1, <1>1
  <2>2. \A n \in N \ {m} : new[n] = old[n]
    <3>1. \A n \in N \ {m} : Of(R, n) = Of(S, n)
      OBVIOUS
    <3> QED BY <3>1
  <2>3. new[m] = f[x] + old[m]
    <3>1. Of(R, m) = Of(S, m) \cup {x} /\ x \notin Of(S, m) /\ Of(S, m) \in SUBSET T
      BY <1>4
    <3>2. F(Of(R, m)) = f[x] + F(Of(S, m))
      BY <3>1, <1>2
    <3> QED BY <3>2, <2>1
  <2>4. G(S) = SumFunctionOnSet(old, N) /\ G(R) = SumFunctionOnSet(new, N)
    OBVIOUS
  <2> HIDE DEF old, new, m, G
  <2>5. /\ SumFunctionOnSet(old, N) = old[m] + SumFunctionOnSet(old, N \ {m})
        /\ SumFunctionOnSet(new, N) = new[m] + SumFunctionOnSet(new, N \ {m})
    BY <2>1, SumTakeOut
  <2>6. /\ SumFunctionOnSet(old, N \ {m}) \in Int /\ SumFunctionOnSet(new, N \ {m}) \in Int
    BY <2>1, SumIntegral
  <2>7. SumFunctionOnSet(old, N \ {m}) = SumFunctionOnSet(new, N \ {m})
    <3>1. IsFiniteSet(N \ {m}) /\ \A n \in N \ {m} : old[n] \in Int /\ new[n] = old[n]
      BY <2>1, <2>2, FS_Subset
    <3> QED BY <3>1, SumSame
  <2>8. F(R) = f[x] + F(S) /\ F(S) \in Int
    BY <1>1, <1>2, <1>4
  <2>9. G(S) = F(S)
    BY <1>4
  <2>10. f[x] \in Int /\ old[m] \in Int /\ new[m] \in Int
    BY <2>1
  <2>11. G(R) = F(R)
    BY <2>3, <2>4, <2>5, <2>6, <2>7, <2>8, <2>9, <2>10
  <2> QED BY <2>11
<1>5. Good \in SUBSET SUBSET T
  OBVIOUS
<1> HIDE DEF Good
<1>6. T \in Good
  BY <1>3, <1>4, <1>5, Growing
<1> QED BY <1>6 DEF Good, F, G


LEMMA SumTimes ==
  ASSUME NEW T, IsFiniteSet(T), NEW f, NEW g, NEW c \in Int,
         \A x \in T : f[x] \in Int /\ g[x] = c * f[x]
  PROVE  SumFunctionOnSet(g, T) = c * SumFunctionOnSet(f, T)
<1> DEFINE F(S) == SumFunctionOnSet(f, S)
           G(S) == SumFunctionOnSet(g, S)
           Good == {S \in SUBSET T : G(S) = c * F(S)}
<1>0. \A x \in T : f[x] \in Int /\ g[x] \in Int
  OBVIOUS
<1>1. {} \in Good
  <2>1. F({}) = 0 /\ G({}) = 0
    BY SumNothing
  <2>2. c * 0 = 0
    OBVIOUS
  <2> HIDE DEF F, G
  <2> QED BY <2>1, <2>2
<1>2. \A S \in SUBSET T : F(S) \in Int
  BY <1>0, SumIntegral
<1>3. ASSUME NEW S \in SUBSET T, NEW x \in T, S \in Good, x \notin S
      PROVE  S \cup {x} \in Good
  <2>1. F(S \cup {x}) = f[x] + F(S) /\ G(S \cup {x}) = g[x] + G(S)
    BY <1>0, <1>3, SumOneMore
  <2>2. G(S) = c * F(S) /\ F(S) \in Int
    BY <1>2, <1>3
  <2> DEFINE y == f[x]
             z == F(S)
  <2>3. y \in Int /\ z \in Int /\ g[x] = c * y
    BY <2>2
  <2> HIDE DEF F, G, y, z
  <2>4. c * y + c * z = c * (y + z)
    BY <2>3
  <2>5. G(S \cup {x}) = c * F(S \cup {x})
    BY <2>1, <2>2, <2>3, <2>4 DEF y, z
  <2> QED BY <2>5
<1> HIDE DEF Good
<1>4. Good \in SUBSET SUBSET T
  BY DEF Good
<1>5. \A S \in SUBSET T : S \in Good
  BY <1>1, <1>3, <1>4, Growing
<1> QED BY <1>5 DEF Good

(***************************************************************************)
(* The records of atop are read as they were written.                      *)
(***************************************************************************)
Proc == [program : Programs, id : Nat, ticks : 0 .. HZ * MaxClock]

Record(pid, name, x, y, z) ==
  <<Number(pid)>> \o NameTokens(name) \o <<State, Number(x), Number(y), Number(z)>>

\* A sequence after another.
LEMMA Joined ==
  ASSUME NEW V, NEW s \in Seq(V), NEW t \in Seq(V)
  PROVE  /\ Len(s \o t) = Len(s) + Len(t)
         /\ \A i \in 1..Len(s) : (s \o t)[i] = s[i]
         /\ \A i \in 1..Len(t) : (s \o t)[Len(s) + i] = t[i]
OBVIOUS

LEMMA WordIs == \A t : \A b, c \in BOOLEAN : Word(t, b, c).opens = b /\ Word(t, b, c).closes = c
BY DEF Word

\* A name of several words is put together again.
LEMMA NameRead ==
  ASSUME NEW pid, NEW name \in Programs, NEW x, NEW y, NEW z
  PROVE  /\ ParseName(Record(pid, name, x, y, z), 2) = [name |-> name, next |-> Len(name) + 2]
         /\ Record(pid, name, x, y, z)[(Len(name) + 2) + 2].int = y
         /\ Record(pid, name, x, y, z)[(Len(name) + 2) + 3].int = z
<1> DEFINE L == Len(name)
           words == NameTokens(name)
           end == <<State, Number(x), Number(y), Number(z)>>
           parts == Record(pid, name, x, y, z)
<1>1. /\ name \in Seq(STRING) /\ L \in Nat /\ L > 0 /\ DOMAIN name = 1..L
      /\ name = [i \in 1..L |-> name[i]]
  <2>1. name \in Seq(STRING) /\ name # <<>>
    BY MachineAssumption
  <2> QED BY <2>1
<1>2. /\ Len(words) = L /\ \A i \in 1..L : words[i] = Word(name[i], i = 1, i = L)
  <2>1. \A i \in 1..L : (i = L \/ name[i] \in Closing) <=> i = L
    BY <1>1, NamesAssumption
  <2>2. \A i \in 1..L : words[i] = Word(name[i], i = 1, i = L \/ name[i] \in Closing)
    BY <1>1 DEF NameTokens
  <2>3. Len(words) = L
    BY <1>1 DEF NameTokens
  <2> HIDE DEF words
  <2> QED BY <2>1, <2>2, <2>3
<1>n. \E V : words \in Seq(V) /\ <<Number(pid)>> \in Seq(V) /\ end \in Seq(V)
  <2> DEFINE V == {words[i] : i \in 1..L} \cup {Number(pid), Number(x), Number(y), Number(z), State}
  <2>1. words \in Seq(V)
    <3>1. words = [i \in 1..L |-> words[i]] /\ \A i \in 1..L : words[i] \in V
      BY <1>1 DEF NameTokens
    <3> HIDE DEF words, V
    <3> QED BY <1>1, <3>1
  <2> HIDE DEF words
  <2>2. <<Number(pid)>> \in Seq(V) /\ end \in Seq(V)
    OBVIOUS
  <2> QED BY <2>1, <2>2
<1> HIDE DEF words
<1>3. /\ Len(parts) = L + 5
      /\ \A i \in 1..L : parts[i + 1] = words[i]
      /\ parts[L + 2] = State /\ parts[L + 3] = Number(x)
      /\ parts[L + 4] = Number(y) /\ parts[L + 5] = Number(z)
  <2>1. PICK V : words \in Seq(V) /\ <<Number(pid)>> \in Seq(V) /\ end \in Seq(V)
    BY <1>n
  <2> DEFINE front == <<Number(pid)>> \o words
  <2>2. front \in Seq(V) /\ Len(front) = L + 1 /\ \A i \in 1..L : front[i + 1] = words[i]
    BY <2>1, <1>1, <1>2
  <2> HIDE DEF front
  <2>3. parts = front \o end
    BY DEF front, words, Record
  <2>4. Len(end) = 4 /\ end[1] = State /\ end[2] = Number(x) /\ end[3] = Number(y) /\ end[4] = Number(z)
    OBVIOUS
  <2> HIDE DEF parts, end
  <2>5. Len(parts) = (L + 1) + 4 /\ (\A i \in 1..(L + 1) : parts[i] = front[i])
        /\ \A i \in 1..4 : parts[(L + 1) + i] = end[i]
    <3>1. /\ Len(front \o end) = Len(front) + Len(end)
          /\ \A i \in 1..Len(front) : (front \o end)[i] = front[i]
          /\ \A i \in 1..Len(end) : (front \o end)[Len(front) + i] = end[i]
      <4>1. front \in Seq(V) /\ end \in Seq(V)
        BY <2>1, <2>2
      <4> QED BY <4>1, Joined
    <3> QED BY <2>2, <2>3, <2>4, <3>1, Zenon
  <2>6. \A i \in 1..L : i + 1 \in 1..(L + 1)
    BY <1>1
  <2>7. (L + 1) + 4 = L + 5 /\ (L + 1) + 1 = L + 2 /\ (L + 1) + 2 = L + 3 /\ (L + 1) + 3 = L + 4
        /\ 1 \in 1..4 /\ 2 \in 1..4 /\ 3 \in 1..4 /\ 4 \in 1..4
    BY <1>1
  <2> QED BY <2>2, <2>4, <2>5, <2>6, <2>7
<1> HIDE DEF parts
<1>4. \A j \in 2..(L + 1) : /\ parts[j].text = name[j - 1] /\ (j = 2 => parts[j].opens)
                            /\ (parts[j].closes <=> j = L + 1)
  <2> SUFFICES ASSUME NEW j \in 2..(L + 1)
               PROVE  /\ parts[j].text = name[j - 1] /\ (j = 2 => parts[j].opens)
                      /\ (parts[j].closes <=> j = L + 1)
    OBVIOUS
  <2>1. j - 1 \in 1..L /\ (j - 1) + 1 = j /\ (j - 1 = 1 <=> j = 2) /\ (j - 1 = L <=> j = L + 1)
    BY <1>1
  <2>2. parts[j] = Word(name[j - 1], j - 1 = 1, j - 1 = L)
    BY <2>1, <1>2, <1>3
  <2>3. parts[j].text = name[j - 1]
    BY <2>2 DEF Word
  <2>4. (parts[j].opens <=> j - 1 = 1) /\ (parts[j].closes <=> j - 1 = L)
    BY <2>2, WordIs
  <2> QED BY <2>1, <2>3, <2>4
<1>5. \A j \in (L + 2)..(L + 5) : ~ parts[j].closes
  <2>1. \A j \in (L + 2)..(L + 5) : j = L + 2 \/ j = L + 3 \/ j = L + 4 \/ j = L + 5
    BY <1>1
  <2>2. ~ State.closes /\ \A n : ~ Number(n).closes
    BY DEF State, Word, Number
  <2> QED BY <2>1, <2>2, <1>3
<1> DEFINE closing == {j \in 2..Len(parts) : parts[j].closes} \union {Len(parts)}
<1>6. L + 1 \in closing /\ \A j \in closing : j \in Int /\ L + 1 <= j
  <2>1. L + 1 \in 2..Len(parts) /\ L + 1 \in 2..(L + 1)
    BY <1>1, <1>3
  <2>2. L + 1 \in closing
    BY <2>1, <1>4
  <2>3. ASSUME NEW j \in closing PROVE j \in Int /\ L + 1 <= j
    <3>1. CASE j = Len(parts)
      BY <3>1, <1>1, <1>3
    <3>2. CASE j \in 2..(L + 5) /\ parts[j].closes
      <4>1. j <= L + 1 => j = L + 1
        <5>1. j <= L + 1 => j \in 2..(L + 1)
          BY <3>2, <1>1
        <5> QED BY <5>1, <3>2, <1>4
      <4> QED BY <4>1, <3>2, <1>1
    <3> QED BY <3>1, <3>2, <1>3
  <2> QED BY <2>2, <2>3
<1> HIDE DEF closing
<1>7. Min(closing) = L + 1
  <2>1. \E k \in closing : \A j \in closing : k =< j
    BY <1>6
  <2>2. Min(closing) \in closing /\ \A j \in closing : Min(closing) =< j
    BY <2>1 DEF Min
  <2>3. Min(closing) \in Int /\ L + 1 \in Int
    BY <2>2, <1>6
  <2> QED BY <2>2, <2>3, <1>6
<1>8. ParseName(parts, 2) = [name |-> [k \in 1 .. (L + 1) - 2 + 1 |-> parts[2 + k - 1].text],
                             next |-> (L + 1) + 1]
  <2>1. parts[2].opens
    <3>1. 2 \in 2..(L + 1)
      BY <1>1
    <3> QED BY <3>1, <1>4
  <2> QED BY <2>1, <1>7 DEF ParseName, closing
<1>9. [k \in 1 .. (L + 1) - 2 + 1 |-> parts[2 + k - 1].text] = name
  <2>1. (L + 1) - 2 + 1 = L
    BY <1>1
  <2>2. \A k \in 1..L : 2 + k - 1 \in 2..(L + 1) /\ (2 + k - 1) - 1 = k
    BY <1>1
  <2>3. \A k \in 1..L : parts[2 + k - 1].text = name[k]
    BY <2>2, <1>4
  <2> QED BY <2>1, <2>3, <1>1
<1>10. (L + 1) + 1 = L + 2 /\ (L + 2) + 2 = L + 4 /\ (L + 2) + 3 = L + 5
  BY <1>1
<1>11. Number(y).int = y /\ Number(z).int = z
  BY DEF Number
<1>12. ParseName(parts, 2) = [name |-> name, next |-> Len(name) + 2]
  BY <1>8, <1>9, <1>10
<1>13. parts[(Len(name) + 2) + 2].int = y /\ parts[(Len(name) + 2) + 3].int = z
  BY <1>3, <1>10, <1>11
<1> QED BY <1>12, <1>13 DEF parts

LEMMA RecordsRead ==
  ASSUME NEW pid, NEW p \in Proc
  PROVE  /\ ParsePrc(PrcRecord(pid, p)) = [name |-> p.program, ticks |-> p.ticks]
         /\ ParsePrm(PrmRecord(pid, p)) = [name |-> p.program, rss |-> Rss(p.program, p.ticks)]
<1>1. p.program \in Programs /\ p.ticks \in Int
  BY MachineAssumption, ReportAssumption DEF Proc
<1>2. ParsePrc(PrcRecord(pid, p)) = [name |-> p.program, ticks |-> p.ticks]
  <2> DEFINE stime == IF p.ticks = 0 THEN 0 ELSE HZ
             parts == Record(pid, p.program, HZ, p.ticks - stime, stime)
  <2>1. /\ ParseName(parts, 2) = [name |-> p.program, next |-> Len(p.program) + 2]
        /\ parts[(Len(p.program) + 2) + 2].int = p.ticks - stime
        /\ parts[(Len(p.program) + 2) + 3].int = stime
    BY <1>1, NameRead
  <2>2. stime \in Int
    BY MachineAssumption
  <2>3. (p.ticks - stime) + stime = p.ticks
    BY <1>1, <2>2
  <2>4. PrcRecord(pid, p) = parts
    BY DEF PrcRecord, Record
  <2> HIDE DEF parts, stime
  <2> QED BY <2>1, <2>3, <2>4 DEF ParsePrc
<1>3. ParsePrm(PrmRecord(pid, p)) = [name |-> p.program, rss |-> Rss(p.program, p.ticks)]
  <2> DEFINE rsize == Rss(p.program, p.ticks)
             parts == Record(pid, p.program, 4, 4 * rsize, rsize)
  <2>1. /\ ParseName(parts, 2) = [name |-> p.program, next |-> Len(p.program) + 2]
        /\ parts[(Len(p.program) + 2) + 3].int = rsize
    BY <1>1, NameRead
  <2>2. PrmRecord(pid, p) = parts
    BY DEF PrmRecord, Record
  <2> HIDE DEF parts, rsize
  <2>3. ParsePrm(PrmRecord(pid, p)) = [name |-> p.program, rss |-> rsize]
    BY <2>1, <2>2 DEF ParsePrm
  <2> QED BY <2>3 DEF rsize
<1> QED BY <1>2, <1>3

(***************************************************************************)
(* The merge of the days, one after the other.                             *)
(***************************************************************************)
MergeStep(parts, g, s) == IF s = {} THEN <<>>
                          ELSE MergeProcAggs(g[s \ {Max(s)}], parts[Max(s)])
Merges(g, parts, T) == g = [s \in SUBSET T |-> MergeStep(parts, g, s)]

LEMMA MergeExists ==
  ASSUME NEW N \in Nat, NEW parts
  PROVE  \E g : Merges(g, parts, 1..N)
<1> DEFINE T == 1..N
           Upto(g, k) == \A s \in SUBSET T : Cardinality(s) <= k => g[s] = MergeStep(parts, g, s)
           M == {k \in Nat : \E g : Upto(g, k)}
<1>0. IsFiniteSet(T) /\ T \in SUBSET Int
  BY FS_Interval
<1> HIDE DEF T
<1>1. \A s \in SUBSET T : IsFiniteSet(s) /\ Cardinality(s) \in Nat
  BY <1>0, FS_Subset, FS_CardinalityType
<1>2. \A s \in SUBSET T : s # {} =>
        /\ s \ {Max(s)} \in SUBSET T
        /\ Cardinality(s \ {Max(s)}) = Cardinality(s) - 1
  <2> SUFFICES ASSUME NEW s \in SUBSET T, s # {}
               PROVE  Cardinality(s \ {Max(s)}) = Cardinality(s) - 1
    OBVIOUS
  <2>1. Max(s) \in s
    <3>1. s \in SUBSET Int /\ IsFiniteSet(s)
      BY <1>0, <1>1
    <3> QED BY <3>1, Extremes
  <2> QED BY <2>1, <1>1, FS_RemoveElement
<1>3. 0 \in M
  <2> DEFINE g == [s \in SUBSET T |-> <<>>]
  <2>1. ASSUME NEW s \in SUBSET T, Cardinality(s) <= 0 PROVE g[s] = MergeStep(parts, g, s)
    <3>1. Cardinality(s) = 0
      BY <1>1, <2>1
    <3>2. s = {}
      BY <1>1, <3>1, FS_EmptySet
    <3> QED BY <3>2 DEF MergeStep
  <2>2. Upto(g, 0)
    BY <2>1
  <2> QED BY <2>2
<1>4. ASSUME NEW g, NEW k \in Nat, Upto(g, k)
      PROVE  Upto([s \in SUBSET T |-> MergeStep(parts, g, s)], k + 1)
  <2> DEFINE h == [s \in SUBSET T |-> MergeStep(parts, g, s)]
  <2> SUFFICES ASSUME NEW s \in SUBSET T, Cardinality(s) <= k + 1
               PROVE  h[s] = MergeStep(parts, h, s)
    OBVIOUS
  <2>1. h[s] = MergeStep(parts, g, s)
    OBVIOUS
  <2>2. CASE s = {}
    BY <2>1, <2>2 DEF MergeStep
  <2>3. CASE s # {}
    <3> DEFINE u == s \ {Max(s)}
    <3>1. u \in SUBSET T /\ Cardinality(u) = Cardinality(s) - 1
      BY <1>2, <2>3
    <3>2. Cardinality(s) \in Nat
      BY <1>1
    <3>3. Cardinality(u) <= k
      BY <3>1, <3>2
    <3>4. h[u] = MergeStep(parts, g, u)
      BY <3>1
    <3>5. g[u] = MergeStep(parts, g, u)
      BY <1>4, <3>1, <3>3
    <3>6. h[u] = g[u]
      BY <3>4, <3>5
    <3> HIDE DEF h
    <3> QED BY <2>1, <2>3, <3>6 DEF MergeStep
  <2> QED BY <2>2, <2>3
<1>5. \A k \in M : k + 1 \in M
  <2> SUFFICES ASSUME NEW k \in M PROVE \E g : Upto(g, k + 1)
    OBVIOUS
  <2>1. PICK g : Upto(g, k)
    OBVIOUS
  <2> HIDE DEF Upto
  <2> QED BY <1>4, <2>1
<1> HIDE DEF M
<1>6. \A k \in Nat : k \in M
  <2>1. M \in SUBSET Nat
    BY DEF M
  <2> QED BY <2>1, <1>3, <1>5, Counting
<1>7. PICK g : Upto(g, Cardinality(T))
  BY <1>1, <1>6 DEF M
<1> DEFINE h == [s \in SUBSET T |-> MergeStep(parts, g, s)]
<1>8. Upto(h, Cardinality(T) + 1)
  <2> HIDE DEF Upto
  <2> QED BY <1>1, <1>4, <1>7
<1>9. \A s \in SUBSET T : h[s] = MergeStep(parts, h, s)
  <2> SUFFICES ASSUME NEW s \in SUBSET T PROVE h[s] = MergeStep(parts, h, s)
    OBVIOUS
  <2>1. Cardinality(s) <= Cardinality(T)
    BY <1>0, FS_Subset
  <2>2. Cardinality(s) <= Cardinality(T) + 1
    BY <2>1, <1>1
  <2> HIDE DEF h
  <2> QED BY <1>8, <2>2
<1>10. h = [s \in SUBSET T |-> h[s]]
  OBVIOUS
<1> HIDE DEF h
<1>11. Merges(h, parts, T)
  BY <1>9, <1>10 DEF Merges
<1> QED BY <1>11 DEF T

LEMMA MergeIs ==
  ASSUME NEW N \in Nat, NEW parts, DOMAIN parts = 1..N
  PROVE  \E g : Merges(g, parts, 1..N) /\ MergeAll(parts) = g[1..N]
<1> DEFINE it == CHOOSE g : g = [s \in SUBSET (1..N) |-> MergeStep(parts, g, s)]
<1>1. it = [s \in SUBSET (1..N) |-> MergeStep(parts, it, s)]
  BY MergeExists DEF Merges
<1>2. MergeAll(parts) = it[1..N]
  BY DEF MergeAll, FoldLeft, MapThenFoldSet, MergeStep
<1> QED BY <1>1, <1>2 DEF Merges

\* After k days.
LEMMA MergeRecursion ==
  ASSUME NEW N \in Nat, NEW parts, DOMAIN parts = 1..N
  PROVE  \E upto : /\ upto[0] = <<>> /\ MergeAll(parts) = upto[N]
                   /\ \A k \in 1..N : upto[k] = MergeProcAggs(upto[k - 1], parts[k])
<1>1. PICK g : Merges(g, parts, 1..N) /\ MergeAll(parts) = g[1..N]
  BY MergeIs
<1> DEFINE upto == [k \in 0..N |-> g[1..k]]
<1>2. \A s \in SUBSET (1..N) : g[s] = MergeStep(parts, g, s)
  BY <1>1 DEF Merges
<1>3. upto[0] = <<>>
  <2>1. 1..0 = {} /\ upto[0] = g[1..0] /\ {} \in SUBSET (1..N)
    OBVIOUS
  <2> QED BY <2>1, <1>2 DEF MergeStep
<1>4. ASSUME NEW k \in 1..N PROVE upto[k] = MergeProcAggs(upto[k - 1], parts[k])
  <2>1. 1..k \in SUBSET (1..N) /\ 1..k # {} /\ (1..k) \ {k} = 1..(k - 1) /\ k - 1 \in 0..N
    <3>1. k \in Int /\ 1 <= k /\ k <= N /\ k - 1 \in 0..N
      OBVIOUS
    <3>2. 1..k \in SUBSET (1..N) /\ 1 \in 1..k
      BY <3>1
    <3>3. \A i : i \in (1..k) \ {k} <=> i \in 1..(k - 1)
      BY <3>1
    <3> QED BY <3>1, <3>2, <3>3
  <2>2. Max(1..k) = k
    <3>1. 1..k \in SUBSET Int /\ IsFiniteSet(1..k)
      BY FS_Interval
    <3>2. Max(1..k) \in 1..k /\ \A y \in 1..k : y <= Max(1..k)
      BY <2>1, <3>1, Extremes
    <3> QED BY <3>2
  <2>3. g[1..k] = MergeProcAggs(g[1..(k - 1)], parts[k])
    BY <1>2, <2>1, <2>2 DEF MergeStep
  <2> QED BY <2>1, <2>3
<1>5. MergeAll(parts) = upto[N]
  BY <1>1
<1> HIDE DEF upto
<1> QED BY <1>3, <1>4, <1>5

\* What is known of a program, and of all of them.
AggRec == [cpu_ticks : Nat, peak_rss_kb : Nat, rss_kb_sum : Nat, rss_samples : Nat,
           pid_count : Nat]
IsAggs(a) == IsFiniteSet(DOMAIN a) /\ \A n \in DOMAIN a : a[n] \in AggRec

\* No average above its peak.
FairMemory(a) == \A n \in DOMAIN a :
  a[n].rss_samples > 0 /\ a[n].rss_kb_sum <= a[n].peak_rss_kb * a[n].rss_samples

Peaks(a) == {a[n].peak_rss_kb : n \in DOMAIN a}

\* The highest of the one is the highest of the other.
SameTop(S, T) == S \subseteq T /\ \A t \in T : \E s \in S : t <= s

LEMMA AggTyped ==
  ASSUME NEW a, IsAggs(a), NEW n
  PROVE  AggOf(a, n) \in AggRec /\ (n \notin DOMAIN a => AggOf(a, n) = NoAgg)
BY DEF IsAggs, AggOf, NoAgg, AggRec

LEMMA LargerOfTwo ==
  ASSUME NEW x \in Nat, NEW y \in Nat
  PROVE  /\ Max({x, y}) \in {x, y} /\ Max({x, y}) \in Nat
         /\ x <= Max({x, y}) /\ y <= Max({x, y})
<1>1. {x, y} \in SUBSET Int /\ {x, y} # {} /\ IsFiniteSet({x, y})
  <2>1. IsFiniteSet({x})
    BY FS_Singleton
  <2>2. IsFiniteSet({x} \cup {y})
    BY <2>1, FS_AddElement
  <2>3. {x} \cup {y} = {x, y}
    OBVIOUS
  <2> QED BY <2>2, <2>3
<1>2. Max({x, y}) \in {x, y} /\ \A z \in {x, y} : z <= Max({x, y})
  BY <1>1, Extremes
<1> QED BY <1>2

LEMMA MergeOne ==
  ASSUME NEW a, NEW b, IsAggs(a), IsAggs(b)
  PROVE  LET m == MergeProcAggs(a, b) IN
         /\ IsAggs(m) /\ DOMAIN m = DOMAIN a \cup DOMAIN b
         /\ \A n : AggOf(m, n).cpu_ticks = AggOf(a, n).cpu_ticks + AggOf(b, n).cpu_ticks
<1> DEFINE m == MergeProcAggs(a, b)
<1>1. DOMAIN m = DOMAIN a \cup DOMAIN b
  BY DEF MergeProcAggs
<1>2. \A n \in DOMAIN m : m[n] = Merged(AggOf(a, n), AggOf(b, n))
  BY DEF MergeProcAggs
<1>3. \A n : AggOf(a, n) \in AggRec /\ AggOf(b, n) \in AggRec
  BY AggTyped
<1> HIDE DEF m
<1>4. ASSUME NEW x \in AggRec, NEW y \in AggRec
      PROVE  Merged(x, y) \in AggRec /\ Merged(x, y).cpu_ticks = x.cpu_ticks + y.cpu_ticks
  <2>1. x.peak_rss_kb \in Nat /\ y.peak_rss_kb \in Nat
    BY DEF AggRec
  <2>2. Max({x.peak_rss_kb, y.peak_rss_kb}) \in Nat
    BY <2>1, LargerOfTwo
  <2> QED BY <2>2 DEF Merged, AggRec
<1>5. \A n \in DOMAIN m : m[n] \in AggRec
  BY <1>2, <1>3, <1>4
<1>6. IsFiniteSet(DOMAIN m)
  BY <1>1, FS_Union DEF IsAggs
<1>7. ASSUME NEW n
      PROVE  AggOf(m, n).cpu_ticks = AggOf(a, n).cpu_ticks + AggOf(b, n).cpu_ticks
  <2>1. CASE n \in DOMAIN m
    <3>1. AggOf(m, n) = Merged(AggOf(a, n), AggOf(b, n))
      BY <1>2, <2>1 DEF AggOf
    <3> QED BY <3>1, <1>3, <1>4
  <2>2. CASE n \notin DOMAIN m
    <3>1. AggOf(m, n) = NoAgg /\ AggOf(a, n) = NoAgg /\ AggOf(b, n) = NoAgg
      BY <1>1, <2>2 DEF AggOf
    <3> QED BY <3>1 DEF NoAgg
  <2> QED BY <2>1, <2>2
<1> QED BY <1>1, <1>5, <1>6, <1>7 DEF IsAggs, m

\* Nothing is charged but what the days are charged.
LEMMA ChargesOf ==
  ASSUME NEW a, IsAggs(a), NEW D, IsFiniteSet(D), DOMAIN a \subseteq D
  PROVE  /\ Charges(a) = SumFunctionOnSet([n \in D |-> AggOf(a, n).cpu_ticks], D)
         /\ Charges(a) \in Int
<1> DEFINE f == [n \in D |-> AggOf(a, n).cpu_ticks]
           g == [n \in DOMAIN a |-> a[n].cpu_ticks]
<1>1. /\ \A n \in D : f[n] \in Int
      /\ \A n \in D \ DOMAIN a : f[n] = 0
      /\ \A n \in DOMAIN a : g[n] \in Int /\ f[n] = g[n]
      /\ DOMAIN g = DOMAIN a
  BY AggTyped DEF AggOf, NoAgg, IsAggs, AggRec
<1>2. Charges(a) = SumFunctionOnSet(g, DOMAIN a)
  BY DEF Charges, SumFunction
<1> HIDE DEF f, g
<1>3. IsFiniteSet(DOMAIN a) /\ DOMAIN a \in SUBSET D
  BY DEF IsAggs
<1>4. SumFunctionOnSet(g, DOMAIN a) = SumFunctionOnSet(f, DOMAIN a)
  BY <1>1, <1>3, SumSame
<1>5. SumFunctionOnSet(f, D) = SumFunctionOnSet(f, DOMAIN a)
  BY <1>1, <1>3, SumZeroes
<1>6. SumFunctionOnSet(g, DOMAIN a) \in Int
  BY <1>1, <1>3, SumIntegral
<1> QED BY <1>2, <1>4, <1>5, <1>6 DEF f

LEMMA MergeCharges ==
  ASSUME NEW a, NEW b, IsAggs(a), IsAggs(b)
  PROVE  Charges(MergeProcAggs(a, b)) = Charges(a) + Charges(b)
<1> DEFINE m == MergeProcAggs(a, b)
           D == DOMAIN m
           f == [n \in D |-> AggOf(a, n).cpu_ticks]
           g == [n \in D |-> AggOf(b, n).cpu_ticks]
           h == [n \in D |-> AggOf(m, n).cpu_ticks]
<1>1. /\ IsAggs(m) /\ D = DOMAIN a \cup DOMAIN b
      /\ \A n : AggOf(m, n).cpu_ticks = AggOf(a, n).cpu_ticks + AggOf(b, n).cpu_ticks
  BY MergeOne
<1> HIDE DEF m
<1>2. IsFiniteSet(D)
  BY <1>1 DEF IsAggs
<1>3. \A n \in D : f[n] \in Int /\ g[n] \in Int /\ h[n] = f[n] + g[n]
  <2>1. \A n : AggOf(a, n).cpu_ticks \in Int /\ AggOf(b, n).cpu_ticks \in Int
    BY AggTyped DEF AggRec
  <2> QED BY <1>1, <2>1
<1>4. /\ Charges(a) = SumFunctionOnSet(f, D) /\ Charges(b) = SumFunctionOnSet(g, D)
      /\ Charges(m) = SumFunctionOnSet(h, D)
  BY <1>1, <1>2, ChargesOf
<1> HIDE DEF f, g, h, D
<1>5. SumFunctionOnSet(h, D) = SumFunctionOnSet(f, D) + SumFunctionOnSet(g, D)
  BY <1>2, <1>3, SumPlus
<1> QED BY <1>4, <1>5 DEF m

\* Products of natural numbers.
LEMMA Monotone ==
  /\ \A x, y, z \in Nat : x <= y => x * z <= y * z /\ z * x <= z * y
  /\ \A x, y, z \in Nat : x * (y + z) = x * y + x * z /\ x * y \in Nat /\ x * z \in Nat
OBVIOUS

LEMMA MergedIs ==
  ASSUME NEW x, NEW y
  PROVE  /\ Merged(x, y).peak_rss_kb = Max({x.peak_rss_kb, y.peak_rss_kb})
         /\ Merged(x, y).rss_samples = x.rss_samples + y.rss_samples
         /\ Merged(x, y).rss_kb_sum = x.rss_kb_sum + y.rss_kb_sum
BY DEF Merged

LEMMA MergeMemory ==
  ASSUME NEW a, NEW b, IsAggs(a), IsAggs(b)
  PROVE  LET m == MergeProcAggs(a, b) IN
         /\ FairMemory(a) /\ FairMemory(b) => FairMemory(m)
         /\ SameTop(Peaks(m), Peaks(a) \cup Peaks(b))
<1> DEFINE m == MergeProcAggs(a, b)
<1>1. /\ DOMAIN m = DOMAIN a \cup DOMAIN b
      /\ \A n \in DOMAIN m : m[n] = Merged(AggOf(a, n), AggOf(b, n))
  BY DEF MergeProcAggs
<1>2. \A n : AggOf(a, n) \in AggRec /\ AggOf(b, n) \in AggRec
  BY AggTyped
<1>3. \A n : /\ n \notin DOMAIN a => AggOf(a, n) = NoAgg
             /\ n \notin DOMAIN b => AggOf(b, n) = NoAgg
             /\ n \in DOMAIN a => AggOf(a, n) = a[n]
             /\ n \in DOMAIN b => AggOf(b, n) = b[n]
  BY DEF AggOf
<1> HIDE DEF m
<1>4. \A n \in DOMAIN m :
        LET x == AggOf(a, n).peak_rss_kb  y == AggOf(b, n).peak_rss_kb IN
        /\ x \in Nat /\ y \in Nat /\ m[n].peak_rss_kb = Max({x, y})
        /\ m[n].peak_rss_kb \in {x, y} /\ m[n].peak_rss_kb \in Nat
        /\ x <= m[n].peak_rss_kb /\ y <= m[n].peak_rss_kb
  <2> SUFFICES ASSUME NEW n \in DOMAIN m
               PROVE  LET x == AggOf(a, n).peak_rss_kb  y == AggOf(b, n).peak_rss_kb IN
                      /\ x \in Nat /\ y \in Nat /\ m[n].peak_rss_kb = Max({x, y})
                      /\ m[n].peak_rss_kb \in {x, y} /\ m[n].peak_rss_kb \in Nat
                      /\ x <= m[n].peak_rss_kb /\ y <= m[n].peak_rss_kb
    OBVIOUS
  <2>1. AggOf(a, n).peak_rss_kb \in Nat /\ AggOf(b, n).peak_rss_kb \in Nat
    BY <1>2 DEF AggRec
  <2>2. m[n].peak_rss_kb = Max({AggOf(a, n).peak_rss_kb, AggOf(b, n).peak_rss_kb})
    BY <1>1, MergedIs
  <2> QED BY <2>1, <2>2, LargerOfTwo
<1>5. ASSUME FairMemory(a), FairMemory(b) PROVE FairMemory(m)
  <2> SUFFICES ASSUME NEW n \in DOMAIN m
               PROVE  /\ m[n].rss_samples > 0
                      /\ m[n].rss_kb_sum <= m[n].peak_rss_kb * m[n].rss_samples
    BY DEF FairMemory
  <2> DEFINE x == AggOf(a, n)
             y == AggOf(b, n)
  <2>1. /\ m[n].rss_samples = x.rss_samples + y.rss_samples
        /\ m[n].rss_kb_sum = x.rss_kb_sum + y.rss_kb_sum
    BY <1>1, MergedIs
  <2>2. /\ x.peak_rss_kb \in Nat /\ y.peak_rss_kb \in Nat /\ m[n].peak_rss_kb \in Nat
        /\ x.rss_samples \in Nat /\ y.rss_samples \in Nat
        /\ x.rss_kb_sum \in Nat /\ y.rss_kb_sum \in Nat
        /\ x.peak_rss_kb <= m[n].peak_rss_kb /\ y.peak_rss_kb <= m[n].peak_rss_kb
    BY <1>2, <1>4 DEF AggRec
  <2>3. /\ x.rss_kb_sum <= x.peak_rss_kb * x.rss_samples
        /\ y.rss_kb_sum <= y.peak_rss_kb * y.rss_samples
        /\ x.rss_samples > 0 \/ y.rss_samples > 0
    <3>1. NoAgg.rss_kb_sum = 0 /\ NoAgg.peak_rss_kb = 0 /\ NoAgg.rss_samples = 0 /\ 0 <= 0 * 0
      BY DEF NoAgg
    <3>2. n \in DOMAIN a => /\ x.rss_kb_sum <= x.peak_rss_kb * x.rss_samples
                            /\ x.rss_samples > 0
      BY <1>3, <1>5 DEF FairMemory
    <3>3. n \in DOMAIN b => /\ y.rss_kb_sum <= y.peak_rss_kb * y.rss_samples
                            /\ y.rss_samples > 0
      BY <1>3, <1>5 DEF FairMemory
    <3>4. n \notin DOMAIN a => x.rss_kb_sum <= x.peak_rss_kb * x.rss_samples
      BY <1>3, <3>1
    <3>5. n \notin DOMAIN b => y.rss_kb_sum <= y.peak_rss_kb * y.rss_samples
      BY <1>3, <3>1
    <3> HIDE DEF x, y
    <3> QED BY <1>1, <3>2, <3>3, <3>4, <3>5
  <2> HIDE DEF x, y
  <2> DEFINE p == m[n].peak_rss_kb
             i == x.rss_samples
             j == y.rss_samples
  <2>4. /\ x.peak_rss_kb * i <= p * i /\ y.peak_rss_kb * j <= p * j
        /\ p * (i + j) = p * i + p * j /\ p * i \in Nat /\ p * j \in Nat
        /\ x.peak_rss_kb * i \in Nat /\ y.peak_rss_kb * j \in Nat
    BY <2>2, Monotone
  <2> DEFINE pi == p * i
             pj == p * j
             xi == x.peak_rss_kb * i
             yj == y.peak_rss_kb * j
             pij == p * (i + j)
  <2>5. x.rss_kb_sum <= xi /\ y.rss_kb_sum <= yj /\ xi <= pi /\ yj <= pj
        /\ pij = pi + pj /\ pi \in Nat /\ pj \in Nat /\ xi \in Nat /\ yj \in Nat
    BY <2>3, <2>4
  <2>6. m[n].peak_rss_kb * m[n].rss_samples = pij
    BY <2>1
  <2> HIDE DEF pi, pj, xi, yj, pij, p, i, j
  <2>7. m[n].rss_kb_sum <= pij
    BY <2>1, <2>2, <2>5
  <2>8. m[n].rss_samples > 0
    BY <2>1, <2>2, <2>3
  <2> QED BY <2>6, <2>7, <2>8
<1>6. Peaks(m) \subseteq Peaks(a) \cup Peaks(b)
  <2> SUFFICES ASSUME NEW n \in DOMAIN m
               PROVE  m[n].peak_rss_kb \in Peaks(a) \cup Peaks(b)
    BY DEF Peaks
  <2> DEFINE x == AggOf(a, n).peak_rss_kb
             y == AggOf(b, n).peak_rss_kb
  <2>1. /\ x \in Nat /\ y \in Nat /\ m[n].peak_rss_kb \in {x, y}
        /\ x <= m[n].peak_rss_kb /\ y <= m[n].peak_rss_kb
    BY <1>4
  <2>2. /\ n \in DOMAIN a => x \in Peaks(a)
        /\ n \in DOMAIN b => y \in Peaks(b)
        /\ n \notin DOMAIN a => x = 0
        /\ n \notin DOMAIN b => y = 0
    BY <1>3 DEF Peaks, NoAgg
  <2> HIDE DEF x, y
  <2>3. n \in DOMAIN a \/ n \in DOMAIN b
    BY <1>1
  <2>4. m[n].peak_rss_kb = x \/ m[n].peak_rss_kb = y
    BY <2>1
  <2>5. n \notin DOMAIN a => m[n].peak_rss_kb = y
    BY <2>1, <2>2, <2>4
  <2>6. n \notin DOMAIN b => m[n].peak_rss_kb = x
    BY <2>1, <2>2, <2>4
  <2> QED BY <2>2, <2>3, <2>4, <2>5, <2>6
<1>7. ASSUME NEW t \in Peaks(a) \cup Peaks(b) PROVE \E s \in Peaks(m) : t <= s
  <2>1. CASE t \in Peaks(a)
    <3>1. PICK n \in DOMAIN a : t = a[n].peak_rss_kb
      BY <2>1 DEF Peaks
    <3>2. n \in DOMAIN m /\ AggOf(a, n) = a[n]
      BY <1>1, <1>3
    <3>3. t <= m[n].peak_rss_kb
      BY <1>4, <3>1, <3>2
    <3> QED BY <3>2, <3>3 DEF Peaks
  <2>2. CASE t \in Peaks(b)
    <3>1. PICK n \in DOMAIN b : t = b[n].peak_rss_kb
      BY <2>2 DEF Peaks
    <3>2. n \in DOMAIN m /\ AggOf(b, n) = b[n]
      BY <1>1, <1>3
    <3>3. t <= m[n].peak_rss_kb
      BY <1>4, <3>1, <3>2
    <3> QED BY <3>2, <3>3 DEF Peaks
  <2> QED BY <2>1, <2>2
<1> QED BY <1>5, <1>6, <1>7 DEF SameTop, m

(***************************************************************************)
(* What the samples of a log have to do with each other.                   *)
(***************************************************************************)
ProcTables == UNION {[D -> Proc] : D \in SUBSET Pids}
Sample == [epoch : Nat, procs : ProcTables, spent : [Pids -> Nat]]

\* A process of the later one has had since the earlier one what its process id has
\* had, or is a new one and has had all its time since.
Leads(s, t) ==
  /\ s.epoch <= t.epoch
  /\ \A p \in Pids : s.spent[p] <= t.spent[p]
  /\ SumFunction([p \in Pids |-> t.spent[p] - s.spent[p]]) <= HZ * NCPU * (t.epoch - s.epoch)
  /\ \A p \in DOMAIN t.procs :
       IF p \in DOMAIN s.procs /\ s.procs[p].id = t.procs[p].id
       THEN t.procs[p].ticks - s.procs[p].ticks = t.spent[p] - s.spent[p]
       ELSE t.procs[p].ticks <= t.spent[p] - s.spent[p]

\* A log, or the end of one.
Readable(s) ==
  /\ s \in Seq(Sample) /\ s # <<>>
  /\ \A i \in DOMAIN s : DOMAIN s[i].procs # {}
  /\ \A i, j \in DOMAIN s : i <= j => Leads(s[i], s[j])

LEMMA ReadableIs ==
  ASSUME NEW s, Readable(s)
  PROVE  /\ Len(s) \in Nat /\ Len(s) >= 1 /\ DOMAIN s = 1..Len(s)
         /\ 1 \in DOMAIN s /\ Len(s) \in DOMAIN s
         /\ Head(s) = s[1] /\ Last(s) = s[Len(s)]
         /\ \A i \in DOMAIN s : s[i] \in Sample
BY DEF Readable, Last

LEMMA SampleIs ==
  ASSUME NEW x \in Sample
  PROVE  /\ DOMAIN x.procs \in SUBSET Pids
         /\ \A p \in DOMAIN x.procs : x.procs[p] \in Proc
         /\ \A p \in Pids : x.spent[p] \in Nat
         /\ x.epoch \in Nat
BY DEF Sample, ProcTables

LEMMA ProcIs ==
  ASSUME NEW x \in Proc
  PROVE  x.ticks \in Nat /\ x.program \in Programs /\ Rss(x.program, x.ticks) \in Nat
<1>1. x.program \in Programs /\ x.ticks \in 0..(HZ * MaxClock)
  BY DEF Proc
<1>2. HZ * MaxClock \in Nat
  BY MachineAssumption, ReportAssumption
<1> QED BY <1>1, <1>2, MachineAssumption

RssOf(x, p) == Rss(x.procs[p].program, x.procs[p].ticks)

\* The samples with a process id.
LEMMA SeenIs ==
  ASSUME NEW s, Readable(s), NEW p \in SeenPids(s)
  PROVE  /\ Seen(s, p) \in SUBSET DOMAIN s /\ Seen(s, p) # {} /\ IsFiniteSet(Seen(s, p))
         /\ p \in Pids
         /\ Min(Seen(s, p)) \in Seen(s, p) /\ Max(Seen(s, p)) \in Seen(s, p)
         /\ \A i \in Seen(s, p) : Min(Seen(s, p)) <= i /\ i <= Max(Seen(s, p))
         /\ Cardinality(Seen(s, p)) \in Nat /\ Cardinality(Seen(s, p)) > 0
         /\ Cardinality(Seen(s, p)) >= 2 <=> Min(Seen(s, p)) < Max(Seen(s, p))
         /\ \A i \in Seen(s, p) : i \in Nat /\ s[i].procs[p] \in Proc /\ RssOf(s[i], p) \in Nat
<1> DEFINE K == Seen(s, p)
           a == Min(K)
           b == Max(K)
<1>1. K \in SUBSET DOMAIN s /\ \A i \in K : p \in DOMAIN s[i].procs
  BY DEF Seen
<1>2. K # {}
  <2>1. PICK i \in DOMAIN s : p \in DOMAIN s[i].procs
    BY DEF SeenPids
  <2> QED BY <2>1 DEF Seen
<1> HIDE DEF K
<1>3. IsFiniteSet(K) /\ K \in SUBSET Int
  <2>1. DOMAIN s = 1..Len(s) /\ Len(s) \in Nat
    BY ReadableIs
  <2>2. IsFiniteSet(DOMAIN s)
    BY <2>1, FS_Interval
  <2> QED BY <1>1, <2>1, <2>2, FS_Subset
<1>4. /\ a \in K /\ b \in K /\ \A i \in K : a <= i /\ i <= b
  BY <1>2, <1>3, Extremes
<1>5. \A i \in K : i \in Nat /\ s[i].procs[p] \in Proc /\ RssOf(s[i], p) \in Nat /\ p \in Pids
  <2> SUFFICES ASSUME NEW i \in K
               PROVE  i \in Nat /\ s[i].procs[p] \in Proc /\ RssOf(s[i], p) \in Nat /\ p \in Pids
    OBVIOUS
  <2>1. s[i] \in Sample /\ p \in DOMAIN s[i].procs /\ i \in Nat
    BY <1>1, ReadableIs
  <2>2. s[i].procs[p] \in Proc /\ p \in Pids
    BY <2>1, SampleIs
  <2> QED BY <2>1, <2>2, ProcIs DEF RssOf
<1>6. Cardinality(K) \in Nat /\ Cardinality(K) > 0
  <2>1. Cardinality(K) \in Nat /\ Cardinality(K) # 0
    BY <1>2, <1>3, FS_CardinalityType, FS_EmptySet
  <2> QED BY <2>1
<1>7. Cardinality(K) = 1 <=> a = b
  <2>1. ASSUME a = b PROVE Cardinality(K) = 1
    <3>1. \A i \in K : i \in Int /\ a <= i /\ i <= a /\ a \in Int
      BY <1>3, <1>4, <2>1
    <3>2. \A i \in K : i = a
      BY <3>1
    <3>3. K = {a}
      BY <1>4, <3>2
    <3> HIDE DEF a
    <3> QED BY <3>3, FS_Singleton
  <2>2. ASSUME Cardinality(K) = 1 PROVE a = b
    <3>1. \E x : K = {x}
      BY <1>3, <2>2, FS_Singleton
    <3> QED BY <3>1, <1>4
  <2> QED BY <2>1, <2>2
<1>8. Cardinality(K) >= 2 <=> a < b
  <2>1. a \in Int /\ b \in Int /\ a <= b
    BY <1>3, <1>4
  <2> HIDE DEF a, b
  <2> QED BY <2>1, <1>6, <1>7
<1> QED BY <1>1, <1>2, <1>3, <1>4, <1>5, <1>6, <1>8 DEF K

\* What is kept of a process id, read off the samples.
LEMMA TrackersAre ==
  ASSUME NEW s, Readable(s), NEW p \in SeenPids(s)
  PROVE  LET K == Seen(s, p)  cpu == PidCpu(s, p)  ram == PidRam(s, p) IN
         /\ cpu.name = s[Max(K)].procs[p].program /\ cpu.samples = Cardinality(K)
         /\ cpu.first_ticks = s[Min(K)].procs[p].ticks
         /\ cpu.last_ticks = s[Max(K)].procs[p].ticks
         /\ ram.peak_kb = Max({RssOf(s[i], p) : i \in K}) /\ ram.samples = Cardinality(K)
         /\ ram.sum_kb = SumFunctionOnSet([i \in K |-> RssOf(s[i], p)], K)
<1> DEFINE K == Seen(s, p)
           crow == [i \in K |-> ParsePrc(PrcRecord(p, s[i].procs[p]))]
           rrow == [i \in K |-> ParsePrm(PrmRecord(p, s[i].procs[p]))]
<1>1. \A i \in K : s[i].procs[p] \in Proc
  BY SeenIs
<1>2. Min(K) \in K /\ Max(K) \in K
  BY SeenIs
<1>3. PidCpu(s, p) = [name |-> crow[Max(K)].name, samples |-> Cardinality(K),
                      first_ticks |-> crow[Min(K)].ticks, last_ticks |-> crow[Max(K)].ticks]
  BY DEF PidCpu
<1>4. PidRam(s, p) = [peak_kb |-> Max({rrow[i].rss : i \in K}), samples |-> Cardinality(K),
                      sum_kb |-> SumFunction([i \in K |-> rrow[i].rss])]
  BY DEF PidRam
<1>5. \A i \in K : crow[i] = [name |-> s[i].procs[p].program, ticks |-> s[i].procs[p].ticks]
  BY <1>1, RecordsRead
<1>6. \A i \in K : rrow[i].rss = RssOf(s[i], p)
  BY <1>1, RecordsRead DEF RssOf
<1> HIDE DEF crow, rrow, K
<1>7. {rrow[i].rss : i \in K} = {RssOf(s[i], p) : i \in K}
  BY <1>6
<1>8. [i \in K |-> rrow[i].rss] = [i \in K |-> RssOf(s[i], p)]
  BY <1>6
<1>9. SumFunction([i \in K |-> rrow[i].rss]) = SumFunctionOnSet([i \in K |-> RssOf(s[i], p)], K)
  BY <1>8 DEF SumFunction
<1>10. /\ PidCpu(s, p).name = s[Max(K)].procs[p].program /\ PidCpu(s, p).samples = Cardinality(K)
       /\ PidCpu(s, p).first_ticks = s[Min(K)].procs[p].ticks
       /\ PidCpu(s, p).last_ticks = s[Max(K)].procs[p].ticks
  <2>1. /\ PidCpu(s, p).name = crow[Max(K)].name /\ PidCpu(s, p).samples = Cardinality(K)
        /\ PidCpu(s, p).first_ticks = crow[Min(K)].ticks
        /\ PidCpu(s, p).last_ticks = crow[Max(K)].ticks
    BY <1>3
  <2>2. ASSUME NEW i \in K
        PROVE  crow[i].name = s[i].procs[p].program /\ crow[i].ticks = s[i].procs[p].ticks
    <3>1. crow[i] = [name |-> s[i].procs[p].program, ticks |-> s[i].procs[p].ticks]
      BY <1>5
    <3> QED BY <3>1
  <2> QED BY <1>2, <2>1, <2>2
<1>11. /\ PidRam(s, p).peak_kb = Max({RssOf(s[i], p) : i \in K})
       /\ PidRam(s, p).samples = Cardinality(K)
       /\ PidRam(s, p).sum_kb = SumFunctionOnSet([i \in K |-> RssOf(s[i], p)], K)
  <2>1. /\ PidRam(s, p).peak_kb = Max({rrow[i].rss : i \in K})
        /\ PidRam(s, p).samples = Cardinality(K)
        /\ PidRam(s, p).sum_kb = SumFunction([i \in K |-> rrow[i].rss])
    BY <1>4
  <2> QED BY <1>7, <1>9, <2>1
<1> QED BY <1>10, <1>11 DEF K

Delta(s, p) == DeltaTicks(PidCpu(s, p))

\* A process id is charged at most what it had between the first and the last sample,
\* and what came along if the first alone tells of it.
LEMMA DeltaBounded ==
  ASSUME NEW s, Readable(s), NEW p \in SeenPids(s)
  PROVE  /\ Delta(s, p) \in Nat /\ SpentBy(p, s) \in Nat
         /\ p \in Only(s) => Head(s).procs[p].ticks \in Nat
         /\ Delta(s, p) <= SpentBy(p, s)
                           + (IF p \in Only(s) THEN Head(s).procs[p].ticks ELSE 0)
<1> DEFINE K == Seen(s, p)
           a == Min(K)
           b == Max(K)
           N == Len(s)
           A == s[a].procs[p]
           B == s[b].procs[p]
<1>1. /\ K \in SUBSET DOMAIN s /\ a \in K /\ b \in K /\ p \in Pids
      /\ (Cardinality(K) >= 2 <=> a < b) /\ a <= b
      /\ \A i \in K : i \in Nat /\ s[i].procs[p] \in Proc
  BY SeenIs
<1>2. /\ N \in Nat /\ DOMAIN s = 1..N /\ 1 \in DOMAIN s /\ N \in DOMAIN s
      /\ Head(s) = s[1] /\ Last(s) = s[N] /\ \A i \in DOMAIN s : s[i] \in Sample
  BY ReadableIs
<1>3. a \in 1..N /\ b \in 1..N /\ p \in DOMAIN s[a].procs /\ p \in DOMAIN s[b].procs
      /\ A.ticks \in Nat /\ B.ticks \in Nat
  <2>1. p \in DOMAIN s[a].procs /\ p \in DOMAIN s[b].procs
    BY <1>1 DEF Seen
  <2> QED BY <1>1, <1>2, <2>1, ProcIs
<1>4. \A i \in 1..N : s[i].spent[p] \in Nat
  BY <1>1, <1>2, SampleIs
<1>5. \A i, j \in 1..N : i <= j => s[i].spent[p] <= s[j].spent[p] /\ Leads(s[i], s[j])
  BY <1>1, <1>2 DEF Readable, Leads
<1>6. SpentBy(p, s) = s[N].spent[p] - s[1].spent[p]
  BY <1>2 DEF SpentBy
<1>7. /\ s[1].spent[p] <= s[a].spent[p] /\ s[a].spent[p] <= s[b].spent[p]
      /\ s[b].spent[p] <= s[N].spent[p]
  BY <1>1, <1>2, <1>3, <1>5
<1>8. SpentBy(p, s) \in Nat
  BY <1>2, <1>4, <1>5, <1>6
<1>9. PidCpu(s, p).samples = Cardinality(K) /\ PidCpu(s, p).first_ticks = A.ticks
      /\ PidCpu(s, p).last_ticks = B.ticks
  BY TrackersAre
<1>10. p \in Only(s) => Head(s).procs[p].ticks \in Nat
  BY <1>2, SampleIs, ProcIs DEF Only
<1> DEFINE along == IF p \in Only(s) THEN Head(s).procs[p].ticks ELSE 0
<1>11. along \in Nat
  BY <1>10
<1>12. s[a].spent[p] \in Nat /\ s[b].spent[p] \in Nat /\ s[1].spent[p] \in Nat /\ s[N].spent[p] \in Nat
  BY <1>2, <1>3, <1>4
<1>13. CASE a < b
  <2>1. Cardinality(K) >= 2
    BY <1>1, <1>13
  <2>2. Delta(s, p) = Max({B.ticks - A.ticks, 0})
    BY <1>9, <2>1 DEF Delta, DeltaTicks
  <2>3. B.ticks - A.ticks <= s[b].spent[p] - s[a].spent[p]
    <3>1. Leads(s[a], s[b])
      BY <1>1, <1>3, <1>5
    <3>2. \/ B.ticks - A.ticks = s[b].spent[p] - s[a].spent[p]
          \/ B.ticks <= s[b].spent[p] - s[a].spent[p]
      BY <1>3, <3>1 DEF Leads
    <3> HIDE DEF A, B, a, b
    <3> QED BY <1>3, <1>12, <3>2
  <2>4. Delta(s, p) \in {B.ticks - A.ticks, 0} /\ 0 <= Delta(s, p)
    <3>1. {B.ticks - A.ticks, 0} \in SUBSET Int /\ {B.ticks - A.ticks, 0} # {}
      BY <1>3
    <3>2. IsFiniteSet({B.ticks - A.ticks, 0})
      <4>1. IsFiniteSet({0}) /\ {0} \cup {B.ticks - A.ticks} = {B.ticks - A.ticks, 0}
        BY FS_Singleton
      <4> QED BY <4>1, FS_AddElement
    <3> QED BY <2>2, <3>1, <3>2, Extremes
  <2> HIDE DEF A, B, a, b, N, along
  <2>5. Delta(s, p) \in Nat /\ Delta(s, p) <= s[N].spent[p] - s[1].spent[p]
    BY <1>3, <1>7, <1>12, <2>3, <2>4
  <2>6. Delta(s, p) <= SpentBy(p, s) + along
    BY <1>6, <1>8, <1>11, <2>5
  <2> QED BY <1>8, <1>10, <2>5, <2>6 DEF along
<1>14. CASE ~ (a < b)
  <2>1. a = b /\ ~ (Cardinality(K) >= 2)
    BY <1>1, <1>14
  <2>2. Delta(s, p) = B.ticks
    BY <1>9, <2>1 DEF Delta, DeltaTicks
  <2>3. CASE a = 1
    <3>1. K = {1}
      <4>1. \A i \in K : a <= i /\ i <= b
        BY SeenIs
      <4>2. \A i \in K : i = 1
        BY <4>1, <2>1, <2>3, <1>1
      <4> QED BY <4>2, <1>1
    <3>2. p \in Only(s)
      BY <3>1, <1>2, <1>3, <2>3 DEF Only
    <3>3. along = B.ticks
      BY <3>2, <2>1, <2>3, <1>2
    <3> HIDE DEF along, A, B, a, b, K, N
    <3>4. Delta(s, p) <= SpentBy(p, s) + along
      BY <1>3, <1>8, <2>2, <3>3
    <3> QED BY <1>3, <1>8, <1>10, <2>2, <3>4 DEF along
  <2>4. CASE a # 1
    <3>1. p \notin DOMAIN s[1].procs
      <4>1. 1 \notin K
        <5>1. \A i \in K : a <= i
          BY SeenIs
        <5> QED BY <5>1, <2>4, <1>3
      <4> QED BY <4>1, <1>2 DEF Seen
    <3>2. Leads(s[1], s[a])
      BY <1>2, <1>3, <1>5
    <3>3. B.ticks <= s[a].spent[p] - s[1].spent[p]
      BY <3>1, <3>2, <2>1, <1>3 DEF Leads
    <3> HIDE DEF along, A, B, a, b, K, N
    <3>4. Delta(s, p) <= SpentBy(p, s) + along
      BY <1>3, <1>6, <1>7, <1>8, <1>11, <1>12, <2>1, <2>2, <3>3
    <3> QED BY <1>3, <1>8, <1>10, <2>2, <3>4 DEF along
  <2> QED BY <2>3, <2>4
<1> QED BY <1>13, <1>14

(***************************************************************************)
(* One log.                                                                *)
(***************************************************************************)

\* The process ids that count for a program.
Bunch(s, n) == {p \in SeenPids(s) : PidCpu(s, p).name = n}

\* What is kept of a program.
FoldAgg(s, n) ==
  [cpu_ticks   |-> SumFunction([p \in Bunch(s, n) |-> Delta(s, p)]),
   peak_rss_kb |-> Max({PidRam(s, p).peak_kb : p \in Bunch(s, n)}),
   rss_kb_sum  |-> SumFunction([p \in Bunch(s, n) |-> AvgKb(PidRam(s, p))]),
   rss_samples |-> Cardinality(Bunch(s, n)),
   pid_count   |-> Cardinality(Bunch(s, n))]

LEMMA FoldIs ==
  ASSUME NEW s
  PROVE  /\ DOMAIN FoldPids(s) = {PidCpu(s, p).name : p \in SeenPids(s)}
         /\ \A n \in DOMAIN FoldPids(s) : FoldPids(s)[n] = FoldAgg(s, n)
<1> DEFINE pids == SeenPids(s)
           cpu == [p \in pids |-> PidCpu(s, p)]
           ram == [p \in pids |-> PidRam(s, p)]
           Of(n) == {p \in pids : cpu[p].name = n}
           Agg(n) == [cpu_ticks   |-> SumFunction([p \in Of(n) |-> DeltaTicks(cpu[p])]),
                      peak_rss_kb |-> Max({ram[p].peak_kb : p \in Of(n)}),
                      rss_kb_sum  |-> SumFunction([p \in Of(n) |-> AvgKb(ram[p])]),
                      rss_samples |-> Cardinality(Of(n)),
                      pid_count   |-> Cardinality(Of(n))]
<1>1. FoldPids(s) = [n \in {cpu[p].name : p \in pids} |-> Agg(n)]
  BY DEF FoldPids
<1>2. \A p \in pids : cpu[p] = PidCpu(s, p) /\ ram[p] = PidRam(s, p)
  OBVIOUS
<1> HIDE DEF cpu, ram
<1>3. \A n : Of(n) = Bunch(s, n)
  BY <1>2 DEF Bunch
<1>4. {cpu[p].name : p \in pids} = {PidCpu(s, p).name : p \in pids}
  BY <1>2
<1>5. ASSUME NEW n
      PROVE  /\ [p \in Of(n) |-> DeltaTicks(cpu[p])] = [p \in Bunch(s, n) |-> Delta(s, p)]
             /\ {ram[p].peak_kb : p \in Of(n)} = {PidRam(s, p).peak_kb : p \in Bunch(s, n)}
             /\ [p \in Of(n) |-> AvgKb(ram[p])] = [p \in Bunch(s, n) |-> AvgKb(PidRam(s, p))]
  <2>1. \A p \in Of(n) : cpu[p] = PidCpu(s, p) /\ ram[p] = PidRam(s, p)
    BY <1>2
  <2>2. Of(n) = Bunch(s, n)
    BY <1>3
  <2> HIDE DEF Of
  <2> QED BY <2>1, <2>2 DEF Delta
<1> HIDE DEF Of
<1>6. ASSUME NEW n PROVE Agg(n) = FoldAgg(s, n)
  <2>1. Of(n) = Bunch(s, n)
    BY <1>3
  <2> QED BY <1>5, <2>1, Zenon DEF FoldAgg
<1> HIDE DEF Agg
<1>7. DOMAIN FoldPids(s) = {PidCpu(s, p).name : p \in SeenPids(s)}
  BY <1>1, <1>4
<1>8. \A n \in DOMAIN FoldPids(s) : FoldPids(s)[n] = Agg(n)
  BY <1>1
<1> QED BY <1>6, <1>7, <1>8

LEMMA FoldDomain ==
  ASSUME NEW s
  PROVE  /\ DOMAIN FoldPids(s) = {PidCpu(s, p).name : p \in SeenPids(s)}
         /\ \A p \in SeenPids(s) : PidCpu(s, p).name \in DOMAIN FoldPids(s)
         /\ \A n \in DOMAIN FoldPids(s) : Bunch(s, n) # {}
<1>1. DOMAIN FoldPids(s) = {PidCpu(s, p).name : p \in SeenPids(s)}
  BY FoldIs
<1> QED BY <1>1 DEF Bunch

LEMMA FoldFields ==
  ASSUME NEW s, NEW n \in DOMAIN FoldPids(s)
  PROVE  /\ FoldPids(s)[n].cpu_ticks = SumFunction([p \in Bunch(s, n) |-> Delta(s, p)])
         /\ FoldPids(s)[n].peak_rss_kb = Max({PidRam(s, p).peak_kb : p \in Bunch(s, n)})
         /\ FoldPids(s)[n].rss_kb_sum
              = SumFunction([p \in Bunch(s, n) |-> AvgKb(PidRam(s, p))])
         /\ FoldPids(s)[n].rss_samples = Cardinality(Bunch(s, n))
         /\ FoldPids(s)[n].pid_count = Cardinality(Bunch(s, n))
<1>1. FoldPids(s)[n] = FoldAgg(s, n)
  BY FoldIs
<1> DEFINE ticks == SumFunction([p \in Bunch(s, n) |-> Delta(s, p)])
           peak == Max({PidRam(s, p).peak_kb : p \in Bunch(s, n)})
           sum == SumFunction([p \in Bunch(s, n) |-> AvgKb(PidRam(s, p))])
           k == Cardinality(Bunch(s, n))
<1>2. FoldAgg(s, n) = [cpu_ticks |-> ticks, peak_rss_kb |-> peak, rss_kb_sum |-> sum,
                       rss_samples |-> k, pid_count |-> k]
  BY DEF FoldAgg
<1> HIDE DEF ticks, peak, sum, k
<1>3. /\ FoldPids(s)[n].cpu_ticks = ticks /\ FoldPids(s)[n].peak_rss_kb = peak
      /\ FoldPids(s)[n].rss_kb_sum = sum
      /\ FoldPids(s)[n].rss_samples = k /\ FoldPids(s)[n].pid_count = k
  BY <1>1, <1>2
<1> QED BY <1>3 DEF ticks, peak, sum, k

LEMMA FoldRecord ==
  ASSUME NEW s, NEW n \in DOMAIN FoldPids(s)
  PROVE  FoldPids(s)[n] = [cpu_ticks   |-> FoldPids(s)[n].cpu_ticks,
                           peak_rss_kb |-> FoldPids(s)[n].peak_rss_kb,
                           rss_kb_sum  |-> FoldPids(s)[n].rss_kb_sum,
                           rss_samples |-> FoldPids(s)[n].rss_samples,
                           pid_count   |-> FoldPids(s)[n].pid_count]
<1>1. FoldPids(s)[n] = FoldAgg(s, n)
  BY FoldIs
<1>2. FoldAgg(s, n) = [cpu_ticks |-> FoldAgg(s, n).cpu_ticks,
                       peak_rss_kb |-> FoldAgg(s, n).peak_rss_kb,
                       rss_kb_sum  |-> FoldAgg(s, n).rss_kb_sum,
                       rss_samples |-> FoldAgg(s, n).rss_samples,
                       pid_count   |-> FoldAgg(s, n).pid_count]
  BY Zenon DEF FoldAgg
<1> QED BY <1>1, <1>2, Zenon

LEMMA ImageFinite ==
  ASSUME NEW S, IsFiniteSet(S), NEW f
  PROVE  IsFiniteSet({f[x] : x \in S})
<1> DEFINE T == {f[x] : x \in S}
           g == [x \in S |-> f[x]]
<1>1. g \in Surjection(S, T)
  BY DEF Surjection
<1> QED BY <1>1, FS_Surjection

LEMMA Divided ==
  ASSUME NEW x \in Nat, NEW d \in Nat, d > 0, NEW c \in Nat, x <= c * d
  PROVE  x \div d \in Nat /\ x \div d <= c
<1> DEFINE q == x \div d
<1>1. q \in Int /\ d * q <= x /\ x < d * q + d
  OBVIOUS
<1> HIDE DEF q
<1>2. q >= 0
  <2>1. q < 0 => d * q <= -d
    BY <1>1
  <2> QED BY <1>1, <2>1
<1>3. q > c => d * q >= d * c + d
  BY <1>1
<1>4. d * c = c * d /\ d * c \in Int
  OBVIOUS
<1> QED BY <1>1, <1>2, <1>3, <1>4 DEF q

\* What is kept of a process id is small, and no average is above its peak.
LEMMA MemoryOfPid ==
  ASSUME NEW s, Readable(s), NEW p \in SeenPids(s)
  PROVE  /\ PidRam(s, p).peak_kb \in {RssOf(s[i], p) : i \in Seen(s, p)}
         /\ \A i \in Seen(s, p) : RssOf(s[i], p) <= PidRam(s, p).peak_kb
         /\ PidRam(s, p).peak_kb \in Nat
         /\ AvgKb(PidRam(s, p)) \in Nat /\ AvgKb(PidRam(s, p)) <= PidRam(s, p).peak_kb
<1> DEFINE K == Seen(s, p)
           f == [i \in K |-> RssOf(s[i], p)]
           R == {RssOf(s[i], p) : i \in K}
           peak == PidRam(s, p).peak_kb
           sum == PidRam(s, p).sum_kb
           k == PidRam(s, p).samples
<1>1. K # {} /\ IsFiniteSet(K) /\ Cardinality(K) \in Nat /\ Cardinality(K) > 0
      /\ \A i \in K : RssOf(s[i], p) \in Nat
  BY SeenIs
<1>2. peak = Max(R) /\ k = Cardinality(K) /\ sum = SumFunctionOnSet(f, K)
  BY TrackersAre
<1> HIDE DEF K
<1>3. R # {} /\ R \in SUBSET Int /\ IsFiniteSet(R)
  <2>1. R = {f[i] : i \in K}
    OBVIOUS
  <2>2. IsFiniteSet({f[i] : i \in K})
    BY <1>1, ImageFinite
  <2>3. R # {} /\ R \in SUBSET Int
    BY <1>1
  <2> QED BY <2>1, <2>2, <2>3, Zenon
<1>4. peak \in R /\ \A x \in R : x <= peak
  <2> HIDE DEF R, peak
  <2> QED BY <1>2, <1>3, Extremes
<1>5. peak \in Nat /\ \A i \in K : RssOf(s[i], p) <= peak
  BY <1>1, <1>4
<1>6. \A i \in K : f[i] \in Nat /\ f[i] <= peak
  BY <1>1, <1>5
<1> HIDE DEF f, R, peak, sum, k
<1>7. sum \in Int /\ 0 <= sum
  <2>1. \A i \in K : f[i] \in Int
    BY <1>6
  <2>2. SumFunctionOnSet(f, K) \in Int
    BY <1>1, <2>1, SumIntegral
  <2>3. 0 <= SumFunctionOnSet(f, K)
    BY <1>1, <1>6, SumOfPart
  <2> QED BY <1>2, <2>2, <2>3
<1>8. sum <= peak * k
  <2>1. peak \in Int /\ \A i \in K : f[i] \in Int /\ f[i] <= peak
    BY <1>5, <1>6
  <2>2. SumFunctionOnSet(f, K) <= peak * Cardinality(K)
    BY <1>1, <2>1, SumAtMost
  <2> QED BY <1>2, <2>2
<1>9. k \in Nat /\ k > 0
  BY <1>1, <1>2
<1>10. AvgKb(PidRam(s, p)) = sum \div k
  BY DEF AvgKb, sum, k
<1>11. sum \div k \in Nat /\ sum \div k <= peak
  <2>1. sum \in Nat
    BY <1>7
  <2> QED BY <1>5, <1>8, <1>9, <2>1, Divided
<1> QED BY <1>4, <1>5, <1>10, <1>11 DEF K, R, peak

LEMMA SeenPidsFinite ==
  ASSUME NEW s, Readable(s)
  PROVE  IsFiniteSet(SeenPids(s)) /\ SeenPids(s) \in SUBSET Pids
<1>1. SeenPids(s) \in SUBSET Pids
  BY SeenIs
<1> QED BY <1>1, MachineAssumption, FS_Subset

LEMMA BunchIs ==
  ASSUME NEW s, Readable(s), NEW n \in DOMAIN FoldPids(s)
  PROVE  /\ Bunch(s, n) # {} /\ Bunch(s, n) \in SUBSET SeenPids(s) /\ IsFiniteSet(Bunch(s, n))
         /\ Cardinality(Bunch(s, n)) \in Nat /\ Cardinality(Bunch(s, n)) > 0
<1>1. Bunch(s, n) # {} /\ Bunch(s, n) \in SUBSET SeenPids(s)
  BY FoldDomain DEF Bunch
<1>2. IsFiniteSet(Bunch(s, n))
  BY <1>1, SeenPidsFinite, FS_Subset
<1>3. Cardinality(Bunch(s, n)) \in Nat /\ Cardinality(Bunch(s, n)) # 0
  BY <1>1, <1>2, FS_CardinalityType, FS_EmptySet
<1> QED BY <1>1, <1>2, <1>3

\* The memory of a program.
LEMMA MemoryOfBunch ==
  ASSUME NEW s, Readable(s), NEW n \in DOMAIN FoldPids(s)
  PROVE  LET agg == FoldPids(s)[n] IN
         /\ agg.peak_rss_kb \in {PidRam(s, p).peak_kb : p \in Bunch(s, n)}
         /\ \A p \in Bunch(s, n) : PidRam(s, p).peak_kb <= agg.peak_rss_kb
         /\ agg.peak_rss_kb \in Nat /\ agg.rss_kb_sum \in Nat
         /\ agg.rss_samples \in Nat /\ agg.rss_samples > 0
         /\ agg.rss_kb_sum <= agg.peak_rss_kb * agg.rss_samples
<1> DEFINE B == Bunch(s, n)
           f == [p \in B |-> PidRam(s, p).peak_kb]
           g == [p \in B |-> AvgKb(PidRam(s, p))]
           R == {PidRam(s, p).peak_kb : p \in B}
           peak == FoldPids(s)[n].peak_rss_kb
           sum == FoldPids(s)[n].rss_kb_sum
           k == FoldPids(s)[n].rss_samples
<1>1. /\ B # {} /\ IsFiniteSet(B) /\ Cardinality(B) \in Nat /\ Cardinality(B) > 0
      /\ B \in SUBSET SeenPids(s)
  BY BunchIs
<1>2. \A p \in B : /\ PidRam(s, p).peak_kb \in Nat /\ AvgKb(PidRam(s, p)) \in Nat
                   /\ AvgKb(PidRam(s, p)) <= PidRam(s, p).peak_kb
  BY <1>1, MemoryOfPid
<1>3. peak = Max(R) /\ sum = SumFunction(g) /\ k = Cardinality(B)
  BY FoldFields
<1>4. SumFunction(g) = SumFunctionOnSet(g, B)
  BY DEF SumFunction
<1> HIDE DEF B
<1>5. R # {} /\ R \in SUBSET Nat /\ IsFiniteSet(R)
  <2>1. R = {f[p] : p \in B}
    OBVIOUS
  <2>2. IsFiniteSet({f[p] : p \in B})
    BY <1>1, ImageFinite
  <2>3. R # {} /\ R \in SUBSET Nat
    BY <1>1, <1>2
  <2> QED BY <2>1, <2>2, <2>3, Zenon
<1>6. peak \in R /\ (\A x \in R : x <= peak) /\ peak \in Nat
  <2> HIDE DEF R, peak
  <2>1. R \in SUBSET Int
    BY <1>5
  <2>2. peak \in R /\ \A x \in R : x <= peak
    BY <1>3, <1>5, <2>1, Extremes
  <2> QED BY <1>5, <2>2
<1>7. \A p \in B : PidRam(s, p).peak_kb <= peak
  <2>1. \A p \in B : PidRam(s, p).peak_kb \in R
    OBVIOUS
  <2> QED BY <1>6, <2>1, Zenon
<1>8. \A p \in B : g[p] \in Nat /\ g[p] <= peak
  <2> SUFFICES ASSUME NEW p \in B PROVE g[p] \in Nat /\ g[p] <= peak
    OBVIOUS
  <2>1. /\ PidRam(s, p).peak_kb \in Nat /\ PidRam(s, p).peak_kb <= peak /\ peak \in Nat
        /\ g[p] \in Nat /\ g[p] <= PidRam(s, p).peak_kb
    BY <1>2, <1>6, <1>7
  <2> HIDE DEF g, peak
  <2> QED BY <2>1
<1> HIDE DEF f, g, peak, sum, k, R
<1>9. sum \in Nat
  <2>1. \A p \in B : g[p] \in Int
    BY <1>8
  <2>2. SumFunctionOnSet(g, B) \in Int
    BY <1>1, <2>1, SumIntegral
  <2>3. 0 <= SumFunctionOnSet(g, B)
    BY <1>1, <1>8, SumOfPart
  <2> QED BY <1>3, <1>4, <2>2, <2>3
<1>10. sum <= peak * k
  <2>1. peak \in Int /\ \A p \in B : g[p] \in Int /\ g[p] <= peak
    BY <1>6, <1>8
  <2>2. SumFunctionOnSet(g, B) <= peak * Cardinality(B)
    BY <1>1, <2>1, SumAtMost
  <2> QED BY <1>3, <1>4, <2>2
<1>11. k \in Nat /\ k > 0
  BY <1>1, <1>3
<1> QED BY <1>6, <1>7, <1>9, <1>10, <1>11 DEF peak, sum, k, R, B

LEMMA DeltasOf ==
  ASSUME NEW s, Readable(s), NEW P \in SUBSET SeenPids(s)
  PROVE  /\ IsFiniteSet(P)
         /\ SumFunction([p \in P |-> Delta(s, p)])
              = SumFunctionOnSet([p \in SeenPids(s) |-> Delta(s, p)], P)
         /\ SumFunctionOnSet([p \in SeenPids(s) |-> Delta(s, p)], P) \in Nat
<1> DEFINE f == [p \in P |-> Delta(s, p)]
           g == [p \in SeenPids(s) |-> Delta(s, p)]
<1>1. IsFiniteSet(P) /\ IsFiniteSet(SeenPids(s))
  BY SeenPidsFinite, FS_Subset
<1>2. \A p \in SeenPids(s) : g[p] \in Nat /\ g[p] \in Int
  BY DeltaBounded
<1>3. \A p \in P : f[p] \in Int /\ g[p] = f[p]
  BY <1>2
<1>4. SumFunction(f) = SumFunctionOnSet(f, P)
  BY DEF SumFunction
<1> HIDE DEF f, g
<1>5. SumFunctionOnSet(f, P) = SumFunctionOnSet(g, P)
  BY <1>1, <1>3, SumSame
<1>6. 0 <= SumFunctionOnSet(g, P)
  BY <1>1, <1>2, SumOfPart
<1>7. SumFunctionOnSet(g, P) \in Int
  BY <1>1, <1>2, SumIntegral
<1> QED BY <1>1, <1>4, <1>5, <1>6, <1>7 DEF f, g

LEMMA FoldTyped ==
  ASSUME NEW s, Readable(s)
  PROVE  IsAggs(FoldPids(s)) /\ FairMemory(FoldPids(s))
<1> DEFINE a == FoldPids(s)
<1>1. IsFiniteSet(DOMAIN a)
  <2> DEFINE f == [p \in SeenPids(s) |-> PidCpu(s, p).name]
  <2>1. DOMAIN a = {f[p] : p \in SeenPids(s)}
    <3>1. DOMAIN a = {PidCpu(s, p).name : p \in SeenPids(s)}
      BY FoldDomain
    <3>2. \A p \in SeenPids(s) : f[p] = PidCpu(s, p).name
      OBVIOUS
    <3> HIDE DEF a, f
    <3> QED BY <3>1, <3>2
  <2> HIDE DEF f, a
  <2> QED BY <2>1, SeenPidsFinite, ImageFinite
<1>2. ASSUME NEW n \in DOMAIN a PROVE a[n] \in AggRec
  <2>1. a[n].cpu_ticks \in Nat
    <3>1. Bunch(s, n) \in SUBSET SeenPids(s)
      BY BunchIs
    <3>2. SumFunction([p \in Bunch(s, n) |-> Delta(s, p)]) \in Nat
      BY <3>1, DeltasOf
    <3> QED BY <3>2, FoldFields
  <2>2. a[n].pid_count \in Nat
    <3>1. Cardinality(Bunch(s, n)) \in Nat
      BY BunchIs
    <3>2. a[n].pid_count = Cardinality(Bunch(s, n))
      BY FoldFields
    <3> QED BY <3>1, <3>2
  <2>3. a[n].peak_rss_kb \in Nat /\ a[n].rss_kb_sum \in Nat /\ a[n].rss_samples \in Nat
    BY MemoryOfBunch
  <2>4. a[n] = [cpu_ticks   |-> a[n].cpu_ticks, peak_rss_kb |-> a[n].peak_rss_kb,
                rss_kb_sum  |-> a[n].rss_kb_sum, rss_samples |-> a[n].rss_samples,
                pid_count   |-> a[n].pid_count]
    BY FoldRecord
  <2> HIDE DEF a
  <2> QED BY <2>1, <2>2, <2>3, <2>4 DEF AggRec
<1>3. FairMemory(a)
  BY MemoryOfBunch DEF FairMemory
<1> QED BY <1>1, <1>2, <1>3 DEF IsAggs

\* All programs of a log together are charged what its process ids are charged.
LEMMA FoldCharges ==
  ASSUME NEW s, Readable(s)
  PROVE  Charges(FoldPids(s))
           = SumFunctionOnSet([p \in SeenPids(s) |-> Delta(s, p)], SeenPids(s))
<1> DEFINE a == FoldPids(s)
           N == DOMAIN a
           T == SeenPids(s)
           f == [p \in T |-> Delta(s, p)]
           group == [p \in T |-> PidCpu(s, p).name]
           charged == [n \in N |-> a[n].cpu_ticks]
           grouped == [n \in N |-> SumFunctionOnSet(f, {p \in T : group[p] = n})]
<1>1. IsFiniteSet(T) /\ IsFiniteSet(N)
  BY SeenPidsFinite, FoldTyped DEF IsAggs
<1>2. \A p \in T : f[p] \in Int /\ group[p] \in N
  <2>1. \A p \in T : Delta(s, p) \in Int
    BY DeltaBounded
  <2>2. \A p \in T : PidCpu(s, p).name \in N
    BY FoldDomain
  <2> HIDE DEF N
  <2> QED BY <2>1, <2>2
<1>3. ASSUME NEW n \in N PROVE charged[n] = grouped[n] /\ charged[n] \in Int
  <2>1. {p \in T : group[p] = n} = Bunch(s, n)
    BY DEF Bunch
  <2>2. Bunch(s, n) \in SUBSET SeenPids(s)
    BY BunchIs
  <2>3. SumFunction([p \in Bunch(s, n) |-> Delta(s, p)]) = SumFunctionOnSet(f, Bunch(s, n))
        /\ SumFunctionOnSet(f, Bunch(s, n)) \in Nat
    BY <2>2, DeltasOf
  <2>4. a[n].cpu_ticks = SumFunction([p \in Bunch(s, n) |-> Delta(s, p)])
    BY FoldFields
  <2>5. grouped[n] = SumFunctionOnSet(f, Bunch(s, n))
    BY <2>1
  <2>6. charged[n] = a[n].cpu_ticks
    OBVIOUS
  <2> HIDE DEF a, f, grouped, charged
  <2> QED BY <2>3, <2>4, <2>5, <2>6
<1>4. Charges(a) = SumFunctionOnSet(charged, N)
  BY DEF Charges, SumFunction
<1>5. SumFunctionOnSet(grouped, N) = SumFunctionOnSet(f, T)
  <2> HIDE DEF a, N, T, f, group
  <2> QED BY <1>1, <1>2, SumByGroup
<1>6. SumFunctionOnSet(charged, N) = SumFunctionOnSet(grouped, N)
  <2> HIDE DEF charged, grouped, N
  <2> QED BY <1>1, <1>3, SumSame
<1> QED BY <1>4, <1>5, <1>6

\* What the process ids had in a log is at most what the CPUs have.
LEMMA SpentIs ==
  ASSUME NEW s, Readable(s)
  PROVE  /\ \A p \in Pids : SpentBy(p, s) \in Nat
         /\ SpentByAll(s) = SumFunctionOnSet([p \in Pids |-> SpentBy(p, s)], Pids)
         /\ SpentByAll(s) \in Int
         /\ Window(s).seconds \in Nat
         /\ SpentByAll(s) <= HZ * NCPU * Window(s).seconds
<1> DEFINE N == Len(s)
           f == [p \in Pids |-> SpentBy(p, s)]
<1>1. /\ N \in Nat /\ 1 \in DOMAIN s /\ N \in DOMAIN s /\ 1 <= N
      /\ Head(s) = s[1] /\ Last(s) = s[N] /\ s[1] \in Sample /\ s[N] \in Sample
  BY ReadableIs
<1>2. Leads(s[1], s[N])
  BY <1>1 DEF Readable
<1>3. \A p \in Pids : SpentBy(p, s) = s[N].spent[p] - s[1].spent[p]
  BY <1>1 DEF SpentBy
<1>4. ASSUME NEW p \in Pids PROVE SpentBy(p, s) \in Nat
  <2>1. s[1].spent[p] \in Nat /\ s[N].spent[p] \in Nat /\ s[1].spent[p] <= s[N].spent[p]
    BY <1>1, <1>2, SampleIs DEF Leads
  <2> QED BY <2>1, <1>3
<1>5. SpentByAll(s) = SumFunction(f)
  BY DEF SpentByAll
<1>6. SumFunction(f) = SumFunctionOnSet(f, Pids)
  BY DEF SumFunction
<1>7. f = [p \in Pids |-> s[N].spent[p] - s[1].spent[p]]
  BY <1>3
<1>8. SumFunction(f) <= HZ * NCPU * (s[N].epoch - s[1].epoch)
  BY <1>2, <1>7 DEF Leads
<1>9. Window(s).seconds = s[N].epoch - s[1].epoch
  BY <1>1 DEF Window
<1>10. Window(s).seconds \in Nat
  <2>1. s[1].epoch \in Nat /\ s[N].epoch \in Nat /\ s[1].epoch <= s[N].epoch
    BY <1>1, <1>2, SampleIs DEF Leads
  <2> QED BY <2>1, <1>9
<1>11. \A p \in Pids : f[p] \in Int
  BY <1>4
<1> HIDE DEF f
<1>12. SumFunctionOnSet(f, Pids) \in Int
  BY <1>11, SumIntegral, MachineAssumption
<1> QED BY <1>4, <1>5, <1>6, <1>8, <1>9, <1>10, <1>12 DEF f

LEMMA AlongIs ==
  ASSUME NEW s, Readable(s)
  PROVE  /\ Only(s) \in SUBSET Pids /\ IsFiniteSet(Only(s))
         /\ \A p \in Only(s) : Head(s).procs[p].ticks \in Nat
         /\ BroughtAlong(s)
              = SumFunctionOnSet([p \in Only(s) |-> Head(s).procs[p].ticks], Only(s))
         /\ BroughtAlong(s) \in Int
         /\ Only(s) = {} => BroughtAlong(s) = 0
<1> DEFINE f == [p \in Only(s) |-> Head(s).procs[p].ticks]
<1>1. Head(s) \in Sample
  BY ReadableIs
<1>2. Only(s) \in SUBSET DOMAIN Head(s).procs
  BY DEF Only
<1>3. Only(s) \in SUBSET Pids
  BY <1>1, <1>2, SampleIs
<1>4. \A p \in Only(s) : Head(s).procs[p].ticks \in Nat
  BY <1>1, <1>2, SampleIs, ProcIs
<1>5. IsFiniteSet(Only(s))
  BY <1>3, MachineAssumption, FS_Subset
<1>6. BroughtAlong(s) = SumFunction(f) /\ SumFunction(f) = SumFunctionOnSet(f, Only(s))
  BY DEF BroughtAlong, SumFunction
<1>7. \A p \in Only(s) : f[p] \in Int
  BY <1>4
<1> HIDE DEF f
<1>8. SumFunctionOnSet(f, Only(s)) \in Int
  BY <1>5, <1>7, SumIntegral
<1>9. Only(s) = {} => SumFunctionOnSet(f, Only(s)) = 0
  BY SumNothing
<1> QED BY <1>3, <1>4, <1>5, <1>6, <1>8, <1>9 DEF f

\* What all programs of a log are charged.
LEMMA FoldBounded ==
  ASSUME NEW s, Readable(s)
  PROVE  Charges(FoldPids(s)) <= SpentByAll(s) + BroughtAlong(s)
<1> DEFINE T == SeenPids(s)
           O == Only(s)
           delta == [p \in T |-> Delta(s, p)]
           had == [p \in Pids |-> SpentBy(p, s)]
           ticks == [p \in O |-> Head(s).procs[p].ticks]
           along == [p \in Pids |-> IF p \in O THEN Head(s).procs[p].ticks ELSE 0]
           both == [p \in Pids |-> had[p] + along[p]]
<1>1. T \in SUBSET Pids /\ IsFiniteSet(T) /\ IsFiniteSet(Pids)
  BY SeenPidsFinite, MachineAssumption
<1>2. O \in SUBSET Pids /\ IsFiniteSet(O) /\ \A p \in O : Head(s).procs[p].ticks \in Nat
  BY AlongIs
<1>3. \A p \in Pids : had[p] \in Nat /\ along[p] \in Nat
  BY <1>2, SpentIs
<1>4. \A p \in Pids : both[p] = had[p] + along[p] /\ both[p] \in Nat
  BY <1>3
<1>5. ASSUME NEW p \in T PROVE delta[p] \in Int /\ both[p] \in Int /\ delta[p] <= both[p]
  <2>1. /\ Delta(s, p) \in Nat
        /\ Delta(s, p) <= SpentBy(p, s) + (IF p \in O THEN Head(s).procs[p].ticks ELSE 0)
    BY DeltaBounded
  <2>2. p \in Pids /\ had[p] = SpentBy(p, s)
        /\ along[p] = (IF p \in O THEN Head(s).procs[p].ticks ELSE 0)
    BY <1>1
  <2>3. delta[p] = Delta(s, p)
    OBVIOUS
  <2> HIDE DEF delta, had, along, both, T, O
  <2> QED BY <1>4, <2>1, <2>2, <2>3
<1>6. \A p \in O : ticks[p] \in Int /\ along[p] = ticks[p]
  BY <1>2
<1>7. \A p \in Pids \ O : along[p] = 0
  OBVIOUS
<1>8. /\ Charges(FoldPids(s)) = SumFunctionOnSet(delta, T)
      /\ SpentByAll(s) = SumFunctionOnSet(had, Pids)
      /\ BroughtAlong(s) = SumFunctionOnSet(ticks, O)
  BY FoldCharges, SpentIs, AlongIs
<1> HIDE DEF delta, had, ticks, along, both, T, O
<1>9. SumFunctionOnSet(delta, T) <= SumFunctionOnSet(both, T)
  BY <1>1, <1>5, SumLeq
<1>10. SumFunctionOnSet(both, T) <= SumFunctionOnSet(both, Pids)
  BY <1>1, <1>4, SumOfPart
<1>11. \A p \in Pids : had[p] \in Int /\ along[p] \in Int /\ both[p] \in Int /\ both[p] = had[p] + along[p]
  BY <1>3, <1>4
<1>12. SumFunctionOnSet(both, Pids) = SumFunctionOnSet(had, Pids) + SumFunctionOnSet(along, Pids)
  BY <1>1, <1>11, SumPlus
<1>13. SumFunctionOnSet(along, Pids) = SumFunctionOnSet(along, O)
  BY <1>1, <1>2, <1>7, <1>11, SumZeroes
<1>14. SumFunctionOnSet(ticks, O) = SumFunctionOnSet(along, O)
  BY <1>2, <1>6, SumSame
<1>15. /\ SumFunctionOnSet(delta, T) \in Int /\ SumFunctionOnSet(both, T) \in Int
       /\ SumFunctionOnSet(both, Pids) \in Int /\ SumFunctionOnSet(had, Pids) \in Int
       /\ SumFunctionOnSet(along, Pids) \in Int
  BY <1>1, <1>5, <1>11, SumIntegral
<1> QED BY <1>8, <1>9, <1>10, <1>12, <1>13, <1>14, <1>15

\* A process that is there in every sample, under one name, is charged what it had.
LEMMA SteadyDelta ==
  ASSUME NEW s, Readable(s), AllSteady(s), NEW p \in SeenPids(s)
  PROVE  /\ PidCpu(s, p).name = Head(s).procs[p].program
         /\ Delta(s, p) = Last(s).procs[p].ticks - Head(s).procs[p].ticks
         /\ Delta(s, p) \in Int
<1> DEFINE N == Len(s)
           K == Seen(s, p)
           A == s[1].procs[p]
           B == s[N].procs[p]
<1>1. /\ N \in Nat /\ N >= 2 /\ DOMAIN s = 1..N /\ 1 \in DOMAIN s /\ N \in DOMAIN s
      /\ Head(s) = s[1] /\ Last(s) = s[N] /\ s[1] \in Sample /\ s[N] \in Sample
  BY ReadableIs DEF AllSteady
<1>2. Steady(p, s)
  BY DEF AllSteady
<1>3. K = 1..N
  BY <1>1, <1>2 DEF Seen, Steady
<1>4. Min(K) = 1 /\ Max(K) = N /\ Cardinality(K) >= 2 /\ p \in Pids
  <2>1. /\ Min(K) \in K /\ Max(K) \in K /\ \A i \in K : Min(K) <= i /\ i <= Max(K)
        /\ (Cardinality(K) >= 2 <=> Min(K) < Max(K)) /\ p \in Pids
    BY SeenIs
  <2>2. 1 \in K /\ N \in K
    BY <1>1, <1>3
  <2>3. Min(K) \in 1..N /\ Max(K) \in 1..N /\ Min(K) <= 1 /\ N <= Max(K)
    BY <1>3, <2>1, <2>2
  <2>4. Min(K) = 1 /\ Max(K) = N
    BY <1>1, <2>3
  <2> QED BY <1>1, <2>1, <2>4
<1>5. p \in DOMAIN s[1].procs /\ p \in DOMAIN s[N].procs /\ A.program = B.program /\ A.id = B.id
  BY <1>1, <1>2 DEF Steady
<1>6. A.ticks \in Nat /\ B.ticks \in Nat
  BY <1>1, <1>5, SampleIs, ProcIs
<1>7. /\ PidCpu(s, p).name = B.program /\ PidCpu(s, p).samples = Cardinality(K)
      /\ PidCpu(s, p).first_ticks = A.ticks /\ PidCpu(s, p).last_ticks = B.ticks
  <2>1. /\ PidCpu(s, p).name = s[Max(K)].procs[p].program
        /\ PidCpu(s, p).samples = Cardinality(K)
        /\ PidCpu(s, p).first_ticks = s[Min(K)].procs[p].ticks
        /\ PidCpu(s, p).last_ticks = s[Max(K)].procs[p].ticks
    BY TrackersAre
  <2> HIDE DEF K
  <2> QED BY <1>4, <2>1
<1>8. Delta(s, p) = Max({B.ticks - A.ticks, 0})
  BY <1>4, <1>7 DEF Delta, DeltaTicks
<1>9. B.ticks - A.ticks \in Nat
  <2>1. Leads(s[1], s[N])
    BY <1>1 DEF Readable
  <2>2. B.ticks - A.ticks = s[N].spent[p] - s[1].spent[p]
    BY <1>5, <2>1 DEF Leads
  <2>3. s[1].spent[p] \in Nat /\ s[N].spent[p] \in Nat /\ s[1].spent[p] <= s[N].spent[p]
    BY <1>1, <1>4, <2>1, SampleIs DEF Leads
  <2> HIDE DEF A, B, N
  <2> QED BY <2>2, <2>3
<1> HIDE DEF A, B, N, K
<1>10. Max({B.ticks - A.ticks, 0}) = B.ticks - A.ticks
  <2> DEFINE d == B.ticks - A.ticks
  <2>1. d \in Nat
    BY <1>9
  <2> HIDE DEF d
  <2>2. Max({d, 0}) \in {d, 0} /\ d <= Max({d, 0}) /\ Max({d, 0}) \in Nat
    BY <2>1, LargerOfTwo
  <2>3. Max({d, 0}) = d
    BY <2>1, <2>2
  <2> QED BY <2>3 DEF d
<1> QED BY <1>1, <1>5, <1>7, <1>8, <1>9, <1>10 DEF A, B

LEMMA FoldExact ==
  ASSUME NEW s, Readable(s), AllSteady(s), NEW n
  PROVE  AggOf(FoldPids(s), n).cpu_ticks = HadBy(n, s) /\ HadBy(n, s) \in Int
<1> DEFINE P == {q \in SeenPids(s) : Head(s).procs[q].program = n}
           f == [p \in P |-> Delta(s, p)]
           had == [p \in P |-> Last(s).procs[p].ticks - Head(s).procs[p].ticks]
<1>1. Bunch(s, n) = P
  BY SteadyDelta DEF Bunch
<1>2. f = had
  BY SteadyDelta
<1>3. HadBy(n, s) = SumFunction(had)
  BY DEF HadBy
<1>4. SumFunction(f) \in Nat
  <2>1. P \in SUBSET SeenPids(s)
    OBVIOUS
  <2> HIDE DEF P
  <2> QED BY <2>1, DeltasOf
<1>5. CASE n \in DOMAIN FoldPids(s)
  <2>1. FoldPids(s)[n].cpu_ticks = SumFunction([p \in Bunch(s, n) |-> Delta(s, p)])
    BY <1>5, FoldFields
  <2>2. FoldPids(s)[n].cpu_ticks = SumFunction(f)
    BY <1>1, <2>1
  <2>3. AggOf(FoldPids(s), n) = FoldPids(s)[n]
    BY <1>5 DEF AggOf
  <2> HIDE DEF f, had
  <2> QED BY <1>2, <1>3, <1>4, <2>2, <2>3
<1>6. CASE n \notin DOMAIN FoldPids(s)
  <2>1. P = {}
    <3>1. \A p \in Bunch(s, n) : n \in DOMAIN FoldPids(s)
      BY FoldDomain DEF Bunch
    <3> HIDE DEF P
    <3> QED BY <1>1, <1>6, <3>1
  <2>2. SumFunction(had) = 0
    <3>1. SumFunction(had) = SumFunctionOnSet(had, P)
      BY DEF SumFunction
    <3> HIDE DEF had, P
    <3> QED BY <2>1, <3>1, SumNothing
  <2>3. AggOf(FoldPids(s), n).cpu_ticks = 0
    BY <1>6 DEF AggOf, NoAgg
  <2> QED BY <1>3, <2>2, <2>3
<1> QED BY <1>5, <1>6

\* What the processes of a log were seen with, and the largest of it.
SeenRss(s) == UNION {{Rss(s[j].procs[p].program, s[j].procs[p].ticks) :
                p \in DOMAIN s[j].procs} : j \in DOMAIN s}

LEMMA FoldPeaks ==
  ASSUME NEW s, Readable(s)
  PROVE  /\ SameTop(Peaks(FoldPids(s)), SeenRss(s)) /\ SeenRss(s) \in SUBSET Nat
         /\ DOMAIN FoldPids(s) # {}
<1> DEFINE a == FoldPids(s)
<1>1. ASSUME NEW p \in SeenPids(s), NEW i \in Seen(s, p)
      PROVE  RssOf(s[i], p) \in SeenRss(s)
  <2>1. i \in DOMAIN s /\ p \in DOMAIN s[i].procs
    BY DEF Seen
  <2> QED BY <2>1 DEF RssOf, SeenRss
<1>2. \A t \in SeenRss(s) : \E i \in DOMAIN s : \E p \in DOMAIN s[i].procs : t = RssOf(s[i], p)
  BY DEF SeenRss, RssOf
<1>3. \A i \in DOMAIN s : \A p \in DOMAIN s[i].procs : p \in SeenPids(s) /\ i \in Seen(s, p)
  BY DEF SeenPids, Seen
<1>4. ASSUME NEW n \in DOMAIN a PROVE a[n].peak_rss_kb \in SeenRss(s)
  <2>1. PICK p \in Bunch(s, n) : a[n].peak_rss_kb = PidRam(s, p).peak_kb
    BY MemoryOfBunch
  <2>2. p \in SeenPids(s)
    BY DEF Bunch
  <2>3. PICK i \in Seen(s, p) : PidRam(s, p).peak_kb = RssOf(s[i], p)
    BY <2>2, MemoryOfPid
  <2> QED BY <1>1, <2>1, <2>2, <2>3
<1>5. ASSUME NEW t \in SeenRss(s) PROVE t \in Nat /\ \E x \in Peaks(a) : t <= x
  <2>0. PICK i \in DOMAIN s : \E p \in DOMAIN s[i].procs : t = RssOf(s[i], p)
    BY <1>2
  <2>1. PICK p \in DOMAIN s[i].procs : t = RssOf(s[i], p)
    BY <2>0
  <2>2. p \in SeenPids(s) /\ i \in Seen(s, p)
    BY <1>3, <2>1
  <2>3. t \in Nat /\ t <= PidRam(s, p).peak_kb /\ PidRam(s, p).peak_kb \in Nat
    BY <2>1, <2>2, MemoryOfPid, SeenIs
  <2> DEFINE n == PidCpu(s, p).name
  <2>4. n \in DOMAIN a /\ p \in Bunch(s, n)
    BY <2>2, FoldDomain DEF Bunch
  <2> HIDE DEF n
  <2>5. PidRam(s, p).peak_kb <= a[n].peak_rss_kb /\ a[n].peak_rss_kb \in Nat
    BY <2>4, MemoryOfBunch
  <2>6. t <= a[n].peak_rss_kb
    BY <2>3, <2>5
  <2>7. a[n].peak_rss_kb \in Peaks(a)
    BY <2>4 DEF Peaks
  <2> QED BY <2>3, <2>6, <2>7
<1>6. DOMAIN a # {}
  <2>1. 1 \in DOMAIN s /\ DOMAIN s[1].procs # {}
    BY ReadableIs DEF Readable
  <2>2. PICK p \in DOMAIN s[1].procs : TRUE
    BY <2>1
  <2>3. p \in SeenPids(s)
    BY <1>3, <2>1
  <2> QED BY <2>3, FoldDomain
<1> QED BY <1>4, <1>5, <1>6 DEF SameTop, Peaks

(***************************************************************************)
(* A report: several logs.                                                 *)
(***************************************************************************)
Logs(S, N) == DOMAIN S = 1..N /\ \A i \in 1..N : Readable(S[i])

DaysMerged(a, S, k) ==
  /\ IsAggs(a) /\ FairMemory(a)
  /\ Charges(a) = SumFunctionOnSet([i \in DOMAIN S |-> Charges(FoldPids(S[i]))], 1..k)
  /\ \A n : AggOf(a, n).cpu_ticks
       = SumFunctionOnSet([i \in DOMAIN S |-> AggOf(FoldPids(S[i]), n).cpu_ticks], 1..k)
  /\ SameTop(Peaks(a), UNION {SeenRss(S[i]) : i \in 1..k})
  /\ k > 0 => DOMAIN a # {}

LEMMA TopsJoin ==
  ASSUME NEW M, NEW A, NEW B, NEW U, NEW V,
         A \in SUBSET Nat, U \in SUBSET Nat, V \in SUBSET Nat,
         SameTop(M, A \cup B), SameTop(A, U), SameTop(B, V)
  PROVE  SameTop(M, U \cup V)
<1>1. A \subseteq U /\ B \subseteq V /\ M \subseteq A \cup B /\ M \in SUBSET Nat
  BY DEF SameTop
<1>2. ASSUME NEW t \in U \cup V PROVE \E x \in M : t <= x
  <2>1. t \in Nat
    OBVIOUS
  <2>2. PICK y \in A \cup B : t <= y
    BY DEF SameTop
  <2>3. y \in Nat
    BY <1>1
  <2>4. PICK x \in M : y <= x
    BY DEF SameTop
  <2>5. x \in Nat
    BY <1>1
  <2>6. t <= x
    BY <2>1, <2>2, <2>3, <2>4, <2>5
  <2> QED BY <2>6
<1> QED BY <1>1, <1>2 DEF SameTop

LEMMA NoDays ==
  ASSUME NEW S
  PROVE  DaysMerged(<<>>, S, 0)
<1>1. DOMAIN <<>> = {} /\ 1..0 = {}
  OBVIOUS
<1>2. IsFiniteSet({})
  BY FS_EmptySet
<1>3. IsAggs(<<>>) /\ FairMemory(<<>>)
  BY <1>1, <1>2 DEF IsAggs, FairMemory
<1>4. Charges(<<>>) = 0
  <2> DEFINE f == [n \in DOMAIN <<>> |-> <<>>[n].cpu_ticks]
  <2>1. Charges(<<>>) = SumFunctionOnSet(f, DOMAIN f) /\ DOMAIN f = {}
    BY <1>1 DEF Charges, SumFunction
  <2> HIDE DEF f
  <2> QED BY <2>1, SumNothing
<1>5. \A n : AggOf(<<>>, n).cpu_ticks = 0
  BY <1>1 DEF AggOf, NoAgg
<1>6. \A f : SumFunctionOnSet(f, 1..0) = 0
  BY <1>1, SumNothing
<1>7. Peaks(<<>>) = {} /\ UNION {SeenRss(S[i]) : i \in 1..0} = {}
  BY <1>1 DEF Peaks
<1> QED BY <1>3, <1>4, <1>5, <1>6, <1>7 DEF DaysMerged, SameTop

\* A sum over some days, and over one more.
LEMMA SumNext ==
  ASSUME NEW N \in Nat, NEW f, \A i \in 1..N : f[i] \in Int, NEW k \in Nat, k + 1 <= N
  PROVE  /\ SumFunctionOnSet(f, 1..(k + 1)) = f[k + 1] + SumFunctionOnSet(f, 1..k)
         /\ SumFunctionOnSet(f, 1..k) \in Int
<1>1. IsFiniteSet(1..N)
  BY FS_Interval
<1>2. 1..k \in SUBSET (1..N) /\ k + 1 \in 1..N /\ k + 1 \notin 1..k
      /\ (1..k) \cup {k + 1} = 1..(k + 1)
  OBVIOUS
<1>3. SumFunctionOnSet(f, (1..k) \cup {k + 1}) = f[k + 1] + SumFunctionOnSet(f, 1..k)
  <2> DEFINE T == 1..N
             P == 1..k
             x == k + 1
  <2>1. IsFiniteSet(T) /\ P \in SUBSET T /\ x \in T /\ x \notin P /\ \A i \in T : f[i] \in Int
    BY <1>1, <1>2
  <2> HIDE DEF T, P, x
  <2>2. SumFunctionOnSet(f, P \cup {x}) = f[x] + SumFunctionOnSet(f, P)
    BY <2>1, SumOneMore
  <2> QED BY <2>2 DEF P, x
<1>4. SumFunctionOnSet(f, 1..k) \in Int
  BY <1>1, <1>2, SumIntegral
<1> QED BY <1>2, <1>3, <1>4

LEMMA OneMoreDay ==
  ASSUME NEW N \in Nat, NEW S, Logs(S, N), NEW k \in Nat, k + 1 <= N,
         NEW a, DaysMerged(a, S, k)
  PROVE  DaysMerged(MergeProcAggs(a, FoldPids(S[k + 1])), S, k + 1)
<1> DEFINE b == FoldPids(S[k + 1])
           m == MergeProcAggs(a, b)
           charges == [i \in DOMAIN S |-> Charges(FoldPids(S[i]))]
           ticks(n) == [i \in DOMAIN S |-> AggOf(FoldPids(S[i]), n).cpu_ticks]
           U == UNION {SeenRss(S[i]) : i \in 1..k}
           V == SeenRss(S[k + 1])
<1>1. DOMAIN S = 1..N /\ k + 1 \in 1..N /\ \A i \in 1..N : Readable(S[i])
  BY DEF Logs
<1>2. \A i \in 1..N : IsAggs(FoldPids(S[i])) /\ FairMemory(FoldPids(S[i]))
  BY <1>1, FoldTyped
<1>3. \A i \in 1..N : charges[i] = Charges(FoldPids(S[i])) /\ charges[i] \in Int
  <2> SUFFICES ASSUME NEW i \in 1..N
               PROVE  charges[i] = Charges(FoldPids(S[i])) /\ charges[i] \in Int
    OBVIOUS
  <2>1. IsAggs(FoldPids(S[i])) /\ IsFiniteSet(DOMAIN FoldPids(S[i]))
        /\ DOMAIN FoldPids(S[i]) \subseteq DOMAIN FoldPids(S[i])
    BY <1>2 DEF IsAggs
  <2>2. Charges(FoldPids(S[i])) \in Int
    BY <2>1, ChargesOf
  <2> QED BY <1>1, <2>2
<1>4. ASSUME NEW n, NEW i \in 1..N
      PROVE  ticks(n)[i] = AggOf(FoldPids(S[i]), n).cpu_ticks /\ ticks(n)[i] \in Int
  <2>1. AggOf(FoldPids(S[i]), n) \in AggRec
    BY <1>2, AggTyped
  <2>2. AggOf(FoldPids(S[i]), n).cpu_ticks \in Int
    BY <2>1 DEF AggRec
  <2> QED BY <1>1, <2>2
<1>5. /\ IsAggs(a) /\ FairMemory(a) /\ IsAggs(b) /\ FairMemory(b)
      /\ Charges(a) = SumFunctionOnSet(charges, 1..k)
      /\ SameTop(Peaks(a), U)
  BY <1>1, <1>2 DEF DaysMerged
<1>6. \A n : AggOf(a, n).cpu_ticks = SumFunctionOnSet(ticks(n), 1..k)
  BY DEF DaysMerged
<1>7. IsAggs(m) /\ FairMemory(m)
  <2> HIDE DEF b
  <2> QED BY <1>5, MergeOne, MergeMemory
<1>8. Charges(m) = SumFunctionOnSet(charges, 1..(k + 1))
  <2>1. Charges(m) = Charges(a) + Charges(b)
    <3> HIDE DEF b
    <3> QED BY <1>5, MergeCharges
  <2>2. charges[k + 1] = Charges(b)
    BY <1>1, <1>3
  <2> HIDE DEF charges, m, b
  <2>3. /\ SumFunctionOnSet(charges, 1..(k + 1)) = charges[k + 1] + SumFunctionOnSet(charges, 1..k)
        /\ SumFunctionOnSet(charges, 1..k) \in Int
    BY <1>3, SumNext
  <2>4. charges[k + 1] \in Int
    BY <1>1, <1>3
  <2> QED BY <1>5, <2>1, <2>2, <2>3, <2>4
<1>9. ASSUME NEW n
      PROVE  AggOf(m, n).cpu_ticks = SumFunctionOnSet(ticks(n), 1..(k + 1))
  <2> DEFINE f == ticks(n)
  <2>1. AggOf(m, n).cpu_ticks = AggOf(a, n).cpu_ticks + AggOf(b, n).cpu_ticks
    <3> HIDE DEF b
    <3> QED BY <1>5, MergeOne
  <2>2. f[k + 1] = AggOf(b, n).cpu_ticks /\ f[k + 1] \in Int
    BY <1>1, <1>4
  <2>3. \A i \in 1..N : f[i] \in Int
    BY <1>4
  <2>4. AggOf(a, n).cpu_ticks = SumFunctionOnSet(f, 1..k)
    BY <1>6
  <2> HIDE DEF f, m, b
  <2>5. /\ SumFunctionOnSet(f, 1..(k + 1)) = f[k + 1] + SumFunctionOnSet(f, 1..k)
        /\ SumFunctionOnSet(f, 1..k) \in Int
    BY <2>3, SumNext
  <2>6. AggOf(m, n).cpu_ticks = SumFunctionOnSet(f, 1..(k + 1))
    BY <2>1, <2>2, <2>4, <2>5
  <2> QED BY <2>6 DEF f
<1>10. SameTop(Peaks(m), UNION {SeenRss(S[i]) : i \in 1..(k + 1)})
  <2>1. SameTop(Peaks(b), V) /\ V \in SUBSET Nat
    BY <1>1, FoldPeaks
  <2>2. U \in SUBSET Nat
    <3> SUFFICES ASSUME NEW i \in 1..k PROVE SeenRss(S[i]) \in SUBSET Nat
      OBVIOUS
    <3>1. Readable(S[i])
      BY <1>1
    <3> QED BY <3>1, FoldPeaks
  <2>3. Peaks(a) \in SUBSET Nat
    BY <1>5, <2>2 DEF SameTop
  <2>4. SameTop(Peaks(m), Peaks(a) \cup Peaks(b))
    <3> HIDE DEF b
    <3> QED BY <1>5, MergeMemory
  <2>5. UNION {SeenRss(S[i]) : i \in 1..(k + 1)} = U \cup V
    <3>1. 1..(k + 1) = (1..k) \cup {k + 1}
      OBVIOUS
    <3> QED BY <3>1
  <2> HIDE DEF U, V, m, b
  <2>6. SameTop(Peaks(m), U \cup V)
    BY <1>5, <2>1, <2>2, <2>3, <2>4, TopsJoin
  <2> QED BY <2>5, <2>6
<1>11. DOMAIN m # {}
  <2>1. DOMAIN b # {}
    BY <1>1, FoldPeaks
  <2>2. DOMAIN m = DOMAIN a \cup DOMAIN b
    BY DEF MergeProcAggs
  <2> QED BY <2>1, <2>2
<1> QED BY <1>7, <1>8, <1>9, <1>10, <1>11 DEF DaysMerged

LEMMA AllDays ==
  ASSUME NEW N \in Nat, NEW S, Logs(S, N)
  PROVE  DaysMerged(MergeAll([i \in DOMAIN S |-> FoldPids(S[i])]), S, N)
<1> DEFINE parts == [i \in DOMAIN S |-> FoldPids(S[i])]
<1>1. DOMAIN parts = 1..N /\ \A i \in 1..N : parts[i] = FoldPids(S[i])
  BY DEF Logs
<1> HIDE DEF parts
<1>2. PICK upto : /\ upto[0] = <<>> /\ MergeAll(parts) = upto[N]
                  /\ \A k \in 1..N : upto[k] = MergeProcAggs(upto[k - 1], parts[k])
  BY <1>1, MergeRecursion
<1> DEFINE Good == {k \in Nat : k <= N => DaysMerged(upto[k], S, k)}
<1>3. 0 \in Good
  BY <1>2, NoDays
<1>4. ASSUME NEW k \in Good PROVE k + 1 \in Good
  <2> SUFFICES ASSUME k + 1 <= N PROVE DaysMerged(upto[k + 1], S, k + 1)
    OBVIOUS
  <2>1. k \in Nat /\ DaysMerged(upto[k], S, k)
    BY <1>4
  <2>2. k + 1 \in 1..N /\ (k + 1) - 1 = k
    BY <2>1
  <2>3. upto[k + 1] = MergeProcAggs(upto[k], FoldPids(S[k + 1]))
    BY <1>1, <1>2, <2>2
  <2> QED BY <2>1, <2>3, OneMoreDay
<1> HIDE DEF Good
<1>5. Good \in SUBSET Nat
  BY DEF Good
<1>6. N \in Good
  BY <1>3, <1>4, <1>5, Counting
<1> QED BY <1>2, <1>6 DEF Good, parts

\* The report is one on one or more logs.
FromLogs == \E S : \E N \in Nat \ {0} : Logs(S, N) /\ report = ReportOf(S)

LEMMA ReportIs ==
  ASSUME NEW N \in Nat \ {0}, NEW S, Logs(S, N), report = ReportOf(S)
  PROVE  /\ Read = S /\ DaysMerged(report.aggs, S, N)
         /\ SumFunctionOnSet([i \in DOMAIN S |-> Window(S[i]).seconds], 1..N) \in Int
         /\ report.seconds \in Nat
         /\ SumFunctionOnSet([i \in DOMAIN S |-> Window(S[i]).seconds], 1..N) <= report.seconds
<1> DEFINE windows == [i \in DOMAIN S |-> Window(S[i])]
           parts == [i \in DOMAIN S |-> FoldPids(S[i])]
           f == [i \in DOMAIN S |-> Window(S[i]).seconds]
           total == MergeWindows(windows).seconds
<1>1. DOMAIN S = 1..N /\ \A i \in 1..N : Readable(S[i])
  BY DEF Logs
<1>2. /\ report.read = S
      /\ report.aggs = MergeAll(parts)
      /\ report.seconds = IF total = 0 THEN SecondsPerDay ELSE total
  BY DEF ReportOf, AggregateSegments
<1>3. DaysMerged(report.aggs, S, N)
  BY <1>2, AllDays
<1>4. \A i \in 1..N : f[i] \in Nat /\ f[i] \in Int
  <2> SUFFICES ASSUME NEW i \in 1..N PROVE f[i] \in Nat /\ f[i] \in Int
    OBVIOUS
  <2>1. Window(S[i]).seconds \in Nat
    BY <1>1, SpentIs
  <2>2. f[i] = Window(S[i]).seconds
    BY <1>1
  <2> HIDE DEF f
  <2> QED BY <2>1, <2>2
<1>5. total = SumFunction([i \in DOMAIN windows |-> windows[i].seconds])
  BY DEF MergeWindows
<1>6. [i \in DOMAIN windows |-> windows[i].seconds] = f
  OBVIOUS
<1>7. SumFunction(f) = SumFunctionOnSet(f, 1..N)
  BY <1>1 DEF SumFunction
<1>8. IsFiniteSet(1..N)
  BY FS_Interval
<1> HIDE DEF f, total, windows, parts
<1>9. SumFunctionOnSet(f, 1..N) \in Int
  BY <1>4, <1>8, SumIntegral
<1>10. 0 <= SumFunctionOnSet(f, 1..N)
  BY <1>4, <1>8, SumOfPart
<1>11. total = SumFunctionOnSet(f, 1..N)
  BY <1>5, <1>6, <1>7
<1>12. report.seconds \in Nat /\ total <= report.seconds
  BY <1>2, <1>9, <1>10, <1>11, ReportAssumption
<1> QED BY <1>2, <1>3, <1>9, <1>11, <1>12 DEF f, Read

\* What is charged for one log is bounded by what was had in it.
LEMMA ChargedIs ==
  ASSUME NEW N \in Nat \ {0}, NEW S, Logs(S, N), report = ReportOf(S)
  PROVE  /\ Charged \in Int
         /\ Charged <= SumFunctionOnSet([i \in DOMAIN S |->
                         SpentByAll(S[i]) + BroughtAlong(S[i])], 1..N)
<1> DEFINE f == [i \in DOMAIN S |-> Charges(FoldPids(S[i]))]
           g == [i \in DOMAIN S |-> SpentByAll(S[i]) + BroughtAlong(S[i])]
<1>1. DOMAIN S = 1..N /\ \A i \in 1..N : Readable(S[i])
  BY DEF Logs
<1>2. Charged = SumFunctionOnSet(f, 1..N)
  BY ReportIs DEF Charged, DaysMerged
<1>3. ASSUME NEW i \in 1..N PROVE f[i] \in Int /\ g[i] \in Int /\ f[i] <= g[i]
  <2>1. Readable(S[i]) /\ f[i] = Charges(FoldPids(S[i]))
        /\ g[i] = SpentByAll(S[i]) + BroughtAlong(S[i])
    BY <1>1
  <2>2. SpentByAll(S[i]) \in Int /\ BroughtAlong(S[i]) \in Int
    BY <2>1, SpentIs, AlongIs
  <2>3. Charges(FoldPids(S[i])) <= SpentByAll(S[i]) + BroughtAlong(S[i])
    BY <2>1, FoldBounded
  <2>4. Charges(FoldPids(S[i])) \in Int
    <3>1. IsAggs(FoldPids(S[i])) /\ IsFiniteSet(DOMAIN FoldPids(S[i]))
          /\ DOMAIN FoldPids(S[i]) \subseteq DOMAIN FoldPids(S[i])
      BY <2>1, FoldTyped DEF IsAggs
    <3> QED BY <3>1, ChargesOf
  <2> HIDE DEF f, g
  <2> QED BY <2>1, <2>2, <2>3, <2>4
<1>4. IsFiniteSet(1..N)
  BY FS_Interval
<1> HIDE DEF f, g
<1>5. SumFunctionOnSet(f, 1..N) <= SumFunctionOnSet(g, 1..N)
  BY <1>3, <1>4, SumLeq
<1>6. SumFunctionOnSet(f, 1..N) \in Int
  BY <1>3, <1>4, SumIntegral
<1> QED BY <1>2, <1>5, <1>6 DEF g

LEMMA LogsNothingInvented == FromLogs => NothingInvented
<1> SUFFICES ASSUME FromLogs PROVE NothingInvented
  OBVIOUS
<1>0. PICK S : \E N \in Nat \ {0} : Logs(S, N) /\ report = ReportOf(S)
  BY DEF FromLogs
<1>1. PICK N \in Nat \ {0} : Logs(S, N) /\ report = ReportOf(S)
  BY <1>0
<1> DEFINE g == [i \in DOMAIN S |-> SpentByAll(S[i]) + BroughtAlong(S[i])]
<1>2. Read = S /\ DOMAIN S = 1..N
  BY <1>1, ReportIs DEF Logs
<1>3. Charged <= SumFunctionOnSet(g, 1..N)
  BY <1>1, ChargedIs
<1>4. SumOver(LAMBDA s : SpentByAll(s) + BroughtAlong(s)) = SumFunctionOnSet(g, 1..N)
  BY <1>2 DEF SumOver, SumFunction
<1> QED BY <1>3, <1>4 DEF NothingInvented

LEMMA LogsSteadyIsExact == FromLogs => SteadyIsExact
<1> SUFFICES ASSUME FromLogs, \A i \in DOMAIN Read : AllSteady(Read[i]), NEW n \in Programs
             PROVE  AggOf(report.aggs, n).cpu_ticks = SumOver(LAMBDA s : HadBy(n, s))
  BY DEF SteadyIsExact
<1>0. PICK S : \E N \in Nat \ {0} : Logs(S, N) /\ report = ReportOf(S)
  BY DEF FromLogs
<1>1. PICK N \in Nat \ {0} : Logs(S, N) /\ report = ReportOf(S)
  BY <1>0
<1> DEFINE f == [i \in DOMAIN S |-> AggOf(FoldPids(S[i]), n).cpu_ticks]
           g == [i \in DOMAIN S |-> HadBy(n, S[i])]
<1>2. Read = S /\ DOMAIN S = 1..N /\ \A i \in 1..N : Readable(S[i]) /\ AllSteady(S[i])
  BY <1>1, ReportIs DEF Logs
<1>3. AggOf(report.aggs, n).cpu_ticks = SumFunctionOnSet(f, 1..N)
  BY <1>1, ReportIs DEF DaysMerged
<1>4. \A i \in 1..N : f[i] \in Int /\ g[i] = f[i]
  BY <1>2, FoldExact
<1>5. f = g
  BY <1>2, <1>4
<1>6. SumOver(LAMBDA s : HadBy(n, s)) = SumFunctionOnSet(g, 1..N)
  BY <1>2 DEF SumOver, SumFunction
<1> QED BY <1>3, <1>5, <1>6

LEMMA LogsBoxIsNotOverbooked == FromLogs => BoxIsNotOverbooked
<1> SUFFICES ASSUME FromLogs, \A i \in DOMAIN Read : Only(Read[i]) = {}
             PROVE  Charged <= HZ * NCPU * report.seconds
  BY DEF BoxIsNotOverbooked
<1>0. PICK S : \E N \in Nat \ {0} : Logs(S, N) /\ report = ReportOf(S)
  BY DEF FromLogs
<1>1. PICK N \in Nat \ {0} : Logs(S, N) /\ report = ReportOf(S)
  BY <1>0
<1> DEFINE c == HZ * NCPU
           had == [i \in DOMAIN S |-> SpentByAll(S[i]) + BroughtAlong(S[i])]
           secs == [i \in DOMAIN S |-> Window(S[i]).seconds]
           most == [i \in DOMAIN S |-> c * Window(S[i]).seconds]
<1>2. Read = S /\ DOMAIN S = 1..N /\ \A i \in 1..N : Readable(S[i]) /\ Only(S[i]) = {}
  BY <1>1, ReportIs DEF Logs
<1>3. /\ Charged \in Int /\ Charged <= SumFunctionOnSet(had, 1..N)
      /\ SumFunctionOnSet(secs, 1..N) \in Int /\ report.seconds \in Nat
      /\ SumFunctionOnSet(secs, 1..N) <= report.seconds
  BY <1>1, ReportIs, ChargedIs
<1>4. c \in Nat
  BY MachineAssumption
<1>5. ASSUME NEW i \in 1..N
      PROVE  /\ had[i] \in Int /\ most[i] \in Int /\ had[i] <= most[i]
             /\ secs[i] \in Int /\ most[i] = c * secs[i]
  <2>1. Readable(S[i])
    BY <1>2
  <2>2. BroughtAlong(S[i]) = 0
    BY <1>2, <2>1, AlongIs
  <2>3. SpentByAll(S[i]) \in Int /\ Window(S[i]).seconds \in Nat
        /\ SpentByAll(S[i]) <= c * Window(S[i]).seconds
    BY <2>1, SpentIs
  <2>4. had[i] = SpentByAll(S[i]) + BroughtAlong(S[i]) /\ secs[i] = Window(S[i]).seconds
        /\ most[i] = c * Window(S[i]).seconds
    BY <1>2
  <2> HIDE DEF had, most, secs, c
  <2>5. c * Window(S[i]).seconds \in Int
    BY <1>4, <2>3
  <2> QED BY <2>2, <2>3, <2>4, <2>5
<1>6. IsFiniteSet(1..N)
  BY FS_Interval
<1> HIDE DEF had, most, secs, c
<1>7. SumFunctionOnSet(had, 1..N) <= SumFunctionOnSet(most, 1..N)
  BY <1>5, <1>6, SumLeq
<1>8. SumFunctionOnSet(most, 1..N) = c * SumFunctionOnSet(secs, 1..N)
  BY <1>4, <1>5, <1>6, SumTimes
<1>9. SumFunctionOnSet(had, 1..N) \in Int /\ SumFunctionOnSet(most, 1..N) \in Int
  BY <1>5, <1>6, SumIntegral
<1>10. c * SumFunctionOnSet(secs, 1..N) <= c * report.seconds
  BY <1>3, <1>4
<1>11. c * report.seconds \in Int
  BY <1>3, <1>4
<1>12. Charged <= c * report.seconds
  BY <1>3, <1>7, <1>8, <1>9, <1>10, <1>11
<1> QED BY <1>12 DEF c

LEMMA LogsMemoryAgrees == FromLogs => MemoryAgrees
<1> SUFFICES ASSUME FromLogs PROVE MemoryAgrees
  OBVIOUS
<1>0. PICK S : \E N \in Nat \ {0} : Logs(S, N) /\ report = ReportOf(S)
  BY DEF FromLogs
<1>1. PICK N \in Nat \ {0} : Logs(S, N) /\ report = ReportOf(S)
  BY <1>0
<1> DEFINE a == report.aggs
           U == UNION {SeenRss(S[i]) : i \in 1..N}
           R == UNION {UNION {{Rss(Read[i][j].procs[p].program, Read[i][j].procs[p].ticks) :
                  p \in DOMAIN Read[i][j].procs} : j \in DOMAIN Read[i]} : i \in DOMAIN Read}
           P == {report.aggs[n].peak_rss_kb : n \in DOMAIN report.aggs}
<1>2. Read = S /\ DOMAIN S = 1..N /\ DaysMerged(a, S, N) /\ \A i \in 1..N : Readable(S[i])
  BY <1>1, ReportIs DEF Logs
<1>3. /\ IsAggs(a) /\ FairMemory(a) /\ SameTop(Peaks(a), U) /\ DOMAIN a # {}
  BY <1>2 DEF DaysMerged
<1>4. R = U
  BY <1>2 DEF SeenRss
<1>5. P = Peaks(a)
  BY DEF Peaks
<1>6. U \in SUBSET Nat
  <2> SUFFICES ASSUME NEW i \in 1..N PROVE SeenRss(S[i]) \in SUBSET Nat
    OBVIOUS
  <2> QED BY <1>2, FoldPeaks
<1>7. P # {} /\ IsFiniteSet(P) /\ P \in SUBSET Int
  <2>1. P \in SUBSET Int
    BY <1>3, <1>5, <1>6 DEF SameTop
  <2> DEFINE f == [n \in DOMAIN a |-> a[n].peak_rss_kb]
  <2>2. P = {f[n] : n \in DOMAIN a} /\ IsFiniteSet(DOMAIN a)
    BY <1>3 DEF IsAggs
  <2> HIDE DEF f, P, a
  <2>3. IsFiniteSet({f[n] : n \in DOMAIN a})
    BY <2>2, ImageFinite
  <2>4. {f[n] : n \in DOMAIN a} # {}
    BY <1>3
  <2> QED BY <2>1, <2>2, <2>3, <2>4
<1> HIDE DEF P, R, U
<1>8. Max(P) \in P /\ \A y \in P : y <= Max(P)
  BY <1>7, Extremes
<1>9. Max(P) = Max(U)
  <2>0. \A y \in U : y \in Int
    BY <1>6
  <2>1. Max(P) \in U
    BY <1>3, <1>5, <1>8 DEF SameTop
  <2>2. \A y \in U : Max(P) >= y
    <3> SUFFICES ASSUME NEW y \in U PROVE Max(P) >= y
      OBVIOUS
    <3>1. PICK x \in P : y <= x
      BY <1>3, <1>5 DEF SameTop
    <3>2. x \in Int /\ y \in Int /\ Max(P) \in Int /\ x <= Max(P)
      BY <2>0, <1>7, <1>8
    <3> QED BY <3>1, <3>2
  <2>3. \A x \in U : (\A y \in U : x >= y) => x = Max(P)
    <3> SUFFICES ASSUME NEW x \in U, \A y \in U : x >= y PROVE x = Max(P)
      OBVIOUS
    <3>1. x >= Max(P) /\ Max(P) >= x /\ x \in Int /\ Max(P) \in Int
      BY <2>0, <2>1, <2>2
    <3> QED BY <3>1
  <2>4. Max(U) = CHOOSE x \in U : \A y \in U : x >= y
    BY DEF Max
  <2> DEFINE m == Max(P)
  <2> HIDE DEF m
  <2>5. m \in U /\ (\A y \in U : m >= y) /\ \A x \in U : (\A y \in U : x >= y) => x = m
    BY <2>1, <2>2, <2>3 DEF m
  <2>6. (CHOOSE x \in U : \A y \in U : x >= y) = m
    BY <2>5
  <2> QED BY <2>4, <2>6 DEF m
<1>10. Max(P) = Max(R)
  BY <1>4, <1>9
<1>11. \A n \in DOMAIN report.aggs :
         /\ report.aggs[n].rss_samples > 0
         /\ report.aggs[n].rss_kb_sum <= report.aggs[n].peak_rss_kb * report.aggs[n].rss_samples
  BY <1>3 DEF FairMemory
<1> QED BY <1>10, <1>11 DEF MemoryAgrees, P, R

(***************************************************************************)
(* The inductive invariant.                                                *)
(***************************************************************************)

\* The moment itself, as a sample would have it.
Now == [epoch |-> clock, procs |-> procs, spent |-> spent]

TypeInv ==
  /\ clock \in 0 .. MaxClock /\ starts \in 0 .. MaxStarts
  /\ procs \in ProcTables /\ spent \in [Pids -> Nat]
  /\ log \in [Days -> Seq(Sample)]

\* A process has had no more than all the time there was, and identities are new.
ProcsInv == \A p \in DOMAIN procs : procs[p].ticks <= HZ * clock /\ procs[p].id <= starts
IdsInv == \A d \in Days : \A i \in DOMAIN log[d] : \A p \in DOMAIN log[d][i].procs :
            log[d][i].procs[p].id <= starts

\* Any sample of a log leads the later ones, and the moment itself.
LeadInv ==
  \A d \in Days :
    /\ \A i \in DOMAIN log[d] : DOMAIN log[d][i].procs # {} /\ Leads(log[d][i], Now)
    /\ \A i, j \in DOMAIN log[d] : i <= j => Leads(log[d][i], log[d][j])

Inv == /\ TypeInv /\ ProcsInv /\ IdsInv /\ LeadInv

LEMMA LeadsSelf ==
  ASSUME NEW x \in Sample
  PROVE  Leads(x, x)
<1> DEFINE f == [p \in Pids |-> x.spent[p] - x.spent[p]]
<1>1. /\ x.epoch \in Nat /\ \A p \in Pids : x.spent[p] \in Nat
      /\ DOMAIN x.procs \in SUBSET Pids /\ \A p \in DOMAIN x.procs : x.procs[p].ticks \in Nat
  BY SampleIs, ProcIs
<1>2. \A p \in Pids : f[p] = 0
  BY <1>1
<1>3. SumFunction(f) = SumFunctionOnSet(f, Pids)
  BY DEF SumFunction
<1> HIDE DEF f
<1>4. SumFunctionOnSet(f, Pids) = 0
  BY <1>2, MachineAssumption, SumOfZeroes
<1>5. HZ * NCPU * (x.epoch - x.epoch) = 0
  <2>1. HZ * NCPU \in Nat /\ x.epoch - x.epoch = 0
    BY <1>1, MachineAssumption
  <2> QED BY <2>1
<1>6. SumFunction(f) <= HZ * NCPU * (x.epoch - x.epoch)
  BY <1>3, <1>4, <1>5
<1>7. \A p \in Pids : x.spent[p] <= x.spent[p]
  BY <1>1
<1>8. \A p \in DOMAIN x.procs : x.procs[p].ticks - x.procs[p].ticks = x.spent[p] - x.spent[p]
  BY <1>1
<1> QED BY <1>1, <1>6, <1>7, <1>8 DEF Leads, f

\* What comes, goes or changes its name breaks no lead.
LEMMA LeadsOn ==
  ASSUME NEW s \in Sample, NEW t \in Sample, NEW u \in Sample, Leads(s, t),
         u.epoch = t.epoch, u.spent = t.spent,
         \A p \in DOMAIN u.procs :
           \/ /\ p \in DOMAIN t.procs /\ u.procs[p].id = t.procs[p].id
              /\ u.procs[p].ticks = t.procs[p].ticks
           \/ /\ u.procs[p].ticks = 0
              /\ p \in DOMAIN s.procs => s.procs[p].id # u.procs[p].id
  PROVE  Leads(s, u)
<1>1. ASSUME NEW p \in DOMAIN u.procs
      PROVE  IF p \in DOMAIN s.procs /\ s.procs[p].id = u.procs[p].id
             THEN u.procs[p].ticks - s.procs[p].ticks = u.spent[p] - s.spent[p]
             ELSE u.procs[p].ticks <= u.spent[p] - s.spent[p]
  <2>1. CASE /\ p \in DOMAIN t.procs /\ u.procs[p].id = t.procs[p].id
             /\ u.procs[p].ticks = t.procs[p].ticks
    <3>1. IF p \in DOMAIN s.procs /\ s.procs[p].id = t.procs[p].id
          THEN t.procs[p].ticks - s.procs[p].ticks = t.spent[p] - s.spent[p]
          ELSE t.procs[p].ticks <= t.spent[p] - s.spent[p]
      BY <2>1 DEF Leads
    <3> QED BY <2>1, <3>1
  <2>2. CASE /\ u.procs[p].ticks = 0
             /\ p \in DOMAIN s.procs => s.procs[p].id # u.procs[p].id
    <3>1. p \in Pids /\ s.spent[p] \in Nat /\ u.spent[p] \in Nat
      BY SampleIs
    <3>2. s.spent[p] <= u.spent[p]
      BY <3>1 DEF Leads
    <3>3. 0 <= u.spent[p] - s.spent[p]
      BY <3>1, <3>2
    <3> QED BY <2>2, <3>3
  <2> QED BY <2>1, <2>2
<1>2. /\ s.epoch <= u.epoch /\ \A p \in Pids : s.spent[p] <= u.spent[p]
      /\ SumFunction([p \in Pids |-> u.spent[p] - s.spent[p]]) <= HZ * NCPU * (u.epoch - s.epoch)
  BY DEF Leads
<1> QED BY <1>1, <1>2 DEF Leads

\* Nor does a second of work.
LEMMA LeadsRun ==
  ASSUME NEW s \in Sample, NEW t \in Sample, NEW u \in Sample, Leads(s, t),
         NEW pids \in SUBSET DOMAIN t.procs, Cardinality(pids) <= NCPU,
         u.epoch = t.epoch + 1, DOMAIN u.procs = DOMAIN t.procs,
         \A p \in DOMAIN t.procs :
           /\ u.procs[p].id = t.procs[p].id
           /\ u.procs[p].ticks = t.procs[p].ticks + (IF p \in pids THEN HZ ELSE 0),
         \A p \in Pids : u.spent[p] = t.spent[p] + (IF p \in pids THEN HZ ELSE 0)
  PROVE  Leads(s, u)
<1> DEFINE c == HZ * NCPU
           old == [p \in Pids |-> t.spent[p] - s.spent[p]]
           new == [p \in Pids |-> u.spent[p] - s.spent[p]]
           gain == [p \in Pids |-> IF p \in pids THEN HZ ELSE 0]
<1>1. /\ IsFiniteSet(Pids) /\ HZ \in Nat /\ NCPU \in Nat /\ c \in Nat
  BY MachineAssumption
<1>2. /\ s.epoch \in Nat /\ t.epoch \in Nat /\ u.epoch \in Nat
      /\ \A p \in Pids : s.spent[p] \in Nat /\ t.spent[p] \in Nat /\ u.spent[p] \in Nat
      /\ DOMAIN s.procs \in SUBSET Pids /\ \A p \in DOMAIN s.procs : s.procs[p].ticks \in Nat
      /\ DOMAIN t.procs \in SUBSET Pids /\ \A p \in DOMAIN t.procs : t.procs[p].ticks \in Nat
  BY SampleIs, ProcIs
<1>3. pids \in SUBSET Pids /\ IsFiniteSet(pids) /\ Cardinality(pids) \in Nat
  BY <1>1, <1>2, FS_Subset, FS_CardinalityType
<1>4. \A p \in Pids : gain[p] \in {0, HZ} /\ gain[p] \in Int /\ gain[p] >= 0
  BY <1>1
<1>5. \A p \in Pids : u.spent[p] = t.spent[p] + gain[p]
  OBVIOUS
<1>6. \A p \in Pids : old[p] \in Int /\ new[p] = old[p] + gain[p] /\ new[p] \in Int
  <2> SUFFICES ASSUME NEW p \in Pids
               PROVE  old[p] \in Int /\ new[p] = old[p] + gain[p] /\ new[p] \in Int
    OBVIOUS
  <2>1. old[p] = t.spent[p] - s.spent[p] /\ new[p] = u.spent[p] - s.spent[p]
    OBVIOUS
  <2> HIDE DEF old, new, gain
  <2> QED BY <1>2, <1>4, <1>5, <2>1
<1>7. (\A p \in Pids \ pids : gain[p] = 0) /\ (\A p \in pids : gain[p] \in Int /\ gain[p] <= HZ)
  BY <1>1, <1>3
<1>8. SumFunction(old) = SumFunctionOnSet(old, Pids) /\ SumFunction(new) = SumFunctionOnSet(new, Pids)
  BY DEF SumFunction
<1>9. SumFunction(old) <= c * (t.epoch - s.epoch) /\ s.epoch <= t.epoch
      /\ \A p \in Pids : s.spent[p] <= t.spent[p]
  BY DEF Leads
<1> HIDE DEF old, new, gain, c
<1>10. SumFunctionOnSet(new, Pids) = SumFunctionOnSet(old, Pids) + SumFunctionOnSet(gain, Pids)
  BY <1>1, <1>4, <1>6, SumPlus
<1>11. SumFunctionOnSet(gain, Pids) = SumFunctionOnSet(gain, pids)
  BY <1>1, <1>3, <1>4, <1>7, SumZeroes
<1>12. SumFunctionOnSet(gain, pids) <= HZ * Cardinality(pids)
  <2>1. HZ \in Int /\ \A p \in pids : gain[p] \in Int /\ gain[p] <= HZ
    BY <1>1, <1>7
  <2> DEFINE most == HZ
  <2>2. most \in Int /\ \A p \in pids : gain[p] \in Int /\ gain[p] <= most
    BY <2>1
  <2> HIDE DEF most
  <2>3. SumFunctionOnSet(gain, pids) <= most * Cardinality(pids)
    BY <1>3, <2>2, SumAtMost
  <2> QED BY <2>3 DEF most
<1>13. HZ * Cardinality(pids) <= c /\ HZ * Cardinality(pids) \in Nat
  <2>1. HZ * Cardinality(pids) <= HZ * NCPU /\ HZ * Cardinality(pids) \in Nat
    BY <1>1, <1>3, Monotone
  <2> QED BY <2>1 DEF c
<1>14. /\ SumFunctionOnSet(old, Pids) \in Int /\ SumFunctionOnSet(gain, Pids) \in Int
       /\ SumFunctionOnSet(gain, pids) \in Int
  BY <1>1, <1>3, <1>4, <1>6, SumIntegral
<1>15. SumFunction(new) <= c * (u.epoch - s.epoch)
  <2>1. u.epoch - s.epoch = (t.epoch - s.epoch) + 1 /\ t.epoch - s.epoch \in Nat
    BY <1>2, <1>9
  <2> DEFINE e == t.epoch - s.epoch
  <2>2. e \in Nat /\ u.epoch - s.epoch = e + 1
    BY <2>1
  <2> HIDE DEF e
  <2>3. c * (e + 1) = c * e + c /\ c * e \in Nat
    BY <1>1, <2>2
  <2>4. SumFunction(old) <= c * e
    BY <1>9 DEF e
  <2>5. SumFunction(new) <= c * e + c
    BY <1>1, <1>8, <1>10, <1>11, <1>12, <1>13, <1>14, <2>3, <2>4
  <2> QED BY <2>2, <2>3, <2>5
<1>16. ASSUME NEW p \in DOMAIN u.procs
       PROVE  IF p \in DOMAIN s.procs /\ s.procs[p].id = u.procs[p].id
              THEN u.procs[p].ticks - s.procs[p].ticks = u.spent[p] - s.spent[p]
              ELSE u.procs[p].ticks <= u.spent[p] - s.spent[p]
  <2> DEFINE g == IF p \in pids THEN HZ ELSE 0
  <2>1. p \in DOMAIN t.procs /\ p \in Pids
    BY <1>2
  <2>2. IF p \in DOMAIN s.procs /\ s.procs[p].id = t.procs[p].id
        THEN t.procs[p].ticks - s.procs[p].ticks = t.spent[p] - s.spent[p]
        ELSE t.procs[p].ticks <= t.spent[p] - s.spent[p]
    BY <2>1 DEF Leads
  <2>3. u.procs[p].ticks = t.procs[p].ticks + g /\ u.spent[p] = t.spent[p] + g
        /\ u.procs[p].id = t.procs[p].id /\ g \in Nat
    BY <1>1, <2>1
  <2> HIDE DEF g
  <2>4. t.procs[p].ticks \in Nat /\ t.spent[p] \in Nat /\ s.spent[p] \in Nat
        /\ (p \in DOMAIN s.procs => s.procs[p].ticks \in Nat)
    BY <1>2, <2>1
  <2>5. CASE p \in DOMAIN s.procs /\ s.procs[p].id = t.procs[p].id
    <3>1. t.procs[p].ticks - s.procs[p].ticks = t.spent[p] - s.spent[p]
      BY <2>2, <2>5
    <3>2. (t.procs[p].ticks + g) - s.procs[p].ticks = (t.spent[p] + g) - s.spent[p]
      BY <2>3, <2>4, <2>5, <3>1
    <3> QED BY <2>3, <2>5, <3>2
  <2>6. CASE ~ (p \in DOMAIN s.procs /\ s.procs[p].id = t.procs[p].id)
    <3>1. t.procs[p].ticks <= t.spent[p] - s.spent[p]
      BY <2>2, <2>6
    <3>2. t.procs[p].ticks + g <= (t.spent[p] + g) - s.spent[p]
      BY <2>3, <2>4, <3>1
    <3> QED BY <2>3, <2>6, <3>2
  <2> QED BY <2>5, <2>6
<1>17. s.epoch <= u.epoch /\ \A p \in Pids : s.spent[p] <= u.spent[p]
  BY <1>2, <1>4, <1>5, <1>9
<1> QED BY <1>15, <1>16, <1>17 DEF Leads, new, c

\* A later second is on no earlier day.
LEMMA DaysPass ==
  ASSUME NEW x \in Nat, NEW y \in Nat, x <= y
  PROVE  Day(x) \in Nat /\ Day(y) \in Nat /\ Day(x) <= Day(y)
<1> DEFINE d == SecondsPerDay
           a == x \div d
           b == y \div d
<1>1. d \in Nat /\ d > 0
  BY ReportAssumption
<1> HIDE DEF d
<1>2. /\ a \in Int /\ d * a <= x /\ x < d * a + d
      /\ b \in Int /\ d * b <= y /\ y < d * b + d
  BY <1>1
<1> HIDE DEF a, b
<1>3. a >= 0 /\ b >= 0
  <2>1. a < 0 => d * a <= -d
    BY <1>1, <1>2
  <2>2. b < 0 => d * b <= -d
    BY <1>1, <1>2
  <2> QED BY <1>1, <1>2, <2>1, <2>2
<1>4. a > b => d * a >= d * b + d
  BY <1>1, <1>2
<1>5. d * a \in Int /\ d * b \in Int
  BY <1>1, <1>2
<1>6. a <= b
  BY <1>1, <1>2, <1>4, <1>5
<1> QED BY <1>2, <1>3, <1>6 DEF a, b, d, Day

LEMMA DayIs == ASSUME NEW x \in 0 .. MaxClock PROVE Day(x) \in Days
<1>1. MaxClock \in Nat /\ x \in Nat /\ x <= MaxClock
  BY ReportAssumption
<1>2. Day(x) \in Nat /\ Day(MaxClock) \in Nat /\ Day(x) <= Day(MaxClock)
  BY <1>1, DaysPass
<1> QED BY <1>2 DEF Days

\* What runs is a table of processes.
LEMMA TableIs ==
  ASSUME NEW x
  PROVE  x \in ProcTables <=> /\ DOMAIN x \in SUBSET Pids /\ x = [p \in DOMAIN x |-> x[p]]
                              /\ \A p \in DOMAIN x : x[p] \in Proc
<1>1. ASSUME x \in ProcTables
      PROVE  /\ DOMAIN x \in SUBSET Pids /\ x = [p \in DOMAIN x |-> x[p]]
             /\ \A p \in DOMAIN x : x[p] \in Proc
  <2>1. PICK D \in SUBSET Pids : x \in [D -> Proc]
    BY <1>1 DEF ProcTables
  <2> QED BY <2>1
<1>2. ASSUME DOMAIN x \in SUBSET Pids, x = [p \in DOMAIN x |-> x[p]],
             \A p \in DOMAIN x : x[p] \in Proc
      PROVE  x \in ProcTables
  <2>1. x \in [DOMAIN x -> Proc]
    BY <1>2
  <2> QED BY <1>2, <2>1 DEF ProcTables
<1> QED BY <1>1, <1>2

LEMMA NowTyped ==
  ASSUME TypeInv
  PROVE  Now \in Sample
<1>1. clock \in Nat
  BY ReportAssumption DEF TypeInv
<1> QED BY <1>1 DEF TypeInv, Now, Sample

LEMMA NowTypedNext ==
  ASSUME TypeInv'
  PROVE  Now' \in Sample
<1>1. clock' \in Nat
  BY ReportAssumption DEF TypeInv
<1> QED BY <1>1 DEF TypeInv, Now, Sample

LEMMA InitInv == Init => Inv
<1> SUFFICES ASSUME Init PROVE Inv
  OBVIOUS
<1>1. clock = 0 /\ procs = <<>> /\ starts = 0
      /\ log = [d \in Days |-> <<>>] /\ spent = [p \in Pids |-> 0]
  BY DEF Init
<1>2. DOMAIN procs = {}
  BY <1>1
<1>3. procs \in ProcTables
  <2>1. procs = [p \in DOMAIN procs |-> procs[p]]
    BY <1>1
  <2> QED BY <1>2, <2>1, TableIs
<1>4. TypeInv
  BY <1>1, <1>3, MachineAssumption, ReportAssumption DEF TypeInv
<1>5. \A d \in Days : DOMAIN log[d] = {}
  BY <1>1
<1> QED BY <1>2, <1>4, <1>5 DEF Inv, ProcsInv, IdsInv, LeadInv

\* The samples of a log.
LEMMA LogIs ==
  ASSUME TypeInv, NEW d \in Days
  PROVE  log[d] \in Seq(Sample) /\ \A i \in DOMAIN log[d] : log[d][i] \in Sample
BY DEF TypeInv

\* Processes that come, go or change their name leave the logs in order.
LEMMA StillInv ==
  ASSUME Inv, TypeInv', ProcsInv', log' = log, clock' = clock, spent' = spent,
         starts \in Nat, starts' \in Nat, starts <= starts',
         \A p \in DOMAIN procs' :
           \/ p \in DOMAIN procs /\ procs'[p].id = procs[p].id /\ procs'[p].ticks = procs[p].ticks
           \/ procs'[p].ticks = 0 /\ procs'[p].id > starts
  PROVE  Inv'
<1> DEFINE t == Now
           u == Now'
<1>1. t \in Sample /\ u \in Sample
  BY NowTyped, NowTypedNext DEF Inv
<1>2. /\ u.epoch = t.epoch /\ u.spent = t.spent /\ u.procs = procs' /\ t.procs = procs
  BY DEF Now
<1>3. TypeInv /\ IdsInv /\ LeadInv
  BY DEF Inv
<1>4. \A d \in Days : \A i \in DOMAIN log[d] : log[d][i] \in Sample
  BY <1>3, LogIs
<1>5. \A d \in Days : \A i \in DOMAIN log[d] : \A p \in DOMAIN log[d][i].procs :
        log[d][i].procs[p].id \in Nat
  <2> SUFFICES ASSUME NEW d \in Days, NEW i \in DOMAIN log[d], NEW p \in DOMAIN log[d][i].procs
               PROVE  log[d][i].procs[p].id \in Nat
    OBVIOUS
  <2>1. log[d][i].procs[p] \in Proc
    BY <1>4, SampleIs
  <2> QED BY <2>1 DEF Proc
<1>6. IdsInv'
  <2> SUFFICES ASSUME NEW d \in Days, NEW i \in DOMAIN log[d], NEW p \in DOMAIN log[d][i].procs
               PROVE  log[d][i].procs[p].id <= starts'
    BY DEF IdsInv
  <2>1. log[d][i].procs[p].id <= starts /\ log[d][i].procs[p].id \in Nat
    BY <1>3, <1>5 DEF IdsInv
  <2> QED BY <2>1
<1>7. ASSUME NEW d \in Days, NEW i \in DOMAIN log[d] PROVE Leads(log[d][i], u)
  <2> DEFINE s == log[d][i]
  <2>1. s \in Sample /\ Leads(s, t)
    BY <1>3, <1>4 DEF LeadInv
  <2>2. \A p \in DOMAIN s.procs : s.procs[p].id <= starts /\ s.procs[p].id \in Nat
    BY <1>3, <1>5 DEF IdsInv
  <2> HIDE DEF s
  <2>3. ASSUME NEW p \in DOMAIN u.procs
        PROVE  \/ /\ p \in DOMAIN t.procs /\ u.procs[p].id = t.procs[p].id
                  /\ u.procs[p].ticks = t.procs[p].ticks
               \/ /\ u.procs[p].ticks = 0
                  /\ p \in DOMAIN s.procs => s.procs[p].id # u.procs[p].id
    <3>1. p \in DOMAIN procs'
      BY <1>2
    <3>2. CASE p \in DOMAIN procs /\ procs'[p].id = procs[p].id /\ procs'[p].ticks = procs[p].ticks
      BY <1>2, <3>2
    <3>3. CASE procs'[p].ticks = 0 /\ procs'[p].id > starts
      <4>1. procs'[p].id \in Nat
        <5>1. procs'[p] \in Proc
          BY <1>1, <1>2, <3>1, SampleIs
        <5> QED BY <5>1 DEF Proc
      <4>2. p \in DOMAIN s.procs => s.procs[p].id # procs'[p].id
        BY <2>2, <3>3, <4>1
      <4> QED BY <1>2, <3>3, <4>2
    <3> QED BY <3>1, <3>2, <3>3
  <2> HIDE DEF t, u
  <2>4. Leads(s, u)
    BY <1>1, <1>2, <2>1, <2>3, LeadsOn
  <2> QED BY <2>4 DEF s
<1>8. LeadInv'
  <2>1. \A d \in Days :
          /\ \A i \in DOMAIN log[d] : DOMAIN log[d][i].procs # {}
          /\ \A i, j \in DOMAIN log[d] : i <= j => Leads(log[d][i], log[d][j])
    BY <1>3 DEF LeadInv
  <2> QED BY <1>7, <2>1 DEF LeadInv
<1> QED BY <1>6, <1>8 DEF Inv

LEMMA StartInv ==
  ASSUME Inv, NEW pid \in Pids, NEW program \in Programs, Start(pid, program)
  PROVE  Inv'
<1>1. /\ starts < MaxStarts /\ starts' = starts + 1
      /\ procs' = [q \in DOMAIN procs \union {pid} |->
           IF q = pid THEN [program |-> program, id |-> starts', ticks |-> 0] ELSE procs[q]]
      /\ clock' = clock /\ log' = log /\ spent' = spent
  BY DEF Start
<1>2. starts \in Nat /\ starts' \in 0..MaxStarts
  BY <1>1, MachineAssumption DEF Inv, TypeInv
<1>3. DOMAIN procs \in SUBSET Pids /\ \A p \in DOMAIN procs : procs[p] \in Proc
  BY TableIs DEF Inv, TypeInv
<1>4. DOMAIN procs' = DOMAIN procs \union {pid}
  BY <1>1
<1>5. ASSUME NEW p \in DOMAIN procs'
      PROVE  \/ p \in DOMAIN procs /\ p # pid /\ procs'[p] = procs[p]
             \/ /\ p = pid /\ procs'[p].program \in Programs
                /\ procs'[p].id = starts + 1 /\ procs'[p].ticks = 0
                /\ procs'[p] = [program |-> program, id |-> starts', ticks |-> 0]
  BY <1>1, <1>4
<1>6. HZ * MaxClock \in Nat /\ HZ * clock \in Nat
  <2>1. HZ \in Nat /\ MaxClock \in Nat /\ clock \in Nat
    BY MachineAssumption, ReportAssumption DEF Inv, TypeInv
  <2> QED BY <2>1
<1>7. TypeInv'
  <2>1. \A p \in DOMAIN procs' : procs'[p] \in Proc
    <3> SUFFICES ASSUME NEW p \in DOMAIN procs' PROVE procs'[p] \in Proc
      OBVIOUS
    <3>1. [program |-> program, id |-> starts', ticks |-> 0] \in Proc
      BY <1>1, <1>2, <1>6 DEF Proc
    <3> QED BY <1>3, <1>5, <3>1
  <2>2. procs' = [p \in DOMAIN procs' |-> procs'[p]] /\ DOMAIN procs' \in SUBSET Pids
    BY <1>1, <1>3, <1>4
  <2>3. procs' \in ProcTables
    BY <2>1, <2>2, TableIs
  <2> QED BY <1>1, <1>2, <2>3 DEF Inv, TypeInv
<1>8. ProcsInv'
  <2> SUFFICES ASSUME NEW p \in DOMAIN procs'
               PROVE  procs'[p].ticks <= HZ * clock /\ procs'[p].id <= starts + 1
    BY <1>1 DEF ProcsInv
  <2>1. CASE p \in DOMAIN procs /\ procs'[p] = procs[p]
    <3>1. procs[p].ticks <= HZ * clock /\ procs[p].id <= starts /\ procs[p].id \in Nat
      BY <1>3, <2>1 DEF Inv, ProcsInv, Proc
    <3> QED BY <1>2, <2>1, <3>1
  <2>2. CASE procs'[p].id = starts + 1 /\ procs'[p].ticks = 0
    BY <1>2, <1>6, <2>2
  <2> QED BY <1>5, <2>1, <2>2
<1>9. \A p \in DOMAIN procs' :
        \/ p \in DOMAIN procs /\ procs'[p].id = procs[p].id /\ procs'[p].ticks = procs[p].ticks
        \/ procs'[p].ticks = 0 /\ procs'[p].id > starts
  BY <1>2, <1>5
<1>10. starts' \in Nat /\ starts <= starts'
  BY <1>1, <1>2
<1> QED BY <1>1, <1>2, <1>7, <1>8, <1>9, <1>10, StillInv

LEMMA ExecInv ==
  ASSUME Inv, NEW pid \in Pids, NEW program \in Programs, Exec(pid, program)
  PROVE  Inv'
<1>1. /\ pid \in DOMAIN procs /\ starts < MaxStarts /\ starts' = starts + 1
      /\ procs' = [procs EXCEPT ![pid].program = program]
      /\ clock' = clock /\ log' = log /\ spent' = spent
  BY DEF Exec
<1>2. starts \in Nat /\ starts' \in 0..MaxStarts
  BY <1>1, MachineAssumption DEF Inv, TypeInv
<1>3. DOMAIN procs \in SUBSET Pids /\ \A p \in DOMAIN procs : procs[p] \in Proc
  BY TableIs DEF Inv, TypeInv
<1>4. DOMAIN procs' = DOMAIN procs /\ procs' = [p \in DOMAIN procs' |-> procs'[p]]
  BY <1>1
<1>5. ASSUME NEW p \in DOMAIN procs'
      PROVE  /\ procs'[p] \in Proc /\ p \in DOMAIN procs
             /\ procs'[p].id = procs[p].id /\ procs'[p].ticks = procs[p].ticks
  <2>1. procs[p] \in Proc /\ p \in DOMAIN procs
    BY <1>3, <1>4
  <2>2. procs'[p] = IF p = pid THEN [procs[p] EXCEPT !.program = program] ELSE procs[p]
    BY <1>1, <2>1
  <2> QED BY <2>1, <2>2 DEF Proc
<1>6. TypeInv'
  <2>1. procs' \in ProcTables
    BY <1>3, <1>4, <1>5, TableIs
  <2> QED BY <1>1, <1>2, <2>1 DEF Inv, TypeInv
<1>7. ProcsInv'
  <2> SUFFICES ASSUME NEW p \in DOMAIN procs'
               PROVE  procs'[p].ticks <= HZ * clock /\ procs'[p].id <= starts + 1
    BY <1>1 DEF ProcsInv
  <2>1. procs[p].ticks <= HZ * clock /\ procs[p].id <= starts /\ procs[p].id \in Nat
    BY <1>3, <1>5 DEF Inv, ProcsInv, Proc
  <2> QED BY <1>2, <1>5, <2>1
<1>8. starts' \in Nat /\ starts <= starts'
  BY <1>1, <1>2
<1> QED BY <1>1, <1>2, <1>5, <1>6, <1>7, <1>8, StillInv

LEMMA EndInv ==
  ASSUME Inv, NEW pid \in Pids, End(pid)
  PROVE  Inv'
<1>1. /\ procs' = [p \in DOMAIN procs \ {pid} |-> procs[p]]
      /\ starts' = starts /\ clock' = clock /\ log' = log /\ spent' = spent
  BY DEF End, Restrict
<1>2. starts \in Nat /\ starts \in 0..MaxStarts
  BY MachineAssumption DEF Inv, TypeInv
<1>3. DOMAIN procs \in SUBSET Pids /\ \A p \in DOMAIN procs : procs[p] \in Proc
  BY TableIs DEF Inv, TypeInv
<1>4. /\ DOMAIN procs' \in SUBSET DOMAIN procs /\ procs' = [p \in DOMAIN procs' |-> procs'[p]]
      /\ \A p \in DOMAIN procs' : procs'[p] = procs[p] /\ p \in DOMAIN procs
  BY <1>1
<1>5. TypeInv'
  <2>1. procs' \in ProcTables
    BY <1>3, <1>4, TableIs
  <2> QED BY <1>1, <1>2, <2>1 DEF Inv, TypeInv
<1>6. ProcsInv'
  BY <1>1, <1>4 DEF Inv, ProcsInv
<1> QED BY <1>1, <1>2, <1>4, <1>5, <1>6, StillInv

\* A second of work, and the sample that may come with it.
LEMMA RunTyped ==
  ASSUME Inv, NEW pids \in SUBSET DOMAIN procs, NEW sampled, Run(pids, sampled)
  PROVE  /\ clock' \in 0 .. MaxClock /\ clock \in Nat /\ clock' = clock + 1
         /\ starts' = starts /\ starts \in 0 .. MaxStarts
         /\ procs' \in ProcTables /\ spent' \in [Pids -> Nat]
         /\ Now' \in Sample /\ ProcsInv'
         /\ DOMAIN procs' = DOMAIN procs
         /\ \A p \in DOMAIN procs :
              /\ procs'[p].id = procs[p].id
              /\ procs'[p].ticks = procs[p].ticks + (IF p \in pids THEN HZ ELSE 0)
         /\ \A p \in Pids : spent'[p] = spent[p] + (IF p \in pids THEN HZ ELSE 0)
<1>1. /\ clock < MaxClock /\ clock' = clock + 1 /\ starts' = starts
      /\ procs' = [p \in DOMAIN procs |->
           [procs[p] EXCEPT !.ticks = IF p \in pids THEN @ + HZ ELSE @]]
      /\ spent' = [p \in Pids |-> IF p \in pids THEN spent[p] + HZ ELSE spent[p]]
  BY DEF Run
<1>2. /\ MaxClock \in Nat /\ HZ \in Nat /\ MaxStarts \in Nat
  BY MachineAssumption, ReportAssumption
<1>3. /\ clock \in Nat /\ clock' \in 0..MaxClock /\ starts \in 0..MaxStarts
      /\ spent \in [Pids -> Nat]
  BY <1>1, <1>2 DEF Inv, TypeInv
<1>4. DOMAIN procs \in SUBSET Pids /\ \A p \in DOMAIN procs : procs[p] \in Proc
  BY TableIs DEF Inv, TypeInv
<1>5. /\ DOMAIN procs' = DOMAIN procs /\ procs' = [p \in DOMAIN procs' |-> procs'[p]]
  BY <1>1
<1>6. HZ * clock \in Nat /\ HZ * clock' = HZ * clock + HZ /\ HZ * clock' <= HZ * MaxClock
      /\ HZ * MaxClock \in Nat
  <2>1. clock' \in Nat /\ clock' <= MaxClock
    BY <1>2, <1>3
  <2>2. HZ * clock' <= HZ * MaxClock
    BY <1>2, <2>1, Monotone
  <2>3. HZ * (clock + 1) = HZ * clock + HZ * 1 /\ HZ * clock \in Nat
    BY <1>2, <1>3, Monotone
  <2>4. HZ * 1 = HZ /\ HZ * MaxClock \in Nat
    BY <1>2
  <2> QED BY <1>1, <2>2, <2>3, <2>4
<1>7. ASSUME NEW p \in DOMAIN procs
      PROVE  /\ procs'[p].id = procs[p].id /\ procs'[p].program = procs[p].program
             /\ procs'[p].ticks = procs[p].ticks + (IF p \in pids THEN HZ ELSE 0)
             /\ procs'[p].ticks <= HZ * clock' /\ procs'[p] \in Proc
             /\ procs[p].id <= starts
  <2> DEFINE g == IF p \in pids THEN HZ ELSE 0
             n == procs[p].ticks + g
  <2>1. procs[p] \in Proc /\ procs[p].ticks \in Nat /\ procs[p].ticks <= HZ * clock
        /\ procs[p].id <= starts /\ g \in Nat /\ g <= HZ
    BY <1>2, <1>4, ProcIs DEF Inv, ProcsInv
  <2>2. procs'[p] = [procs[p] EXCEPT !.ticks = n]
    BY <1>1, <2>1
  <2> HIDE DEF g
  <2>3. n \in Nat /\ n <= HZ * clock' /\ n \in 0..(HZ * MaxClock)
    <3>1. n \in Nat
      BY <2>1
    <3>2. n <= HZ * clock + HZ
      BY <1>2, <1>6, <2>1
    <3> HIDE DEF n
    <3> DEFINE now == HZ * clock'
               last == HZ * MaxClock
    <3>3. now \in Nat /\ last \in Nat /\ now <= last /\ n <= now
      BY <1>2, <1>6, <3>2
    <3> HIDE DEF now, last
    <3>4. n \in 0..last /\ n <= now
      BY <3>1, <3>3
    <3> QED BY <3>1, <3>4 DEF now, last
  <2> HIDE DEF n
  <2>4. procs'[p] \in Proc /\ procs'[p].ticks = n /\ procs'[p].id = procs[p].id
        /\ procs'[p].program = procs[p].program
    BY <2>1, <2>2, <2>3 DEF Proc
  <2> QED BY <2>1, <2>3, <2>4 DEF n, g
<1>8. procs' \in ProcTables
  BY <1>4, <1>5, <1>7, TableIs
<1>9. spent' \in [Pids -> Nat]
  BY <1>1, <1>2, <1>3
<1>10. \A p \in Pids : spent'[p] = spent[p] + (IF p \in pids THEN HZ ELSE 0)
  BY <1>1, <1>2, <1>3
<1>11. ProcsInv'
  BY <1>1, <1>5, <1>7 DEF ProcsInv
<1>12. Now' \in Sample
  BY <1>3, <1>8, <1>9 DEF Now, Sample
<1> QED BY <1>1, <1>3, <1>5, <1>7, <1>8, <1>9, <1>10, <1>11, <1>12

LEMMA RunInv ==
  ASSUME Inv, NEW pids \in SUBSET DOMAIN procs, Cardinality(pids) <= NCPU,
         NEW sampled \in BOOLEAN, Run(pids, sampled)
  PROVE  Inv'
<1> DEFINE t == Now
           u == Now'
           d0 == Day(clock')
<1>1. /\ clock' \in 0 .. MaxClock /\ clock \in Nat /\ clock' = clock + 1
      /\ starts' = starts /\ starts \in 0 .. MaxStarts
      /\ procs' \in ProcTables /\ spent' \in [Pids -> Nat]
      /\ u \in Sample /\ ProcsInv'
      /\ DOMAIN procs' = DOMAIN procs
      /\ \A p \in DOMAIN procs :
           /\ procs'[p].id = procs[p].id
           /\ procs'[p].ticks = procs[p].ticks + (IF p \in pids THEN HZ ELSE 0)
      /\ \A p \in Pids : spent'[p] = spent[p] + (IF p \in pids THEN HZ ELSE 0)
  BY RunTyped, Zenon
<1>2. /\ TypeInv /\ ProcsInv /\ IdsInv /\ LeadInv /\ t \in Sample
  BY NowTyped DEF Inv
<1>3. /\ t.epoch = clock /\ t.procs = procs /\ t.spent = spent
      /\ u.epoch = clock' /\ u.procs = procs' /\ u.spent = spent'
      /\ u = [epoch |-> clock', procs |-> procs', spent |-> spent']
  BY DEF Now
<1> HIDE DEF t, u
<1>4. ASSUME NEW s \in Sample, Leads(s, t) PROVE Leads(s, u)
  <2>1. /\ u.epoch = t.epoch + 1 /\ DOMAIN u.procs = DOMAIN t.procs /\ pids \in SUBSET DOMAIN t.procs
        /\ \A p \in DOMAIN t.procs :
             /\ u.procs[p].id = t.procs[p].id
             /\ u.procs[p].ticks = t.procs[p].ticks + (IF p \in pids THEN HZ ELSE 0)
        /\ \A p \in Pids : u.spent[p] = t.spent[p] + (IF p \in pids THEN HZ ELSE 0)
    BY <1>1, <1>3
  <2> QED BY <1>1, <1>2, <1>4, <2>1, LeadsRun
<1>5. Leads(u, u)
  BY <1>1, LeadsSelf
<1>6. d0 \in Days
  BY <1>1, DayIs
<1>7. \A d \in Days : /\ log[d] \in Seq(Sample) /\ Len(log[d]) \in Nat
                      /\ DOMAIN log[d] = 1..Len(log[d])
                      /\ \A i \in DOMAIN log[d] : log[d][i] \in Sample
  BY <1>2 DEF TypeInv
<1>8. ASSUME NEW d \in Days
      PROVE  \/ log'[d] = log[d]
             \/ /\ log'[d] = Append(log[d], u) /\ DOMAIN procs' # {}
  <2>1. CASE sampled /\ procs # <<>>
    <3>1. log' = [log EXCEPT ![d0] = Append(@, u)]
      BY <2>1, <1>3 DEF Run
    <3>2. DOMAIN procs # {}
      <4>1. procs = [p \in DOMAIN procs |-> procs[p]]
        BY <1>2, TableIs DEF TypeInv
      <4>2. ASSUME DOMAIN procs = {} PROVE procs = <<>>
        <5>1. procs = [p \in {} |-> procs[p]]
          BY <4>1, <4>2
        <5>2. <<>> = [p \in {} |-> procs[p]]
          OBVIOUS
        <5> QED BY <5>1, <5>2
      <4> QED BY <2>1, <4>2
    <3>3. log \in [Days -> Seq(Sample)]
      BY <1>2 DEF TypeInv
    <3>4. log'[d] = IF d = d0 THEN Append(log[d], u) ELSE log[d]
      <4> HIDE DEF d0
      <4> QED BY <3>1, <3>3, <1>6
    <3> QED BY <1>1, <3>2, <3>4
  <2>2. CASE ~ (sampled /\ procs # <<>>)
    BY <2>2 DEF Run
  <2> QED BY <2>1, <2>2
<1>9. ASSUME NEW d \in Days
      PROVE  /\ log'[d] \in Seq(Sample)
             /\ \A i \in DOMAIN log'[d] :
                  \/ i \in DOMAIN log[d] /\ log'[d][i] = log[d][i]
                  \/ i = Len(log[d]) + 1 /\ log'[d][i] = u /\ DOMAIN procs' # {}
                     /\ \A j \in DOMAIN log'[d] : j <= i
  <2>1. CASE log'[d] = log[d]
    BY <1>7, <2>1
  <2>2. CASE log'[d] = Append(log[d], u) /\ DOMAIN procs' # {}
    <3> DEFINE L == log[d]
    <3>1. L \in Seq(Sample) /\ u \in Sample
      BY <1>1, <1>7
    <3> HIDE DEF L
    <3>2. /\ Append(L, u) \in Seq(Sample) /\ DOMAIN L = 1..Len(L) /\ Len(L) \in Nat
          /\ DOMAIN Append(L, u) = 1..(Len(L) + 1)
          /\ \A i \in 1..Len(L) : Append(L, u)[i] = L[i]
          /\ Append(L, u)[Len(L) + 1] = u
      BY <3>1
    <3> DEFINE M == Append(L, u)
    <3> HIDE DEF M
    <3>3. \A i \in DOMAIN M :
            \/ i \in DOMAIN L /\ M[i] = L[i]
            \/ i = Len(L) + 1 /\ M[i] = u /\ \A j \in DOMAIN M : j <= i
      BY <3>2 DEF M
    <3> QED BY <2>2, <3>2, <3>3 DEF M, L
  <2> QED BY <1>8, <2>1, <2>2
<1>10. TypeInv'
  <2>1. log' \in [Days -> Seq(Sample)]
    <3>1. log' = [d \in Days |-> log'[d]]
      <4>1. log = [d \in Days |-> log[d]]
        BY <1>2 DEF TypeInv
      <4> QED BY <4>1 DEF Run
    <3> QED BY <1>9, <3>1
  <2> QED BY <1>1, <2>1 DEF TypeInv
<1>11. ASSUME NEW d \in Days, NEW i \in DOMAIN log'[d], NEW p \in DOMAIN log'[d][i].procs
       PROVE  log'[d][i].procs[p].id <= starts'
  <2>1. CASE i \in DOMAIN log[d] /\ log'[d][i] = log[d][i]
    BY <1>1, <1>2, <2>1 DEF IdsInv
  <2>2. CASE log'[d][i] = u
    <3>1. p \in DOMAIN procs'
      BY <1>3, <2>2
    <3>2. procs'[p].id <= starts'
      BY <1>1, <3>1 DEF ProcsInv
    <3> QED BY <1>3, <2>2, <3>2
  <2> QED BY <1>9, <2>1, <2>2
<1>12. ASSUME NEW d \in Days, NEW i \in DOMAIN log'[d]
       PROVE  DOMAIN log'[d][i].procs # {} /\ Leads(log'[d][i], u)
  <2>1. CASE i \in DOMAIN log[d] /\ log'[d][i] = log[d][i]
    <3>1. log[d][i] \in Sample /\ Leads(log[d][i], t) /\ DOMAIN log[d][i].procs # {}
      BY <1>2, <1>7, <2>1 DEF LeadInv, t
    <3> QED BY <1>4, <2>1, <3>1
  <2>2. CASE log'[d][i] = u /\ DOMAIN procs' # {}
    BY <1>3, <1>5, <2>2
  <2> QED BY <1>9, <2>1, <2>2
<1>13. ASSUME NEW d \in Days, NEW i \in DOMAIN log'[d], NEW j \in DOMAIN log'[d], i <= j
       PROVE  Leads(log'[d][i], log'[d][j])
  <2>1. CASE log'[d][j] = u
    BY <1>12, <2>1
  <2>2. CASE j \in DOMAIN log[d] /\ log'[d][j] = log[d][j]
    <3>1. CASE i \in DOMAIN log[d] /\ log'[d][i] = log[d][i]
      BY <1>2, <1>13, <2>2, <3>1 DEF LeadInv
    <3>2. CASE i = Len(log[d]) + 1
      <4>1. j \in 1..Len(log[d]) /\ Len(log[d]) \in Nat
        BY <1>7, <2>2
      <4> QED BY <1>13, <3>2, <4>1
    <3> QED BY <1>9, <3>1, <3>2
  <2> QED BY <1>9, <2>1, <2>2
<1> QED BY <1>1, <1>10, <1>11, <1>12, <1>13 DEF Inv, IdsInv, LeadInv, u

(***************************************************************************)
(* Sorting.                                                                *)
(***************************************************************************)
InOrder(s, S, key) ==
  /\ s \in Bijection(1 .. Cardinality(S), S)
  /\ \A i, j \in DOMAIN s : i < j => key[s[i]] <= key[s[j]]

OneToOne(f, S, T) == /\ f \in [S -> T]
                     /\ \A a, b \in S : f[a] = f[b] => a = b
                     /\ \A y \in T : \E a \in S : f[a] = y

LEMMA BijectionIs ==
  ASSUME NEW S, NEW T, NEW f
  PROVE  f \in Bijection(S, T) <=> OneToOne(f, S, T)
BY DEF Bijection, Injection, Surjection, IsInjective, OneToOne

LEMMA Sortable ==
  ASSUME NEW K, IsFiniteSet(K), NEW key, \A k \in K : key[k] \in Int
  PROVE  \E s : InOrder(s, K, key)
<1> DEFINE Good == {S \in SUBSET K : \E s : InOrder(s, S, key)}
<1>1. ASSUME NEW S \in SUBSET K, \A x \in S : S \ {x} \in Good
      PROVE  S \in Good
  <2>1. IsFiniteSet(S)
    BY FS_Subset
  <2>2. CASE S = {}
    <3> DEFINE s == [i \in 1..0 |-> i]
    <3>1. Cardinality(S) = 0
      BY <2>2, FS_EmptySet
    <3>2. s \in [1..0 -> {}] /\ 1..0 = {} /\ DOMAIN s = {}
      OBVIOUS
    <3> HIDE DEF s
    <3>n. s \in Bijection(1..0, {})
      BY <3>2, BijectionIs DEF OneToOne
    <3>3. InOrder(s, S, key)
      BY <2>2, <3>1, <3>2, <3>n DEF InOrder
    <3> QED BY <3>3
  <2>3. CASE S # {}
    <3> DEFINE keys == {key[k] : k \in S}
    <3>1. keys \in SUBSET Int /\ keys # {} /\ IsFiniteSet(keys)
      BY <2>1, <2>3, ImageFinite
    <3>2. Max(keys) \in keys /\ \A y \in keys : y <= Max(keys)
      <4> HIDE DEF keys
      <4> QED BY <3>1, Extremes
    <3>3. PICK x \in S : key[x] = Max(keys)
      BY <3>2
    <3>4. \A k \in S : key[k] <= key[x]
      BY <3>2, <3>3
    <3> HIDE DEF keys
    <3> DEFINE R == S \ {x}
               n == Cardinality(R)
    <3>5. R \in Good /\ R \in SUBSET K /\ x \in K /\ x \notin R /\ S = R \cup {x}
      BY <1>1
    <3>6. PICK s : InOrder(s, R, key)
      BY <3>5
    <3>7. n \in Nat /\ Cardinality(S) = n + 1
      <4>1. IsFiniteSet(R)
        BY <2>1, FS_Subset
      <4> HIDE DEF R
      <4> QED BY <3>5, <4>1, FS_CardinalityType, FS_AddElement
    <3> HIDE DEF R, n
    <3>8. /\ s \in [1..n -> R] /\ \A a, b \in 1..n : s[a] = s[b] => a = b
          /\ \A y \in R : \E a \in 1..n : s[a] = y
          /\ \A i, j \in 1..n : i < j => key[s[i]] <= key[s[j]]
      <4>1. s \in Bijection(1..n, R) /\ \A i, j \in DOMAIN s : i < j => key[s[i]] <= key[s[j]]
        BY <3>6 DEF InOrder, n
      <4>2. /\ s \in [1..n -> R] /\ \A a, b \in 1..n : s[a] = s[b] => a = b
            /\ \A y \in R : \E a \in 1..n : s[a] = y
        <5>1. OneToOne(s, 1..n, R)
          BY <4>1, BijectionIs
        <5> QED BY <5>1 DEF OneToOne
      <4> QED BY <4>1, <4>2
    <3> DEFINE t == [i \in 1..(n + 1) |-> IF i = n + 1 THEN x ELSE s[i]]
    <3>9. /\ \A i \in 1..n : t[i] = s[i] /\ t[i] \in R
          /\ t[n + 1] = x /\ DOMAIN t = 1..(n + 1) /\ t \in [1..(n + 1) -> S]
          /\ \A i \in 1..(n + 1) : i \in 1..n \/ i = n + 1
      BY <3>5, <3>7, <3>8
    <3> HIDE DEF t
    <3>10. \A a, b \in 1..(n + 1) : t[a] = t[b] => a = b
      BY <3>5, <3>8, <3>9
    <3>11. \A y \in S : \E a \in 1..(n + 1) : t[a] = y
      <4>1. 1..n \subseteq 1..(n + 1) /\ n + 1 \in 1..(n + 1)
        BY <3>7
      <4> QED BY <3>5, <3>8, <3>9, <4>1
    <3>12. \A i, j \in 1..(n + 1) : i < j => key[t[i]] <= key[t[j]]
      <4> SUFFICES ASSUME NEW i \in 1..(n + 1), NEW j \in 1..(n + 1), i < j
                   PROVE  key[t[i]] <= key[t[j]]
        OBVIOUS
      <4>1. i \in 1..n
        BY <3>7
      <4>2. CASE j = n + 1
        BY <3>4, <3>5, <3>9, <4>1, <4>2
      <4>3. CASE j \in 1..n
        BY <3>8, <3>9, <4>1, <4>3
      <4> QED BY <3>9, <4>2, <4>3
    <3>13. InOrder(t, S, key)
      <4>1. t \in Bijection(1..(n + 1), S)
        <5>1. OneToOne(t, 1..(n + 1), S)
          BY <3>9, <3>10, <3>11 DEF OneToOne
        <5> QED BY <5>1, BijectionIs
      <4> QED BY <3>7, <3>9, <3>12, <4>1 DEF InOrder
    <3> QED BY <3>13
  <2> QED BY <2>2, <2>3
<1> HIDE DEF Good
<1>2. Good \in SUBSET SUBSET K
  BY DEF Good
<1>3. K \in Good
  BY <1>1, <1>2, Shrinking
<1> QED BY <1>3 DEF Good

LEMMA SortedIs ==
  ASSUME NEW K, IsFiniteSet(K), NEW key, \A k \in K : key[k] \in Int
  PROVE  LET s == Sorted(K, key)  n == Cardinality(K) IN
         /\ n \in Nat /\ s \in [1..n -> K]
         /\ \A i, j \in 1..n : i # j => s[i] # s[j]
         /\ \A k \in K : \E i \in 1..n : s[i] = k
         /\ \A i, j \in 1..n : i < j => key[s[i]] <= key[s[j]]
<1> DEFINE s == Sorted(K, key)
           n == Cardinality(K)
<1>1. n \in Nat
  BY FS_CardinalityType
<1>2. \E t \in Bijection(1..n, K) : \A i, j \in DOMAIN t : i < j => key[t[i]] <= key[t[j]]
  BY Sortable DEF InOrder
<1>3. s \in Bijection(1..n, K) /\ \A i, j \in DOMAIN s : i < j => key[s[i]] <= key[s[j]]
  BY <1>2 DEF Sorted
<1> HIDE DEF s, n
<1>4. /\ s \in [1..n -> K] /\ \A i, j \in 1..n : s[i] = s[j] => i = j
      /\ \A k \in K : \E i \in 1..n : s[i] = k
  <2>1. OneToOne(s, 1..n, K)
    BY <1>3, BijectionIs
  <2> QED BY <2>1 DEF OneToOne
<1>5. DOMAIN s = 1..n
  BY <1>4
<1> QED BY <1>1, <1>3, <1>4, <1>5 DEF s, n

(***************************************************************************)
(* What a report is made from.                                             *)
(***************************************************************************)

\* The end of a log is in order as the log is.
LEMMA EndReadable ==
  ASSUME NEW L \in Seq(Sample), NEW c \in Nat,
         \A i \in DOMAIN L : DOMAIN L[i].procs # {},
         \A i, j \in DOMAIN L : i <= j => Leads(L[i], L[j]),
         SubSeq(L, c + 1, Len(L)) # <<>>
  PROVE  Readable(SubSeq(L, c + 1, Len(L)))
<1> DEFINE s == SubSeq(L, c + 1, Len(L))
           n == Len(L) - c
<1>1. Len(L) \in Nat /\ DOMAIN L = 1..Len(L)
  OBVIOUS
<1>2. c < Len(L)
  <2>1. ~ (c < Len(L)) => s = <<>>
    BY <1>1
  <2> QED BY <2>1
<1>3. s \in Seq(Sample) /\ DOMAIN s = 1..n /\ \A i \in 1..n : s[i] = L[c + i] /\ c + i \in DOMAIN L
  BY <1>1, <1>2
<1> HIDE DEF s, n
<1>4. \A i \in DOMAIN s : DOMAIN s[i].procs # {}
  BY <1>3
<1>5. \A i, j \in DOMAIN s : i <= j => Leads(s[i], s[j])
  <2> SUFFICES ASSUME NEW i \in DOMAIN s, NEW j \in DOMAIN s, i <= j PROVE Leads(s[i], s[j])
    OBVIOUS
  <2>1. s[i] = L[c + i] /\ s[j] = L[c + j] /\ c + i \in DOMAIN L /\ c + j \in DOMAIN L
    BY <1>3
  <2>2. c + i <= c + j
    BY <1>3
  <2> QED BY <2>1, <2>2
<1> QED BY <1>3, <1>4, <1>5 DEF Readable, s

LEMMA SegmentsAreLogs ==
  ASSUME Inv, NEW begin, Segments(begin) # <<>>
  PROVE  \E N \in Nat \ {0} : Logs(Segments(begin), N)
<1> DEFINE Early(d) == {i \in DOMAIN log[d] : log[d][i].epoch < begin}
           From(d) == SubSeq(log[d], Cardinality(Early(d)) + 1, Len(log[d]))
           days == {d \in Days : d >= Day(begin) /\ d <= Day(clock) /\ From(d) # <<>>}
           key == [d \in days |-> d]
           order == Sorted(days, key)
           N == Cardinality(days)
           S == Segments(begin)
<1>1. S = [i \in DOMAIN order |-> From(order[i])]
  BY DEF Segments
<1>2. ASSUME NEW d \in days PROVE Readable(From(d))
  <2>1. d \in Days /\ From(d) # <<>>
    OBVIOUS
  <2>2. /\ log[d] \in Seq(Sample) /\ \A i \in DOMAIN log[d] : DOMAIN log[d][i].procs # {}
        /\ \A i, j \in DOMAIN log[d] : i <= j => Leads(log[d][i], log[d][j])
    BY <2>1, LogIs DEF Inv, LeadInv
  <2>3. Cardinality(Early(d)) \in Nat
    <3>1. DOMAIN log[d] = 1..Len(log[d]) /\ Len(log[d]) \in Nat
      BY <2>2
    <3>2. IsFiniteSet(DOMAIN log[d])
      BY <3>1, FS_Interval
    <3>3. IsFiniteSet(Early(d))
      BY <3>2, FS_Subset
    <3> QED BY <3>3, FS_CardinalityType
  <2> HIDE DEF Early, days
  <2> QED BY <2>1, <2>2, <2>3, EndReadable
<1>3. IsFiniteSet(days) /\ \A d \in days : key[d] \in Int
  <2>1. Day(MaxClock) \in Nat
    <3>1. MaxClock \in Nat /\ MaxClock <= MaxClock
      BY ReportAssumption
    <3> QED BY <3>1, DaysPass
  <2>2. Days = 0..Day(MaxClock)
    BY DEF Days
  <2>3. IsFiniteSet(Days)
    BY <2>1, <2>2, FS_Interval
  <2>4. days \in SUBSET Days /\ Days \in SUBSET Int
    BY <2>1, <2>2
  <2>5. IsFiniteSet(days)
    BY <2>3, <2>4, FS_Subset
  <2>6. \A d \in days : key[d] = d /\ d \in Int
    BY <2>4
  <2> QED BY <2>5, <2>6
<1> HIDE DEF From, days, key, S
<1>4. N \in Nat /\ order \in [1..N -> days]
  BY <1>3, SortedIs
<1> HIDE DEF order
<1>5. DOMAIN S = 1..N /\ \A i \in 1..N : Readable(S[i])
  BY <1>1, <1>2, <1>4
<1>6. N # 0
  <2>1. N = 0 => S = <<>>
    <3>1. DOMAIN order = 1..N
      BY <1>4
    <3> HIDE DEF N
    <3> QED BY <1>1, <3>1
  <2>2. S # <<>>
    BY DEF S
  <2> QED BY <2>1, <2>2
<1>7. Logs(S, N)
  BY <1>5 DEF Logs
<1> QED BY <1>4, <1>6, <1>7 DEF S

LEMMA InvariantStep == Inv /\ [Next]_vars => Inv'
<1> SUFFICES ASSUME Inv, [Next]_vars PROVE Inv'
  OBVIOUS
<1>1. ASSUME NEW pid \in Pids, NEW n \in Programs, Start(pid, n) PROVE Inv'
  BY <1>1, StartInv
<1>2. ASSUME NEW pid \in Pids, NEW n \in Programs, Exec(pid, n) PROVE Inv'
  BY <1>2, ExecInv
<1>3. ASSUME NEW pid \in Pids, End(pid) PROVE Inv'
  BY <1>3, EndInv
<1>4. ASSUME NEW pids \in SUBSET DOMAIN procs, Cardinality(pids) <= NCPU,
             NEW sampled \in BOOLEAN, Run(pids, sampled)
      PROVE  Inv'
  BY <1>4, RunInv
<1>5. ASSUME clock' = clock, procs' = procs, starts' = starts, log' = log, spent' = spent
      PROVE  Inv'
  BY <1>5 DEF Inv, TypeInv, ProcsInv, IdsInv, LeadInv, Now
<1>6. ASSUME NEW begin \in Begins, MakeReport(begin) PROVE Inv'
  BY <1>5, <1>6 DEF MakeReport
<1>7. CASE UNCHANGED vars
  BY <1>5, <1>7 DEF vars
<1> QED BY <1>1, <1>2, <1>3, <1>4, <1>6, <1>7 DEF Next

\* Whatever is reported is one on logs in order.
ReportInv == Reported => FromLogs

LEMMA ReportStep == Inv /\ ReportInv /\ [Next]_vars => ReportInv'
<1> SUFFICES ASSUME Inv, ReportInv, [Next]_vars PROVE ReportInv'
  OBVIOUS
<1>1. ASSUME report' = None PROVE ReportInv'
  BY <1>1 DEF ReportInv, Reported
<1>2. ASSUME NEW begin \in Begins, MakeReport(begin) PROVE ReportInv'
  <2>1. Segments(begin) # <<>> /\ report' = ReportOf(Segments(begin))
    BY <1>2 DEF MakeReport
  <2>2. PICK N \in Nat \ {0} : Logs(Segments(begin), N)
    BY <2>1, SegmentsAreLogs
  <2> DEFINE S == Segments(begin)
  <2>3. Logs(S, N) /\ report' = ReportOf(S)
    BY <2>1, <2>2
  <2> HIDE DEF S
  <2>4. FromLogs'
    BY <2>3 DEF FromLogs
  <2> QED BY <2>4 DEF ReportInv
<1>3. CASE UNCHANGED vars
  BY <1>3 DEF vars, ReportInv, Reported, FromLogs
<1>4. CASE Next
  <2>1. ASSUME NEW pid \in Pids, NEW n \in Programs, Start(pid, n) \/ Exec(pid, n) PROVE ReportInv'
    BY <1>1, <2>1 DEF Start, Exec
  <2>2. ASSUME NEW pid \in Pids, End(pid) PROVE ReportInv'
    BY <1>1, <2>2 DEF End
  <2>3. ASSUME NEW pids, NEW sampled, Run(pids, sampled) PROVE ReportInv'
    BY <1>1, <2>3 DEF Run
  <2> QED BY <1>2, <1>4, <2>1, <2>2, <2>3 DEF Next
<1> QED BY <1>3, <1>4

LEMMA InvariantAlways == Spec => [](Inv /\ ReportInv)
<1>1. Init => Inv /\ ReportInv
  BY InitInv DEF Init, ReportInv, Reported
<1>2. Inv /\ ReportInv /\ [Next]_vars => Inv' /\ ReportInv'
  BY InvariantStep, ReportStep
<1> QED BY <1>1, <1>2, PTL DEF Spec

(***************************************************************************)
(* The RAM table.                                                          *)
(***************************************************************************)
LEMMA Division ==
  ASSUME NEW x \in Nat, NEW d \in Nat, d > 0
  PROVE  /\ x \div d \in Int /\ x % d \in Int /\ 0 <= x % d /\ x % d < d
         /\ x = d * (x \div d) + (x % d)
OBVIOUS

\* A larger number is not rounded to a smaller one.
LEMMA RoundGrows ==
  ASSUME NEW x \in Nat, NEW y \in Nat, x <= y, NEW d \in Nat, d > 0
  PROVE  Round(x, d) \in Int /\ Round(y, d) \in Int /\ Round(x, d) <= Round(y, d)
<1> DEFINE a == x \div d
           r == x % d
           b == y \div d
           q == y % d
           up == 2 * r > d \/ (2 * r = d /\ a % 2 = 1)
           uq == 2 * q > d \/ (2 * q = d /\ b % 2 = 1)
<1>1. /\ a \in Int /\ r \in Int /\ 0 <= r /\ r < d /\ x = d * a + r
      /\ b \in Int /\ q \in Int /\ 0 <= q /\ q < d /\ y = d * b + q
  BY Division
<1>2. /\ Round(x, d) = (IF up THEN a + 1 ELSE a)
      /\ Round(y, d) = (IF uq THEN b + 1 ELSE b)
  BY DEF Round
<1>3. a = b /\ r <= q /\ up => uq
  BY <1>1
<1> HIDE DEF a, b, r, q, up, uq
<1>4. a <= b
  <2>1. a > b => d * a >= d * b + d
    BY <1>1
  <2>2. d * a \in Int /\ d * b \in Int
    BY <1>1
  <2> QED BY <1>1, <2>1, <2>2
<1>5. a = b => r <= q
  BY <1>1
<1>6. CASE a < b
  BY <1>1, <1>2, <1>6
<1>7. CASE a = b
  BY <1>1, <1>2, <1>3, <1>5, <1>7
<1> QED BY <1>1, <1>2, <1>4, <1>6, <1>7

\* Programs by their use: none beats one before it.
LEMMA ByUseIs ==
  ASSUME NEW a, IsAggs(a), NEW B \in SUBSET DOMAIN a
  PROVE  LET s == ByUse(a, B)  n == Cardinality(B) IN
         /\ n \in Nat /\ s \in [1..n -> B]
         /\ \A i, j \in 1..n : i # j => s[i] # s[j]
         /\ \A k \in B : \E i \in 1..n : s[i] = k
         /\ \A i, j \in 1..n : i < j => Beats(a[s[i]], a[s[j]])
<1> DEFINE Ahead(n) == {m \in B : ~Beats(a[n], a[m])}
           key == [n \in B |-> Cardinality(Ahead(n))]
           s == ByUse(a, B)
           N == Cardinality(B)
<1>1. IsFiniteSet(B)
  BY FS_Subset DEF IsAggs
<1>2. \A n \in B : a[n].cpu_ticks \in Nat /\ a[n].pid_count \in Nat
  BY DEF IsAggs, AggRec
<1>3. \A n \in B : IsFiniteSet(Ahead(n)) /\ key[n] \in Nat
  <2> SUFFICES ASSUME NEW n \in B PROVE IsFiniteSet(Ahead(n)) /\ key[n] \in Nat
    OBVIOUS
  <2>1. Ahead(n) \in SUBSET B
    OBVIOUS
  <2> HIDE DEF Ahead
  <2>2. IsFiniteSet(Ahead(n))
    BY <1>1, <2>1, FS_Subset
  <2> QED BY <2>2, FS_CardinalityType
<1>4. ASSUME NEW n \in B, NEW m \in B, key[n] <= key[m]
      PROVE  Beats(a[n], a[m])
  <2> SUFFICES ASSUME ~Beats(a[n], a[m]) PROVE FALSE
    OBVIOUS
  <2>1. Ahead(m) \subseteq Ahead(n) /\ m \in Ahead(n) /\ m \notin Ahead(m)
    BY <1>2 DEF Beats
  <2> HIDE DEF Ahead
  <2>2. /\ Cardinality(Ahead(m)) <= Cardinality(Ahead(n))
        /\ Cardinality(Ahead(n)) # Cardinality(Ahead(m))
    BY <1>3, <2>1, FS_Subset
  <2> QED BY <1>3, <1>4, <2>2
<1>5. s = Sorted(B, key)
  BY DEF ByUse
<1>6. \A n \in B : key[n] \in Int
  <2> SUFFICES ASSUME NEW n \in B PROVE key[n] \in Int
    OBVIOUS
  <2>1. key[n] \in Nat
    BY <1>3
  <2> HIDE DEF key
  <2> QED BY <2>1
<1> HIDE DEF key, s
<1>7. /\ N \in Nat /\ s \in [1..N -> B]
      /\ \A i, j \in 1..N : i # j => s[i] # s[j]
      /\ \A k \in B : \E i \in 1..N : s[i] = k
      /\ \A i, j \in 1..N : i < j => key[s[i]] <= key[s[j]]
  BY <1>1, <1>5, <1>6, SortedIs
<1> HIDE DEF N
<1>8. \A i, j \in 1..N : i < j => Beats(a[s[i]], a[s[j]])
  BY <1>4, <1>7
<1> QED BY <1>7, <1>8 DEF s, N

\* The first of a sequence.
LEMMA CutIs ==
  ASSUME NEW V, NEW N \in Nat, NEW s \in [1..N -> V], NEW most \in Nat
  PROVE  LET t == Cut(s, most) IN
         /\ Len(t) \in Nat /\ Len(t) <= N /\ Len(t) <= most /\ DOMAIN t = 1..Len(t)
         /\ \A i \in 1..Len(t) : t[i] = s[i]
         /\ Len(t) < N => Len(t) = most
<1> DEFINE m == Min({most, Len(s)})
<1>1. s \in Seq(V) /\ Len(s) = N
  OBVIOUS
<1>2. m \in {most, N} /\ m <= most /\ m <= N
  <2>1. {most, N} \in SUBSET Int /\ {most, N} # {} /\ IsFiniteSet({most, N})
    <3>1. IsFiniteSet({N}) /\ {N} \cup {most} = {most, N}
      BY FS_Singleton
    <3>2. IsFiniteSet({most, N})
      BY <3>1, FS_AddElement
    <3> QED BY <3>2
  <2> QED BY <1>1, <2>1, Extremes
<1>3. m \in Nat
  BY <1>2
<1>4. Cut(s, most) = SubSeq(s, 1, m)
  BY DEF Cut
<1> HIDE DEF m
<1>5. /\ Len(Cut(s, most)) = m /\ DOMAIN Cut(s, most) = 1..m
      /\ \A i \in 1..m : Cut(s, most)[i] = s[i]
  BY <1>1, <1>2, <1>3, <1>4
<1> QED BY <1>2, <1>3, <1>5

RowOf(a, B) == [rep |-> Head(ByUse(a, B)), siblings |-> Tail(ByUse(a, B))]

\* The first member of a nonempty sequence, and the rest.
LEMMA HeadTail ==
  ASSUME NEW V, NEW N \in Nat, N > 0, NEW s \in [1..N -> V]
  PROVE  /\ Head(s) = s[1] /\ Len(Tail(s)) = N - 1 /\ Tail(s) \in [1..(N - 1) -> V]
         /\ \A i \in 1..(N - 1) : Tail(s)[i] = s[i + 1]
<1>1. s \in Seq(V) /\ Len(s) = N /\ s # <<>>
  OBVIOUS
<1>2. Head(s) = s[1] /\ Tail(s) \in Seq(V) /\ Len(Tail(s)) = N - 1
  BY <1>1
<1>3. \A i \in 1..(N - 1) : Tail(s)[i] = s[i + 1]
  BY <1>1
<1>4. Tail(s) \in [1..(N - 1) -> V]
  <2>1. PICK t \in Seq(V) : t = Tail(s)
    BY <1>2
  <2>2. t \in [1..Len(t) -> V]
    OBVIOUS
  <2> QED BY <1>2, <2>1, <2>2
<1> QED BY <1>2, <1>3, <1>4

\* A row accounts for its bucket: it names the first of it and counts the rest.
LEMMA RowIs ==
  ASSUME NEW a, IsAggs(a), NEW B \in SUBSET DOMAIN a, B # {}
  PROVE  LET row == RamRow(RowOf(a, B)) IN
         /\ RowOf(a, B).rep \in B /\ row.rep = RowOf(a, B).rep /\ NamesIn(row) \subseteq B
         /\ Cardinality(NamesIn(row)) + row.more = Cardinality(B)
         /\ \A n \in B \ NamesIn(row) : \A m \in NamesIn(row) : Beats(a[m], a[n])
<1> DEFINE s == ByUse(a, B)
           N == Cardinality(B)
           rest == Tail(s)
           named == Cut(rest, MaxSiblings)
           k == Len(named)
           row == RamRow(RowOf(a, B))
<1>1. /\ N \in Nat /\ s \in [1..N -> B]
      /\ \A i, j \in 1..N : i # j => s[i] # s[j]
      /\ \A x \in B : \E i \in 1..N : s[i] = x
      /\ \A i, j \in 1..N : i < j => Beats(a[s[i]], a[s[j]])
  BY ByUseIs
<1>2. RowOf(a, B).rep = Head(s) /\ RowOf(a, B).siblings = rest
  BY DEF RowOf
<1>3. /\ row.rep = Head(s) /\ row.named = named
      /\ row.more = Max({Len(rest) - MaxSiblings, 0})
  BY <1>2 DEF RamRow
<1> HIDE DEF s, N, row
<1>4. N > 0
  BY <1>1
<1>5. /\ Head(s) = s[1] /\ Len(rest) = N - 1 /\ rest \in [1..(N - 1) -> B]
      /\ \A i \in 1..(N - 1) : rest[i] = s[i + 1]
  <2>1. N \in Nat
    BY <1>1
  <2>2. s \in [1..N -> B]
    BY <1>1
  <2> QED BY <1>4, <2>1, <2>2, HeadTail, SMTT(60)
<1>6. MaxSiblings \in Nat /\ N - 1 \in Nat
  BY <1>1, <1>4, ReportAssumption
<1> HIDE DEF rest
<1>7. /\ k \in Nat /\ k <= N - 1 /\ k <= MaxSiblings /\ DOMAIN named = 1..k
      /\ \A i \in 1..k : named[i] = rest[i]
      /\ k < N - 1 => k = MaxSiblings
  BY <1>5, <1>6, CutIs
<1> HIDE DEF named
<1>8. row.more = (N - 1) - k
  <2> DEFINE two == {(N - 1) - MaxSiblings, 0}
  <2>1. two \in SUBSET Int /\ two # {} /\ IsFiniteSet(two)
    <3>1. /\ IsFiniteSet({(N - 1) - MaxSiblings})
          /\ {(N - 1) - MaxSiblings} \cup {0} = two
      BY FS_Singleton
    <3>2. IsFiniteSet(two)
      BY <3>1, FS_AddElement
    <3> QED BY <1>6, <3>2
  <2>2. Max(two) \in two /\ \A y \in two : y <= Max(two)
    <3> HIDE DEF two
    <3> QED BY <2>1, Extremes
  <2>3. row.more = Max(two)
    BY <1>3, <1>5
  <2> QED BY <1>6, <1>7, <2>2, <2>3
<1> DEFINE first == {s[i] : i \in 1..(k + 1)}
<1>9. NamesIn(row) = first
  <2>1. NamesIn(row) = {s[1]} \cup Range(named)
    BY <1>3, <1>5 DEF NamesIn
  <2>2. Range(named) = {s[i + 1] : i \in 1..k}
    <3>1. \A i \in 1..k : named[i] = s[i + 1]
      BY <1>5, <1>7
    <3>2. Range(named) = {named[i] : i \in 1..k}
      BY <1>7 DEF Range
    <3> QED BY <3>1, <3>2
  <2>3. \A i \in 1..(k + 1) : i = 1 \/ (i - 1 \in 1..k /\ i = (i - 1) + 1)
    BY <1>7
  <2>4. 1 \in 1..(k + 1) /\ \A i \in 1..k : i + 1 \in 1..(k + 1)
    BY <1>7
  <2>5. ASSUME NEW x \in first PROVE x \in {s[1]} \cup {s[i + 1] : i \in 1..k}
    <3>1. PICK i \in 1..(k + 1) : x = s[i]
      OBVIOUS
    <3>2. CASE i = 1
      BY <3>1, <3>2
    <3>3. CASE i - 1 \in 1..k /\ i = (i - 1) + 1
      BY <3>1, <3>3
    <3> QED BY <2>3, <3>2, <3>3
  <2>6. \A x \in {s[1]} \cup {s[i + 1] : i \in 1..k} : x \in first
    BY <2>4
  <2> HIDE DEF first
  <2> QED BY <2>1, <2>2, <2>5, <2>6
<1>10. 1..(k + 1) \subseteq 1..N /\ k + 1 \in Nat
  BY <1>1, <1>4, <1>7
<1>11. Cardinality(first) = k + 1
  <2> DEFINE f == [i \in 1..(k + 1) |-> s[i]]
  <2>1. f \in [1..(k + 1) -> first] /\ \A x \in first : \E i \in 1..(k + 1) : f[i] = x
    OBVIOUS
  <2>2. \A i, j \in 1..(k + 1) : f[i] = f[j] => i = j
    BY <1>1, <1>10
  <2> HIDE DEF f, first
  <2>3. f \in Surjection(1..(k + 1), first)
    BY <2>1 DEF Surjection
  <2>4. f \in Injection(1..(k + 1), first)
    BY <2>1, <2>2 DEF Injection, IsInjective
  <2>5. IsFiniteSet(1..(k + 1)) /\ Cardinality(1..(k + 1)) = k + 1
    <3>1. 1 \in Int /\ k + 1 \in Int /\ ~(1 > k + 1) /\ (k + 1) - 1 + 1 = k + 1
      BY <1>7
    <3> QED BY <3>1, FS_Interval
  <2> QED BY <2>3, <2>4, <2>5, FS_Surjection
<1>12. NamesIn(row) \subseteq B /\ Head(s) \in B
  BY <1>1, <1>4, <1>5, <1>9, <1>10
<1>13. ASSUME NEW n \in B \ NamesIn(row), NEW m \in NamesIn(row) PROVE Beats(a[m], a[n])
  <2>1. PICK i \in 1..(k + 1) : m = s[i]
    BY <1>9
  <2>2. PICK j \in 1..N : n = s[j]
    BY <1>1
  <2>3. j \notin 1..(k + 1)
    BY <1>9, <2>2
  <2>4. i \in 1..N /\ i < j
    BY <1>1, <1>7, <1>10, <2>3
  <2> QED BY <1>1, <2>1, <2>2, <2>4
<1>14. Cardinality(NamesIn(row)) + row.more = N
  BY <1>1, <1>7, <1>8, <1>9, <1>11
<1> QED BY <1>2, <1>3, <1>12, <1>13, <1>14 DEF row, N

FairTable(a, table) ==
  /\ \A i, j \in DOMAIN table : i # j => NamesIn(table[i]) \intersect NamesIn(table[j]) = {}
  /\ \A i \in DOMAIN table : LET all == Beside(a, table[i].rep) IN
       /\ NamesIn(table[i]) \subseteq all
       /\ Cardinality(NamesIn(table[i])) + table[i].more = Cardinality(all)
       /\ \A n \in all \ NamesIn(table[i]) : \A m \in NamesIn(table[i]) : Beats(a[m], a[n])
  /\ \A n \in WithMemory(a) :
       \/ \E i \in DOMAIN table : n \in Beside(a, table[i].rep)
       \/ /\ Len(table) = Top
          /\ \A m \in UNION {NamesIn(table[i]) : i \in DOMAIN table} :
               a[m].peak_rss_kb > a[n].peak_rss_kb

LEMMA FairTableIs == FairTable(report.aggs, RamTable(report.aggs)) => RamTableIsFair
BY Zenon DEF RamTableIsFair, FairTable

\* The rows before any is cut: one for each bucket, and their order.
LEMMA RowsAre ==
  ASSUME NEW a, IsAggs(a), NEW n \in WithMemory(a)
  PROVE  /\ Beside(a, n) \in SUBSET WithMemory(a) /\ Beside(a, n) \in SUBSET DOMAIN a
         /\ n \in Beside(a, n) /\ RowOf(a, Beside(a, n)).rep \in Beside(a, n)
         /\ Beside(a, RowOf(a, Beside(a, n)).rep) = Beside(a, n)
         /\ a[n].peak_rss_kb \in Nat
<1>1. /\ Beside(a, n) \in SUBSET WithMemory(a) /\ Beside(a, n) \in SUBSET DOMAIN a
      /\ n \in Beside(a, n)
  BY DEF Beside, WithMemory
<1>2. RowOf(a, Beside(a, n)).rep \in Beside(a, n)
  BY <1>1, RowIs
<1>3. \A m \in Beside(a, n) : Beside(a, m) = Beside(a, n)
  BY DEF Beside
<1>4. a[n].peak_rss_kb \in Nat
  BY DEF WithMemory, IsAggs, AggRec
<1> QED BY <1>1, <1>2, <1>3, <1>4

\* Of two rows the one whose first program has the higher peak has the larger programs.
LEMMA BucketsApart ==
  ASSUME NEW a, IsAggs(a), NEW x \in WithMemory(a), NEW y \in WithMemory(a),
         Beside(a, x) # Beside(a, y), a[y].peak_rss_kb <= a[x].peak_rss_kb,
         NEW m \in Beside(a, x), NEW n \in Beside(a, y)
  PROVE  a[m].peak_rss_kb > a[n].peak_rss_kb
<1>1. /\ Bucket(a[m]) = Bucket(a[x]) /\ Bucket(a[n]) = Bucket(a[y])
      /\ Bucket(a[x]) # Bucket(a[y])
  BY DEF Beside
<1>2. m \in WithMemory(a) /\ n \in WithMemory(a)
  BY DEF Beside
<1>3. /\ a[m].peak_rss_kb \in Nat /\ a[n].peak_rss_kb \in Nat
      /\ a[x].peak_rss_kb \in Nat /\ a[y].peak_rss_kb \in Nat
  BY <1>2, RowsAre
<1>4. MibKb \in Nat /\ MibKb > 0
  BY ReportAssumption
<1>5. /\ Bucket(a[y]) <= Bucket(a[x])
      /\ Bucket(a[y]) \in Int /\ Bucket(a[x]) \in Int
  BY <1>3, <1>4, RoundGrows DEF Bucket
<1>6. a[m].peak_rss_kb <= a[n].peak_rss_kb => Bucket(a[m]) <= Bucket(a[n])
  BY <1>3, <1>4, RoundGrows DEF Bucket
<1>7. ~(Bucket(a[m]) <= Bucket(a[n]))
  BY <1>1, <1>5
<1> QED BY <1>3, <1>6, <1>7

LEMMA AggsRamTableIsFair ==
  ASSUME IsAggs(report.aggs)
  PROVE  RamTableIsFair
<1>1. PICK a : a = report.aggs
  OBVIOUS
<1>2. IsAggs(a)
  BY <1>1
<1> DEFINE W == WithMemory(a)
           Of(n) == Beside(a, n)
           Row(n) == RowOf(a, Of(n))
           rows == {Row(n) : n \in W}
           key == [r \in rows |-> -a[r.rep].peak_rss_kb]
           N == Cardinality(rows)
           full == Sorted(rows, key)
           top == Cut(full, Top)
           table == RamTable(a)
<1>3. full = DedupeRam(a) /\ table = [i \in DOMAIN top |-> RamRow(top[i])]
  BY DEF RamTable, DedupeRam, RowOf
<1>4. ASSUME NEW r \in rows
      PROVE  /\ r.rep \in W /\ r = Row(r.rep) /\ key[r] = -a[r.rep].peak_rss_kb
             /\ a[r.rep].peak_rss_kb \in Nat /\ key[r] \in Int
             /\ RamRow(r).rep = r.rep /\ NamesIn(RamRow(r)) \subseteq Of(r.rep)
             /\ Cardinality(NamesIn(RamRow(r))) + RamRow(r).more = Cardinality(Of(r.rep))
             /\ \A n \in Of(r.rep) \ NamesIn(RamRow(r)) :
                  \A m \in NamesIn(RamRow(r)) : Beats(a[m], a[n])
  <2>1. PICK n \in W : r = Row(n)
    OBVIOUS
  <2>2. /\ Of(n) \in SUBSET W /\ Of(n) \in SUBSET DOMAIN a /\ Of(n) # {}
        /\ Row(n).rep \in Of(n) /\ Of(Row(n).rep) = Of(n)
    BY <1>2, RowsAre
  <2>3. r.rep \in W /\ r = Row(r.rep) /\ Of(r.rep) = Of(n)
    BY <2>1, <2>2
  <2>4. a[r.rep].peak_rss_kb \in Nat
    BY <1>2, <2>3, RowsAre
  <2>5. key[r] = -a[r.rep].peak_rss_kb /\ key[r] \in Int
    <3>1. key[r] = -a[r.rep].peak_rss_kb
      OBVIOUS
    <3> HIDE DEF key
    <3> QED BY <2>4, <3>1
  <2>6. /\ RamRow(r).rep = r.rep /\ NamesIn(RamRow(r)) \subseteq Of(n)
        /\ Cardinality(NamesIn(RamRow(r))) + RamRow(r).more = Cardinality(Of(n))
        /\ \A k \in Of(n) \ NamesIn(RamRow(r)) :
             \A m \in NamesIn(RamRow(r)) : Beats(a[m], a[k])
    <3> HIDE DEF W, Of
    <3> QED BY <1>2, <2>1, <2>2, RowIs
  <2> HIDE DEF key, rows, Row, Of, W
  <2> QED BY <2>3, <2>4, <2>5, <2>6
<1>5. IsFiniteSet(rows)
  <2> DEFINE f == [n \in W |-> Row(n)]
  <2>1. IsFiniteSet(W)
    <3>1. W \in SUBSET DOMAIN a
      BY DEF WithMemory
    <3> HIDE DEF W
    <3> QED BY <1>2, <3>1, FS_Subset DEF IsAggs
  <2>2. rows = {f[n] : n \in W}
    <3> HIDE DEF Row, W
    <3> QED OBVIOUS
  <2> HIDE DEF f, W, rows
  <2> QED BY <2>1, <2>2, ImageFinite
<1>6. \A n \in W : Row(n) \in rows
  OBVIOUS
<1> HIDE DEF rows, key, Row
<1>7. /\ N \in Nat /\ full \in [1..N -> rows]
      /\ \A i, j \in 1..N : i # j => full[i] # full[j]
      /\ \A r \in rows : \E i \in 1..N : full[i] = r
      /\ \A i, j \in 1..N : i < j => key[full[i]] <= key[full[j]]
  <2>1. \A r \in rows : key[r] \in Int
    BY <1>4
  <2> QED BY <1>5, <2>1, SortedIs
<1> HIDE DEF N, full
<1>t. top = Cut(full, Top)
  OBVIOUS
<1> HIDE DEF top, table
<1>8. /\ Len(top) \in Nat /\ Len(top) <= N /\ DOMAIN top = 1..Len(top)
      /\ \A i \in 1..Len(top) : top[i] = full[i]
      /\ Len(top) < N => Len(top) = Top
  <2>1. Top \in Nat
    BY ReportAssumption
  <2>2. N \in Nat
    BY <1>7
  <2>3. full \in [1..N -> rows]
    BY <1>7
  <2>4. LET t == Cut(full, Top) IN
         /\ Len(t) \in Nat /\ Len(t) <= N /\ Len(t) <= Top /\ DOMAIN t = 1..Len(t)
         /\ \A i \in 1..Len(t) : t[i] = full[i]
         /\ Len(t) < N => Len(t) = Top
    BY <2>1, <2>2, <2>3, CutIs, Zenon
  <2> QED BY <1>t, <2>4, Zenon
<1>9. /\ DOMAIN table = 1..Len(top) /\ Len(table) = Len(top)
      /\ \A i \in 1..Len(top) : table[i] = RamRow(full[i]) /\ i \in 1..N /\ full[i] \in rows
  <2>1. table = [i \in 1..Len(top) |-> RamRow(top[i])]
    BY <1>3, <1>8
  <2> QED BY <1>7, <1>8, <2>1
<1>10. ASSUME NEW i \in 1..N, NEW j \in 1..N, i # j
       PROVE  /\ full[i].rep \in W /\ full[j].rep \in W
              /\ Of(full[i].rep) # Of(full[j].rep) /\ Of(full[i].rep) \cap Of(full[j].rep) = {}
  <2>1. full[i] \in rows /\ full[j] \in rows /\ full[i] # full[j]
    BY <1>7, <1>10
  <2>2. /\ full[i].rep \in W /\ full[i] = Row(full[i].rep)
        /\ full[j].rep \in W /\ full[j] = Row(full[j].rep)
    BY <1>4, <2>1
  <2>3. Of(full[i].rep) # Of(full[j].rep)
    BY <2>1, <2>2 DEF Row
  <2>4. Of(full[i].rep) \cap Of(full[j].rep) # {} => Of(full[i].rep) = Of(full[j].rep)
    BY DEF Beside
  <2> QED BY <2>2, <2>3, <2>4
<1>11. ASSUME NEW i \in 1..N, NEW j \in 1..N, i < j,
              NEW m \in Of(full[i].rep), NEW n \in Of(full[j].rep)
       PROVE  a[m].peak_rss_kb > a[n].peak_rss_kb
  <2>1. full[i] \in rows /\ full[j] \in rows /\ key[full[i]] <= key[full[j]]
    BY <1>7, <1>11
  <2>2. /\ key[full[i]] = -a[full[i].rep].peak_rss_kb /\ a[full[i].rep].peak_rss_kb \in Nat
        /\ key[full[j]] = -a[full[j].rep].peak_rss_kb /\ a[full[j].rep].peak_rss_kb \in Nat
    BY <1>4, <2>1
  <2>3. a[full[j].rep].peak_rss_kb <= a[full[i].rep].peak_rss_kb
    BY <2>1, <2>2
  <2>4. /\ full[i].rep \in W /\ full[j].rep \in W /\ Of(full[i].rep) # Of(full[j].rep)
    BY <1>10, <1>11
  <2> QED BY <1>2, <2>3, <2>4, BucketsApart
<1>12. \A i, j \in DOMAIN table : i # j => NamesIn(table[i]) \intersect NamesIn(table[j]) = {}
  <2> SUFFICES ASSUME NEW i \in DOMAIN table, NEW j \in DOMAIN table, i # j
               PROVE  NamesIn(table[i]) \intersect NamesIn(table[j]) = {}
    OBVIOUS
  <2>1. /\ NamesIn(table[i]) \subseteq Of(full[i].rep)
        /\ NamesIn(table[j]) \subseteq Of(full[j].rep)
    BY <1>4, <1>9
  <2> QED BY <1>9, <1>10, <2>1
<1>13. ASSUME NEW i \in DOMAIN table
       PROVE  /\ NamesIn(table[i]) \subseteq Of(table[i].rep)
              /\ Cardinality(NamesIn(table[i])) + table[i].more = Cardinality(Of(table[i].rep))
              /\ \A n \in Of(table[i].rep) \ NamesIn(table[i]) :
                   \A m \in NamesIn(table[i]) : Beats(a[m], a[n])
  <2>1. table[i] = RamRow(full[i]) /\ full[i] \in rows
    BY <1>9
  <2>2. table[i].rep = full[i].rep
    BY <1>4, <2>1
  <2> HIDE DEF Of
  <2> QED BY <1>4, <2>1, <2>2
<1>14. ASSUME NEW n \in W, \A i \in DOMAIN table : n \notin Of(table[i].rep)
       PROVE  /\ Len(table) = Top
              /\ \A m \in UNION {NamesIn(table[i]) : i \in DOMAIN table} :
                   a[m].peak_rss_kb > a[n].peak_rss_kb
  <2>1. Row(n) \in rows
    BY <1>6
  <2>2. PICK k \in 1..N : full[k] = Row(n)
    BY <1>7, <2>1
  <2>3. n \in Of(full[k].rep)
    BY <1>2, <2>2, RowsAre DEF Row
  <2>4. k \notin 1..Len(top)
    <3> SUFFICES ASSUME k \in 1..Len(top) PROVE FALSE
      OBVIOUS
    <3>1. k \in DOMAIN table /\ table[k] = RamRow(full[k]) /\ full[k] \in rows
      BY <1>9
    <3>2. table[k].rep = full[k].rep
      BY <1>4, <3>1
    <3> QED BY <1>14, <2>3, <3>1, <3>2
  <2>5. k > Len(top) /\ Len(top) < N
    BY <1>7, <1>8, <2>4
  <2>6. Len(table) = Top
    BY <1>8, <1>9, <2>5
  <2>7. ASSUME NEW i \in DOMAIN table, NEW m \in NamesIn(table[i])
        PROVE  a[m].peak_rss_kb > a[n].peak_rss_kb
    <3>1. i \in 1..N /\ i < k /\ m \in Of(full[i].rep)
      BY <1>4, <1>8, <1>9, <2>5
    <3> QED BY <1>11, <2>3, <3>1
  <2> QED BY <2>6, <2>7
<1>15. FairTable(a, table)
  BY <1>12, <1>13, <1>14, Zenon DEF FairTable
<1> QED BY <1>1, <1>15, FairTableIs DEF table

LEMMA LogsRamTableIsFair == FromLogs => RamTableIsFair
<1> SUFFICES ASSUME FromLogs PROVE RamTableIsFair
  OBVIOUS
<1>1. PICK S : \E N \in Nat \ {0} : Logs(S, N) /\ report = ReportOf(S)
  BY DEF FromLogs
<1>2. PICK N \in Nat \ {0} : Logs(S, N) /\ report = ReportOf(S)
  BY <1>1
<1>3. IsAggs(report.aggs)
  BY <1>2, ReportIs DEF DaysMerged
<1> QED BY <1>3, AggsRamTableIsFair

(***************************************************************************)
(* The theorems.                                                           *)
(***************************************************************************)

\* What a report charges all programs together (usage_report.py,
\* _fold_pid_aggregates and merge_proc_aggs) is no more than what was had between
\* the first and the last sample of each log and what came along with processes of
\* the first alone: for any processes, names, process ids used again and logs.
THEOREM ChargesAreFounded == Spec => []NothingInvented
<1>1. Inv /\ ReportInv => NothingInvented
  BY LogsNothingInvented DEF ReportInv, NothingInvented
<1> QED BY <1>1, InvariantAlways, PTL

\* Where all processes last under one name, every program is charged exactly what
\* its processes had.
THEOREM ChargesAreExact == Spec => []SteadyIsExact
<1>1. Inv /\ ReportInv => SteadyIsExact
  BY LogsSteadyIsExact DEF ReportInv, SteadyIsExact
<1> QED BY <1>1, InvariantAlways, PTL

\* Where no process is in the first sample of a log alone, the shares of the box
\* add up to no more than a hundred per cent.
THEOREM SharesFitTheBox == Spec => []BoxIsNotOverbooked
<1>1. Inv /\ ReportInv => BoxIsNotOverbooked
  BY LogsBoxIsNotOverbooked DEF ReportInv, BoxIsNotOverbooked
<1> QED BY <1>1, InvariantAlways, PTL

\* No average of memory is above its peak, and the highest peak is the largest a
\* process was seen with.
THEOREM MemoryIsTrue == Spec => []MemoryAgrees
<1>1. Inv /\ ReportInv => MemoryAgrees
  BY LogsMemoryAgrees DEF ReportInv, MemoryAgrees
<1> QED BY <1>1, InvariantAlways, PTL

\* The RAM table (_usage_report_tables.py) leaves out no program but below a full
\* table of larger ones, and has none in two rows.
THEOREM TableIsFair == Spec => []RamTableIsFair
<1>1. Inv /\ ReportInv => RamTableIsFair
  BY LogsRamTableIsFair DEF ReportInv, RamTableIsFair
<1> QED BY <1>1, InvariantAlways, PTL
=============================================================================
