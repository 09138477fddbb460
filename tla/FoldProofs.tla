------------------------------ MODULE FoldProofs ------------------------------
(***************************************************************************)
(* The folds the models are written with, for proofs: MapThenSumSet (sums  *)
(* over the threads of a semaphore's units) and FoldLeft (the rounds of    *)
(* the deadlock detector, the loop over received frames) are recursive     *)
(* functions over the subsets of a finite set.  A set of naturals that is  *)
(* closed under successor replaces the induction rule, and the step of a   *)
(* fold is a function, so that every fact can be cited with sets and       *)
(* functions alone.  At the end, what appending to and removing from a     *)
(* sequence does to the set of its members.                                *)
(***************************************************************************)
EXTENDS Integers, FiniteSets, FiniteSetsExt, SequencesExt,
        FiniteSetTheorems, SequenceTheorems, WellFoundedInduction, TLAPS

\* Induction: D holds 0 and the successor of each of its members.
LEMMA NatSet ==
  ASSUME NEW D \in SUBSET Nat, 0 \in D, \A n \in D : n + 1 \in D
  PROVE  \A n \in Nat : n \in D
<1> SUFFICES ASSUME Nat \ D # {} PROVE FALSE
  OBVIOUS
<1> DEFINE R == OpToRel(<, Nat)
<1>1. IsWellFoundedOn(R, Nat)
  BY NatLessThanWellFounded
<1>2. \A x, y \in Nat : x < y => <<x, y>> \in R
  BY DEF OpToRel
<1> HIDE DEF R
<1>3. PICK x \in Nat \ D : \A y \in Nat \ D : ~(<<y, x>> \in R)
  BY <1>1, WFMin
<1>4. x # 0 /\ x - 1 \in Nat /\ x - 1 < x
  BY <1>3
<1>5. x - 1 \in D
  BY <1>2, <1>3, <1>4
<1>6. (x - 1) + 1 = x
  BY <1>3
<1> QED
  BY <1>3, <1>5, <1>6

\* The subsets of a finite set, by their size.
LEMMA SizeOf ==
  ASSUME NEW S, IsFiniteSet(S), NEW s \in SUBSET S
  PROVE  /\ IsFiniteSet(s) /\ Cardinality(s) \in Nat /\ Cardinality(s) <= Cardinality(S)
         /\ Cardinality(S) \in Nat
         /\ Cardinality(s) = 0 <=> s = {}
         /\ \A x \in s : Cardinality(s \ {x}) = Cardinality(s) - 1
<1>1. IsFiniteSet(s) /\ Cardinality(s) <= Cardinality(S)
  BY FS_Subset
<1>2. Cardinality(s) \in Nat /\ Cardinality(S) \in Nat
  BY <1>1, FS_CardinalityType
<1>3. \A x \in s : Cardinality(s \ {x}) = Cardinality(s) - 1
  BY <1>1, FS_RemoveElement
<1>4. Cardinality(s) = 0 <=> s = {}
  BY <1>1, FS_EmptySet
<1> QED
  BY <1>1, <1>2, <1>3, <1>4

\* g folds step over the subsets of S, taking pick[s] from s last.
IsFold(g, base, step, pick, S) ==
    g = [s \in SUBSET S |-> IF s = {} THEN base ELSE step[<<pick[s], g[s \ {pick[s]}]>>]]

\* There is such a fold over every finite set.
LEMMA FoldExists ==
  ASSUME NEW S, IsFiniteSet(S), NEW V, NEW base \in V, NEW step \in [S \X V -> V],
         NEW pick, \A s \in SUBSET S : s # {} => pick[s] \in s
  PROVE  \E g \in [SUBSET S -> V] : IsFold(g, base, step, pick, S)
<1> DEFINE Value(g, s) == IF s = {} THEN base ELSE step[<<pick[s], g[s \ {pick[s]}]>>]
           Upto(g, n) == \A s \in SUBSET S : Cardinality(s) <= n => g[s] = Value(g, s)
           D == {n \in Nat : \E g \in [SUBSET S -> V] : Upto(g, n)}
<1>1. 0 \in D
  <2> DEFINE g == [s \in SUBSET S |-> base]
  <2>1. g \in [SUBSET S -> V]
    OBVIOUS
  <2>2. ASSUME NEW s \in SUBSET S, Cardinality(s) <= 0
        PROVE  g[s] = Value(g, s)
    BY <2>2, SizeOf
  <2>3. Upto(g, 0)
    BY <2>2
  <2> QED
    BY <2>1, <2>3
<1>2. ASSUME NEW n \in D
      PROVE  n + 1 \in D
  <2>1. PICK g \in [SUBSET S -> V] : Upto(g, n)
    OBVIOUS
  <2> DEFINE k == [s \in SUBSET S |-> Value(g, s)]
  <2>2. k \in [SUBSET S -> V]
    <3>1. ASSUME NEW s \in SUBSET S
          PROVE  Value(g, s) \in V
      OBVIOUS
    <3> QED
      BY <3>1
  <2>3. ASSUME NEW s \in SUBSET S, Cardinality(s) <= n + 1
        PROVE  k[s] = Value(k, s)
    <3>1. CASE s = {}
      BY <3>1
    <3>2. CASE s # {}
      <4>1. pick[s] \in s /\ s \ {pick[s]} \in SUBSET S
        BY <3>2
      <4>2. Cardinality(s \ {pick[s]}) <= n
        BY <2>3, <4>1, SizeOf
      <4>3. g[s \ {pick[s]}] = k[s \ {pick[s]}]
        BY <2>1, <4>1, <4>2
      <4> QED
        BY <4>3
    <3> QED
      BY <3>1, <3>2
  <2>4. Upto(k, n + 1)
    BY <2>3
  <2> HIDE DEF k, Upto
  <2> QED
    BY <2>2, <2>4
<1>3. Cardinality(S) \in D
  <2>1. Cardinality(S) \in Nat
    BY FS_CardinalityType
  <2> HIDE DEF D
  <2>2. D \in SUBSET Nat
    BY DEF D
  <2> QED
    BY <1>1, <1>2, <2>1, <2>2, NatSet
<1>4. PICK g \in [SUBSET S -> V] : Upto(g, Cardinality(S))
  BY <1>3
<1>5. \A s \in SUBSET S : g[s] = Value(g, s)
  BY <1>4, SizeOf
<1>6. g = [s \in SUBSET S |-> g[s]]
  OBVIOUS
<1>7. g = [s \in SUBSET S |-> Value(g, s)]
  BY <1>5, <1>6
<1>8. IsFold(g, base, step, pick, S)
  BY <1>7 DEF IsFold
<1> QED
  BY <1>8

----------------------------------------------------------------------------
(* Sums *)

\* g sums h over the subsets of S, as MapThenSumSet does.
Pick(s) == CHOOSE x \in s : TRUE
IsSum(g, h, S) == g = [s \in SUBSET S |-> IF s = {} THEN 0 ELSE h[Pick(s)] + g[s \ {Pick(s)}]]

\* What the lemmas say of a sum and of its summands.
IntOn(h, S) == \A x \in S : h[x] \in Int
SameOn(h, k, T) == \A x \in T : h[x] = k[x]
OnlyAt(h, k, t, S) == \A x \in S : x # t => k[x] = h[x]
SumSteps(g, h, S) ==
    /\ g[{}] = 0
    /\ \A s \in SUBSET S : s # {} => Pick(s) \in s /\ g[s] = h[Pick(s)] + g[s \ {Pick(s)}]
SumTakes(g, h, S) == \A s \in SUBSET S : \A x \in s : g[s] = h[x] + g[s \ {x}]

\* Pick picks a member.
LEMMA PickIn == \A s : s # {} => Pick(s) \in s
  BY DEF Pick

\* Every finite set of integers has its sum as such a function.
LEMMA SumExists ==
  ASSUME NEW S, IsFiniteSet(S), NEW h, IntOn(h, S)
  PROVE  \E g \in [SUBSET S -> Int] : IsSum(g, h, S)
<1>1. PICK pick : pick = [s \in SUBSET S |-> Pick(s)]
  OBVIOUS
<1>2. PICK step : step = [z \in S \X Int |-> h[z[1]] + z[2]]
  OBVIOUS
<1>3. \A s \in SUBSET S : pick[s] = Pick(s) /\ (s # {} => pick[s] \in s)
  BY <1>1, PickIn
<1>4. step \in [S \X Int -> Int]
  BY <1>2 DEF IntOn
<1>5. PICK g \in [SUBSET S -> Int] : IsFold(g, 0, step, pick, S)
  <2>1. 0 \in Int /\ \A s \in SUBSET S : s # {} => pick[s] \in s
    BY <1>3
  <2> QED
    BY <1>4, <2>1, FoldExists, Zenon
<1>6. ASSUME NEW s \in SUBSET S
      PROVE  g[s] = IF s = {} THEN 0 ELSE h[Pick(s)] + g[s \ {Pick(s)}]
  <2>1. g[s] = IF s = {} THEN 0 ELSE step[<<Pick(s), g[s \ {Pick(s)}]>>]
    BY <1>3, <1>5 DEF IsFold
  <2>2. CASE s # {}
    <3>1. Pick(s) \in S /\ h[Pick(s)] \in Int /\ g[s \ {Pick(s)}] \in Int
      BY <1>3, <2>2 DEF IntOn
    <3>2. step[<<Pick(s), g[s \ {Pick(s)}]>>] = h[Pick(s)] + g[s \ {Pick(s)}]
      BY <1>2, <3>1
    <3> QED
      BY <2>1, <2>2, <3>2
  <2> QED
    BY <2>1, <2>2
<1>7. g = [s \in SUBSET S |-> g[s]]
  OBVIOUS
<1>8. IsSum(g, h, S)
  BY <1>6, <1>7 DEF IsSum
<1> QED
  BY <1>8

\* A sum's two equations.
LEMMA SumAt ==
  ASSUME NEW S, NEW h, NEW g, IsSum(g, h, S)
  PROVE  SumSteps(g, h, S)
<1>1. \A s \in SUBSET S : g[s] = IF s = {} THEN 0 ELSE h[Pick(s)] + g[s \ {Pick(s)}]
  BY DEF IsSum
<1>2. {} \in SUBSET S
  OBVIOUS
<1> QED
  BY <1>1, <1>2, PickIn DEF SumSteps

\* A sum of integers is an integer.
LEMMA SumInt ==
  ASSUME NEW S, IsFiniteSet(S), NEW h, IntOn(h, S), NEW g, IsSum(g, h, S)
  PROVE  \A s \in SUBSET S : g[s] \in Int
<1> DEFINE D == {n \in Nat : \A s \in SUBSET S : Cardinality(s) <= n => g[s] \in Int}
<1>0. SumSteps(g, h, S)
  BY SumAt
<1>1. 0 \in D
  <2>1. ASSUME NEW s \in SUBSET S, Cardinality(s) <= 0
        PROVE  g[s] \in Int
    <3>1. s = {}
      BY <2>1, SizeOf
    <3> QED
      BY <1>0, <3>1 DEF SumSteps
  <2> QED
    BY <2>1
<1>2. ASSUME NEW n \in D
      PROVE  n + 1 \in D
  <2>1. ASSUME NEW s \in SUBSET S, Cardinality(s) <= n + 1, s # {}
        PROVE  g[s] \in Int
    <3>1. Pick(s) \in s /\ g[s] = h[Pick(s)] + g[s \ {Pick(s)}]
      BY <1>0, <2>1 DEF SumSteps
    <3>2. s \ {Pick(s)} \in SUBSET S /\ Cardinality(s \ {Pick(s)}) <= n
      BY <2>1, <3>1, SizeOf
    <3> QED
      BY <3>1, <3>2 DEF IntOn
  <2>2. g[{}] \in Int
    BY <1>0 DEF SumSteps
  <2>3. \A s \in SUBSET S : Cardinality(s) <= n + 1 => g[s] \in Int
    BY <2>1, <2>2, Zenon
  <2> QED
    BY <2>3
<1>3. \A n \in Nat : n \in D
  <2>1. D \in SUBSET Nat
    OBVIOUS
  <2> HIDE DEF D
  <2> QED
    BY <1>1, <1>2, <2>1, NatSet
<1> QED
  BY <1>3, SizeOf

\* The order in which the members are taken does not matter.
LEMMA SumTake ==
  ASSUME NEW S, IsFiniteSet(S), NEW h, IntOn(h, S), NEW g, IsSum(g, h, S)
  PROVE  SumTakes(g, h, S)
<1> DEFINE D == {n \in Nat : \A s \in SUBSET S : Cardinality(s) <= n => \A x \in s : g[s] = h[x] + g[s \ {x}]}
<1>0. SumSteps(g, h, S)
  BY SumAt
<1>4. \A s \in SUBSET S : g[s] \in Int
  BY SumInt
<1>1. 0 \in D
  <2>1. ASSUME NEW s \in SUBSET S, Cardinality(s) <= 0
        PROVE  \A x \in s : g[s] = h[x] + g[s \ {x}]
    BY <2>1, SizeOf
  <2> QED
    BY <2>1
<1>2. ASSUME NEW n \in D
      PROVE  n + 1 \in D
  <2>1. ASSUME NEW s \in SUBSET S, Cardinality(s) <= n + 1, NEW x \in s
        PROVE  g[s] = h[x] + g[s \ {x}]
    <3>1. PICK p \in s : p = Pick(s) /\ g[s] = h[p] + g[s \ {p}]
      BY <1>0 DEF SumSteps
    <3>2. CASE x = p
      BY <3>1, <3>2
    <3>3. CASE x # p
      <4>1. /\ s \ {p} \in SUBSET S /\ Cardinality(s \ {p}) <= n /\ x \in s \ {p}
            /\ s \ {x} \in SUBSET S /\ Cardinality(s \ {x}) <= n /\ p \in s \ {x}
        BY <2>1, <3>3, SizeOf
      <4>2. g[s \ {p}] = h[x] + g[(s \ {p}) \ {x}] /\ g[s \ {x}] = h[p] + g[(s \ {x}) \ {p}]
        BY <4>1
      <4>3. (s \ {p}) \ {x} = (s \ {x}) \ {p}
        OBVIOUS
      <4>4. PICK c \in Int : c = g[(s \ {x}) \ {p}]
        BY <1>4
      <4>5. g[s] = h[p] + (h[x] + c) /\ g[s \ {x}] = h[p] + c
        BY <3>1, <4>2, <4>3, <4>4, Zenon
      <4>6. h[x] \in Int /\ h[p] \in Int
        BY DEF IntOn
      <4> QED
        BY <4>5, <4>6
    <3> QED
      BY <3>2, <3>3
  <2>2. \A s \in SUBSET S : Cardinality(s) <= n + 1 => \A x \in s : g[s] = h[x] + g[s \ {x}]
    BY <2>1
  <2> QED
    BY <2>2
<1>3. \A n \in Nat : n \in D
  <2>1. D \in SUBSET Nat
    OBVIOUS
  <2> HIDE DEF D
  <2> QED
    BY <1>1, <1>2, <2>1, NatSet
<1>5. \A s \in SUBSET S : Cardinality(s) \in D
  BY <1>3, SizeOf
<1> QED
  BY <1>5, SizeOf DEF SumTakes

\* Two sums agree on the sets where their summands do.
LEMMA SumAgree ==
  ASSUME NEW S, IsFiniteSet(S), NEW U, NEW T, T \in SUBSET S, T \in SUBSET U,
         NEW h, NEW k, SameOn(h, k, T),
         NEW g, IsSum(g, h, S), NEW f, IsSum(f, k, U)
  PROVE  SameOn(g, f, SUBSET T)
<1> DEFINE D == {n \in Nat : \A s \in SUBSET T : Cardinality(s) <= n => g[s] = f[s]}
<1>0. IsFiniteSet(T)
  BY FS_Subset
<1>4. SumSteps(g, h, S)
  BY SumAt
<1>5. SumSteps(f, k, U)
  BY SumAt
<1>1. 0 \in D
  <2>1. ASSUME NEW s \in SUBSET T, Cardinality(s) <= 0
        PROVE  g[s] = f[s]
    <3>1. s = {}
      BY <1>0, <2>1, SizeOf
    <3> QED
      BY <1>4, <1>5, <3>1 DEF SumSteps
  <2> QED
    BY <2>1
<1>2. ASSUME NEW n \in D
      PROVE  n + 1 \in D
  <2>1. ASSUME NEW s \in SUBSET T, Cardinality(s) <= n + 1
        PROVE  g[s] = f[s]
    <3>1. CASE s = {}
      BY <1>4, <1>5, <3>1 DEF SumSteps
    <3>2. CASE s # {}
      <4>1. PICK p \in s : /\ p = Pick(s)
                           /\ g[s] = h[p] + g[s \ {p}] /\ f[s] = k[p] + f[s \ {p}]
        BY <1>4, <1>5, <3>2 DEF SumSteps
      <4>2. s \ {p} \in SUBSET T /\ Cardinality(s \ {p}) <= n
        BY <1>0, <2>1, SizeOf
      <4>3. g[s \ {p}] = f[s \ {p}] /\ h[p] = k[p]
        BY <4>2 DEF SameOn
      <4> QED
        BY <4>1, <4>3
    <3> QED
      BY <3>1, <3>2
  <2>2. \A s \in SUBSET T : Cardinality(s) <= n + 1 => g[s] = f[s]
    BY <2>1
  <2> QED
    BY <2>2
<1>3. \A n \in Nat : n \in D
  <2>1. D \in SUBSET Nat
    OBVIOUS
  <2> HIDE DEF D
  <2> QED
    BY <1>1, <1>2, <2>1, NatSet
<1>6. \A s \in SUBSET T : Cardinality(s) \in D
  BY <1>0, <1>3, SizeOf
<1> QED
  BY <1>0, <1>6, SizeOf DEF SameOn

\* A sum of zeros, and a sum in which one summand changes.
LEMMA SumZero ==
  ASSUME NEW S, IsFiniteSet(S), NEW h, \A x \in S : h[x] = 0, NEW g, IsSum(g, h, S)
  PROVE  g[S] = 0
<1>1. PICK z : z = [s \in SUBSET S |-> 0]
  OBVIOUS
<1>2. IsSum(z, h, S)
  <2>1. \A s \in SUBSET S : s # {} => Pick(s) \in S
    BY PickIn
  <2>2. \A s \in SUBSET S : z[s] = 0 /\ z[s \ {Pick(s)}] = 0
    BY <1>1
  <2>3. \A s \in SUBSET S : 0 = IF s = {} THEN 0 ELSE h[Pick(s)] + z[s \ {Pick(s)}]
    BY <2>1, <2>2, SMTT(30)
  <2> QED
    BY <1>1, <2>3 DEF IsSum
<1>3. S \in SUBSET S /\ SameOn(h, h, S)
  BY DEF SameOn
<1>4. SameOn(g, z, SUBSET S)
  BY <1>2, <1>3, SumAgree, Zenon
<1> QED
  BY <1>1, <1>4 DEF SameOn

\* The sum moves by what the summand of t does.
SumMoves(g, h, f, k, t, S) == g[S] \in Int /\ f[S] = g[S] + (k[t] - h[t])

\* One summand changes.
LEMMA SumUpdate ==
  ASSUME NEW S, IsFiniteSet(S), NEW t \in S,
         NEW h, IntOn(h, S), NEW k, IntOn(k, S),
         OnlyAt(h, k, t, S),
         NEW g, IsSum(g, h, S), NEW f, IsSum(f, k, S)
  PROVE  SumMoves(g, h, f, k, t, S)
<1>1. S \in SUBSET S /\ S \ {t} \in SUBSET S
  OBVIOUS
<1>2. g[S] = h[t] + g[S \ {t}] /\ f[S] = k[t] + f[S \ {t}]
  <2>1. SumTakes(g, h, S) /\ SumTakes(f, k, S)
    BY SumTake
  <2> QED
    BY <1>1, <2>1 DEF SumTakes
<1>3. g[S \ {t}] = f[S \ {t}]
  <2>1. PICK T : T = S \ {t}
    OBVIOUS
  <2>2. T \in SUBSET S /\ SameOn(h, k, T)
    BY <2>1 DEF SameOn, OnlyAt
  <2>3. SameOn(g, f, SUBSET T)
    BY <2>2, SumAgree, Zenon
  <2> QED
    BY <2>1, <2>3 DEF SameOn
<1>4. g[S \ {t}] \in Int
  BY <1>1, SumInt, Zenon
<1> QED
  BY <1>2, <1>3, <1>4 DEF IntOn, SumMoves

\* A sum of naturals grows with the set.
LEMMA SumMono ==
  ASSUME NEW S, IsFiniteSet(S), NEW h, \A x \in S : h[x] \in Nat, NEW g, IsSum(g, h, S)
  PROVE  \A r \in SUBSET S : g[r] \in Nat /\ \A s \in SUBSET r : g[s] <= g[r]
<1> DEFINE D == {n \in Nat : \A r \in SUBSET S : Cardinality(r) <= n =>
                               g[r] \in Nat /\ \A s \in SUBSET r : g[s] <= g[r]}
<1>0. g[{}] = 0
  BY SumAt DEF SumSteps
<1>1. \A r \in SUBSET S : \A x \in r : g[r] = h[x] + g[r \ {x}]
  <2>1. IntOn(h, S)
    BY DEF IntOn
  <2>2. SumTakes(g, h, S)
    BY <2>1, SumTake
  <2> QED
    BY <2>2 DEF SumTakes
<1>2. 0 \in D
  <2>1. ASSUME NEW r \in SUBSET S, Cardinality(r) <= 0
        PROVE  g[r] \in Nat /\ \A s \in SUBSET r : g[s] <= g[r]
    <3>1. r = {}
      BY <2>1, SizeOf
    <3> QED
      BY <1>0, <3>1
  <2> QED
    BY <2>1
<1>3. ASSUME NEW n \in D
      PROVE  n + 1 \in D
  <2>1. ASSUME NEW r \in SUBSET S, Cardinality(r) <= n + 1, r # {}
        PROVE  g[r] \in Nat /\ \A s \in SUBSET r : g[s] <= g[r]
    <3>1. ASSUME NEW x \in r
          PROVE  /\ g[r] \in Nat /\ g[r \ {x}] <= g[r] /\ g[r \ {x}] \in Nat
                 /\ \A s \in SUBSET (r \ {x}) : g[s] <= g[r \ {x}] /\ g[s] \in Nat
      <4>1. r \ {x} \in SUBSET S /\ Cardinality(r \ {x}) <= n
        BY <2>1, SizeOf
      <4>2. g[r \ {x}] \in Nat /\ \A s \in SUBSET (r \ {x}) : g[s] <= g[r \ {x}]
        BY <4>1
      <4>3. g[r] = h[x] + g[r \ {x}] /\ h[x] \in Nat
        BY <1>1
      <4>4. \A s \in SUBSET (r \ {x}) : g[s] \in Nat
        <5>1. ASSUME NEW s \in SUBSET (r \ {x})
              PROVE  g[s] \in Nat
          <6>1. IsFiniteSet(r \ {x}) /\ s \in SUBSET S
            BY <4>1, SizeOf
          <6>2. Cardinality(s) <= Cardinality(r \ {x}) /\ Cardinality(s) \in Nat /\ Cardinality(r \ {x}) \in Nat
            BY <6>1, SizeOf
          <6>3. Cardinality(s) <= n
            BY <4>1, <6>2
          <6> QED
            BY <6>1, <6>3
        <5> QED
          BY <5>1
      <4>5. g[r] \in Nat /\ g[r \ {x}] <= g[r]
        BY <4>2, <4>3
      <4> QED
        BY <4>2, <4>4, <4>5, Zenon
    <3>2. g[r] \in Nat
      BY <2>1, <3>1
    <3>3. ASSUME NEW s \in SUBSET r
          PROVE  g[s] <= g[r]
      <4>1. CASE s = r
        BY <3>2, <4>1
      <4>2. CASE s # r
        <5>1. PICK x \in r : x \notin s
          BY <4>2
        <5>2. s \in SUBSET (r \ {x})
          BY <5>1
        <5>3. g[s] \in Nat /\ g[r \ {x}] \in Nat /\ g[s] <= g[r \ {x}] /\ g[r \ {x}] <= g[r]
          BY <3>1, <5>2
        <5> QED
          BY <3>2, <5>3
      <4> QED
        BY <4>1, <4>2
    <3> QED
      BY <3>2, <3>3
  <2>2. ASSUME NEW r \in SUBSET S, Cardinality(r) <= n + 1
        PROVE  g[r] \in Nat /\ \A s \in SUBSET r : g[s] <= g[r]
    <3>1. CASE r = {}
      BY <1>0, <3>1
    <3> QED
      BY <2>1, <2>2, <3>1, Zenon
  <2> QED
    BY <2>2
<1>4. \A n \in Nat : n \in D
  <2>1. D \in SUBSET Nat
    OBVIOUS
  <2> HIDE DEF D
  <2> QED
    BY <1>2, <1>3, <2>1, NatSet
<1> QED
  BY <1>4, SizeOf

------------------------------------------------------------------------------
(* Folds over an interval *)

\* A nonempty set of naturals up to n has a maximum.
LEMMA MaxIn ==
  ASSUME NEW n \in Nat, NEW s \in SUBSET (1 .. n), s # {}
  PROVE  Max(s) \in s /\ \A y \in s : Max(s) >= y
<1> DEFINE D == {k \in Nat : \A r \in SUBSET (1 .. k) : r # {} => \E x \in r : \A y \in r : x >= y}
<1>1. 0 \in D
  <2>1. \A r \in SUBSET (1 .. 0) : r = {}
    OBVIOUS
  <2> QED
    BY <2>1
<1>2. ASSUME NEW k \in D
      PROVE  k + 1 \in D
  <2>1. ASSUME NEW r \in SUBSET (1 .. k + 1), r # {}
        PROVE  \E x \in r : \A y \in r : x >= y
    <3>1. CASE k + 1 \in r
      BY <3>1
    <3>2. CASE k + 1 \notin r
      <4>1. r \in SUBSET (1 .. k)
        BY <3>2
      <4> QED
        BY <2>1, <4>1
    <3> QED
      BY <3>1, <3>2
  <2> QED
    BY <2>1
<1>3. D \in SUBSET Nat
  OBVIOUS
<1> HIDE DEF D
<1>4. n \in D
  BY <1>1, <1>2, <1>3, NatSet
<1>5. \E x \in s : \A y \in s : x >= y
  BY <1>4 DEF D
<1> QED
  BY <1>5 DEF Max

\* A nonempty set of naturals from 1 has a minimum.
LEMMA MinIn ==
  ASSUME NEW n \in Nat, NEW s \in SUBSET (1 .. n), s # {}
  PROVE  Min(s) \in s /\ \A y \in s : Min(s) <= y
<1>1. PICK r : r = {(n + 1) - y : y \in s}
  OBVIOUS
<1>2. r \in SUBSET (1 .. n) /\ r # {}
  <2>1. \A y \in s : (n + 1) - y \in 1 .. n
    OBVIOUS
  <2> QED
    BY <1>1, <2>1
<1>3. Max(r) \in r /\ \A y \in r : Max(r) >= y
  BY <1>2, MaxIn
<1>4. PICK x \in s : Max(r) = (n + 1) - x
  BY <1>1, <1>3
<1>5. \A y \in s : (n + 1) - y \in r
  BY <1>1
<1>6. \A y \in s : x <= y
  <2>1. ASSUME NEW y \in s
        PROVE  x <= y
    <3>1. (n + 1) - x >= (n + 1) - y
      BY <1>3, <1>4, <1>5
    <3>2. x \in Int /\ y \in Int
      OBVIOUS
    <3> QED
      BY <3>1, <3>2
  <2> QED
    BY <2>1
<1> QED
  BY <1>6 DEF Min

\* The intervals 1 .. k, as a fold to the greatest member takes them.
LEMMA IntervalMax ==
  ASSUME NEW n \in Nat, NEW k \in 1 .. n
  PROVE  /\ 1 .. k \in SUBSET (1 .. n) /\ 1 .. k # {}
         /\ Max(1 .. k) = k /\ (1 .. k) \ {k} = 1 .. (k - 1)
<1>1. 1 .. k \in SUBSET (1 .. n) /\ k \in 1 .. k
  OBVIOUS
<1>2. PICK s : s = 1 .. k
  OBVIOUS
<1>3. Max(s) \in s /\ \A y \in s : Max(s) >= y
  BY <1>1, <1>2, MaxIn
<1>4. Max(s) = k
  BY <1>1, <1>2, <1>3
<1>5. (1 .. k) \ {k} = 1 .. (k - 1)
  OBVIOUS
<1> QED
  BY <1>1, <1>2, <1>4, <1>5

\* Such a fold over 1 .. n takes the greatest member last, as FoldLeft does.
LastFold(g, V, base, step, n) ==
    /\ g = [s \in SUBSET (1 .. n) |-> IF s = {} THEN base ELSE step[<<Max(s), g[s \ {Max(s)}]>>]]
    /\ \A s \in SUBSET (1 .. n) : g[s] \in V

\* There is one: FoldLeft over a sequence of length n, as a function.
LEMMA FoldLast ==
  ASSUME NEW n \in Nat, NEW V, NEW base \in V, NEW step \in [(1 .. n) \X V -> V]
  PROVE  \E g : LastFold(g, V, base, step, n)
<1>1. PICK pick : pick = [s \in SUBSET (1 .. n) |-> Max(s)]
  OBVIOUS
<1>2. \A s \in SUBSET (1 .. n) : pick[s] = Max(s) /\ (s # {} => pick[s] \in s)
  BY <1>1, MaxIn
<1>3. IsFiniteSet(1 .. n)
  BY FS_Interval
<1>4. PICK g \in [SUBSET (1 .. n) -> V] : IsFold(g, base, step, pick, 1 .. n)
  <2>1. \A s \in SUBSET (1 .. n) : s # {} => pick[s] \in s
    BY <1>2
  <2> QED
    BY <1>3, <2>1, FoldExists, Zenon
<1>5. g = [s \in SUBSET (1 .. n) |-> IF s = {} THEN base ELSE step[<<Max(s), g[s \ {Max(s)}]>>]]
  BY <1>2, <1>4 DEF IsFold
<1> QED
  BY <1>4, <1>5 DEF LastFold

\* The turns of such a fold, in order.
Chain(f, V, base, step, n) ==
    f \in [0 .. n -> V] /\ f[0] = base /\ \A k \in 1 .. n : f[k] = step[<<k, f[k - 1]>>]

LEMMA FoldChain ==
  ASSUME NEW n \in Nat, NEW V, NEW base, NEW step, NEW g, LastFold(g, V, base, step, n)
  PROVE  \E f : Chain(f, V, base, step, n) /\ f[n] = g[1 .. n]
<1>1. /\ g = [s \in SUBSET (1 .. n) |-> IF s = {} THEN base ELSE step[<<Max(s), g[s \ {Max(s)}]>>]]
      /\ \A s \in SUBSET (1 .. n) : g[s] \in V
  BY DEF LastFold
<1>2. PICK f : f = [k \in 0 .. n |-> g[1 .. k]]
  OBVIOUS
<1>3. \A k \in 0 .. n : 1 .. k \in SUBSET (1 .. n) /\ f[k] = g[1 .. k]
  BY <1>2
<1>4. f \in [0 .. n -> V]
  BY <1>1, <1>2, <1>3
<1>5. f[0] = base
  <2>1. 1 .. 0 = {} /\ 0 \in 0 .. n
    OBVIOUS
  <2> QED
    BY <1>1, <1>3, <2>1
<1>6. ASSUME NEW k \in 1 .. n
      PROVE  f[k] = step[<<k, f[k - 1]>>]
  <2>1. 1 .. k \in SUBSET (1 .. n) /\ 1 .. k # {} /\ Max(1 .. k) = k /\ (1 .. k) \ {k} = 1 .. (k - 1)
    BY IntervalMax
  <2>2. k \in 0 .. n /\ k - 1 \in 0 .. n
    OBVIOUS
  <2>3. g[1 .. k] = step[<<k, g[1 .. (k - 1)]>>]
    BY <1>1, <2>1
  <2> QED
    BY <1>3, <2>2, <2>3
<1>7. n \in 0 .. n
  OBVIOUS
<1> QED
  BY <1>3, <1>4, <1>5, <1>6, <1>7 DEF Chain

\* What holds of the base and, with the turn's number, is kept by each turn, holds at the end.
LEMMA FoldHolds ==
  ASSUME NEW n \in Nat, NEW V, NEW base, NEW step, NEW g, LastFold(g, V, base, step, n),
         NEW P, <<0, base>> \in P,
         \A k \in 1 .. n, v \in V : <<k - 1, v>> \in P => <<k, step[<<k, v>>]>> \in P
  PROVE  <<n, g[1 .. n]>> \in P
<1>1. PICK f : Chain(f, V, base, step, n) /\ f[n] = g[1 .. n]
  BY FoldChain
<1> DEFINE D == {k \in Nat : k <= n => <<k, f[k]>> \in P}
<1>2. 0 \in D
  BY <1>1 DEF Chain
<1>3. ASSUME NEW k \in D
      PROVE  k + 1 \in D
  <2>1. SUFFICES ASSUME k + 1 <= n PROVE <<k + 1, f[k + 1]>> \in P
    OBVIOUS
  <2>2. k + 1 \in 1 .. n /\ (k + 1) - 1 = k /\ k \in 0 .. n /\ <<k, f[k]>> \in P
    BY <2>1
  <2>3. f[k] \in V /\ f[k + 1] = step[<<k + 1, f[k]>>]
    BY <1>1, <2>2 DEF Chain
  <2> QED
    BY <2>2, <2>3
<1> HIDE DEF D
<1>4. D \in SUBSET Nat
  BY DEF D
<1>5. n \in D
  BY <1>2, <1>3, <1>4, NatSet
<1> QED
  BY <1>1, <1>5 DEF D

\* Two functions that take the greatest member last, step by step the same, are the same.
LEMMA FoldSame ==
  ASSUME NEW n \in Nat, NEW C, NEW g, C[{}] = g[{}],
         \A s \in SUBSET (1 .. n) : s # {} /\ C[s \ {Max(s)}] = g[s \ {Max(s)}] => C[s] = g[s]
  PROVE  C[1 .. n] = g[1 .. n]
<1> DEFINE D == {k \in Nat : k <= n => C[1 .. k] = g[1 .. k]}
<1>1. 0 \in D
  <2>1. 1 .. 0 = {}
    OBVIOUS
  <2> QED
    BY <2>1
<1>2. ASSUME NEW k \in D
      PROVE  k + 1 \in D
  <2>1. SUFFICES ASSUME k + 1 <= n PROVE C[1 .. k + 1] = g[1 .. k + 1]
    OBVIOUS
  <2>2. k + 1 \in 1 .. n /\ C[1 .. k] = g[1 .. k] /\ (k + 1) - 1 = k
    BY <2>1
  <2>3. PICK j \in 1 .. n : j = k + 1 /\ j - 1 = k
    BY <2>2
  <2>4. 1 .. j \in SUBSET (1 .. n) /\ 1 .. j # {} /\ Max(1 .. j) = j /\ (1 .. j) \ {j} = 1 .. (j - 1)
    BY IntervalMax
  <2>5. C[1 .. j] = g[1 .. j]
    BY <2>2, <2>3, <2>4
  <2> QED
    BY <2>3, <2>5
<1>3. D \in SUBSET Nat
  OBVIOUS
<1> HIDE DEF D
<1>4. n \in D
  BY <1>1, <1>2, <1>3, NatSet
<1> QED
  BY <1>4 DEF D

-----------------------------------------------------------------------------
(* Sequences *)

\* What Append adds.
LEMMA AppendedSeq ==
  ASSUME NEW S, NEW q \in Seq(S), NEW x \in S
  PROVE  /\ Append(q, x) \in Seq(S)
         /\ ToSet(Append(q, x)) = ToSet(q) \cup {x}
         /\ x \notin ToSet(q) /\ IsInjective(q) => IsInjective(Append(q, x))
<1>1. ToSet(Append(q, x)) = ToSet(q) \cup {x}
  <2>1. \A i \in 1 .. Len(q) : Append(q, x)[i] = q[i]
    OBVIOUS
  <2>2. Append(q, x)[Len(q) + 1] = x /\ DOMAIN Append(q, x) = 1 .. Len(q) + 1
    OBVIOUS
  <2>3. DOMAIN q = 1 .. Len(q) /\ Len(q) \in Nat
    OBVIOUS
  <2>4. 1 .. Len(q) + 1 = (1 .. Len(q)) \cup {Len(q) + 1}
    BY <2>3
  <2> QED
    BY <2>1, <2>2, <2>3, <2>4 DEF ToSet
<1>2. x \notin ToSet(q) /\ IsInjective(q) => IsInjective(Append(q, x))
  BY DEF IsInjective, ToSet
<1> QED
  BY <1>1, <1>2

\* What RemoveAt leaves: everything but the entry, in place or one place earlier.
LEMMA RemovedSeq ==
  ASSUME NEW S, NEW q \in Seq(S), NEW i \in 1 .. Len(q)
  PROVE  /\ RemoveAt(q, i) \in Seq(S)
         /\ Len(RemoveAt(q, i)) = Len(q) - 1
         /\ \A j \in 1 .. Len(q) - 1 : RemoveAt(q, i)[j] = IF j < i THEN q[j] ELSE q[j + 1]
<1> DEFINE a == SubSeq(q, 1, i - 1)
           b == SubSeq(q, i + 1, Len(q))
<1>0. Len(q) \in Nat /\ \A j \in 1 .. Len(q) : q[j] \in S
  OBVIOUS
<1>1. /\ a \in Seq(S) /\ Len(a) = i - 1 /\ \A j \in 1 .. i - 1 : a[j] = q[j]
  BY <1>0, SubSeqProperties
<1>2. /\ b \in Seq(S) /\ Len(b) = Len(q) - i /\ \A j \in 1 .. Len(q) - i : b[j] = q[i + j]
  BY <1>0, SubSeqProperties
<1> HIDE DEF a, b
<1>3. /\ a \o b \in Seq(S) /\ Len(a \o b) = Len(q) - 1
      /\ \A j \in 1 .. Len(q) - 1 : (a \o b)[j] = IF j <= i - 1 THEN a[j] ELSE b[j - (i - 1)]
  <2>1. /\ a \o b \in Seq(S) /\ Len(a \o b) = Len(a) + Len(b)
        /\ \A j \in 1 .. Len(a) + Len(b) : (a \o b)[j] = IF j <= Len(a) THEN a[j] ELSE b[j - Len(a)]
    BY <1>1, <1>2, ConcatProperties
  <2>2. Len(a) + Len(b) = Len(q) - 1
    BY <1>0, <1>1, <1>2
  <2> QED
    BY <1>1, <2>1, <2>2
<1>4. \A j \in 1 .. Len(q) - 1 : (a \o b)[j] = IF j < i THEN q[j] ELSE q[j + 1]
  <2> TAKE j \in 1 .. Len(q) - 1
  <2>1. CASE j < i
    BY <1>0, <1>1, <1>3, <2>1
  <2>2. CASE ~(j < i)
    <3>1. j - (i - 1) \in 1 .. Len(q) - i /\ i + (j - (i - 1)) = j + 1
      BY <1>0, <2>2
    <3> QED
      BY <1>0, <1>2, <1>3, <2>2, <3>1
  <2> QED
    BY <2>1, <2>2
<1> QED
  BY <1>3, <1>4 DEF RemoveAt, a, b

\* What is removed is gone, and nothing else; from a queue without repetition.
LEMMA RemovedSet ==
  ASSUME NEW S, NEW q \in Seq(S), NEW i \in 1 .. Len(q)
  PROVE  /\ RemoveAt(q, i) \in Seq(S)
         /\ q[i] \in ToSet(q) /\ q[i] \in S
         /\ ToSet(q) \ {q[i]} \subseteq ToSet(RemoveAt(q, i))
         /\ IsInjective(q) => /\ ToSet(RemoveAt(q, i)) = ToSet(q) \ {q[i]}
                              /\ IsInjective(RemoveAt(q, i))
<1> DEFINE r == RemoveAt(q, i)
<1>1. /\ r \in Seq(S) /\ Len(r) = Len(q) - 1
      /\ \A j \in 1 .. Len(q) - 1 : r[j] = IF j < i THEN q[j] ELSE q[j + 1]
  BY RemovedSeq
<1> HIDE DEF r
<1>2. DOMAIN q = 1 .. Len(q) /\ Len(q) \in Nat /\ DOMAIN r = 1 .. Len(q) - 1
  BY <1>1
<1>3. q[i] \in ToSet(q) /\ q[i] \in S
  BY <1>2 DEF ToSet
<1>4. ASSUME NEW x \in ToSet(q) \ {q[i]}
      PROVE  x \in ToSet(r)
  <2>1. PICK j \in 1 .. Len(q) : x = q[j] /\ j # i
    BY <1>2 DEF ToSet
  <2>2. CASE j < i
    <3>1. j \in 1 .. Len(q) - 1 /\ r[j] = x
      BY <1>1, <1>2, <2>1, <2>2
    <3> QED
      BY <1>2, <3>1 DEF ToSet
  <2>3. CASE ~(j < i)
    <3>1. j - 1 \in 1 .. Len(q) - 1 /\ r[j - 1] = x
      BY <1>1, <1>2, <2>1, <2>3
    <3> QED
      BY <1>2, <3>1 DEF ToSet
  <2> QED
    BY <2>2, <2>3
<1>5. ASSUME IsInjective(q)
      PROVE  IsInjective(r)
  <2> DEFINE Place(j) == IF j < i THEN j ELSE j + 1
  <2>1. ASSUME NEW j \in DOMAIN r, NEW k \in DOMAIN r, r[j] = r[k]
        PROVE  j = k
    <3>1. /\ Place(j) \in 1 .. Len(q) /\ r[j] = q[Place(j)]
          /\ Place(k) \in 1 .. Len(q) /\ r[k] = q[Place(k)]
      BY <1>1, <1>2
    <3>2. Place(j) = Place(k)
      BY <1>2, <1>5, <2>1, <3>1 DEF IsInjective
    <3> QED
      BY <1>2, <3>2
  <2> QED
    BY <2>1 DEF IsInjective
<1>6. ASSUME IsInjective(q), NEW x \in ToSet(r)
      PROVE  x \in ToSet(q) \ {q[i]}
  <2>1. PICK j \in 1 .. Len(q) - 1 : x = r[j]
    BY <1>2 DEF ToSet
  <2>2. PICK k \in 1 .. Len(q) : x = q[k] /\ k # i
    BY <1>1, <1>2, <2>1
  <2> QED
    BY <1>2, <1>6, <2>2 DEF IsInjective, ToSet
<1> QED
  BY <1>1, <1>3, <1>4, <1>5, <1>6 DEF r

\* Tail is RemoveAt of the first position.
LEMMA TailSet ==
  ASSUME NEW S, NEW q \in Seq(S), q # <<>>
  PROVE  /\ Tail(q) \in Seq(S)
         /\ Head(q) \in ToSet(q) /\ Head(q) \in S
         /\ ToSet(q) \ {Head(q)} \subseteq ToSet(Tail(q))
         /\ IsInjective(q) => /\ ToSet(Tail(q)) = ToSet(q) \ {Head(q)}
                              /\ IsInjective(Tail(q))
<1>1. 1 \in 1 .. Len(q) /\ Head(q) = q[1]
  OBVIOUS
<1>2. RemoveAt(q, 1) = Tail(q)
  <2>1. /\ RemoveAt(q, 1) \in Seq(S) /\ Len(RemoveAt(q, 1)) = Len(q) - 1
        /\ \A j \in 1 .. Len(q) - 1 : RemoveAt(q, 1)[j] = IF j < 1 THEN q[j] ELSE q[j + 1]
    BY <1>1, RemovedSeq
  <2>2. /\ Tail(q) \in Seq(S) /\ Len(Tail(q)) = Len(q) - 1
        /\ \A j \in 1 .. Len(q) - 1 : Tail(q)[j] = q[j + 1]
    OBVIOUS
  <2> DEFINE r == RemoveAt(q, 1)
             s == Tail(q)
  <2> HIDE DEF r, s
  <2>3. Len(r) = Len(s) /\ r \in Seq(S) /\ s \in Seq(S) /\ \A j \in 1 .. Len(r) : r[j] = s[j]
    BY <2>1, <2>2 DEF r, s
  <2>4. r = s
    BY <2>3, SeqEqual
  <2> QED
    BY <2>4 DEF r, s
<1>3. /\ RemoveAt(q, 1) \in Seq(S)
      /\ q[1] \in ToSet(q) /\ q[1] \in S
      /\ ToSet(q) \ {q[1]} \subseteq ToSet(RemoveAt(q, 1))
      /\ IsInjective(q) => /\ ToSet(RemoveAt(q, 1)) = ToSet(q) \ {q[1]}
                           /\ IsInjective(RemoveAt(q, 1))
  BY <1>1, RemovedSet
<1> QED
  BY <1>1, <1>2, <1>3, Zenon

\* A sequence grows at its end, or passes its first entry on to the one before it.
LEMMA JoinAppend ==
  ASSUME NEW S, NEW a \in Seq(S), NEW b \in Seq(S), NEW x \in S
  PROVE  a \o Append(b, x) = Append(a \o b, x)
<1>1. <<x>> \in Seq(S) /\ a \o b \in Seq(S)
  OBVIOUS
<1>2. Append(b, x) = b \o <<x>> /\ Append(a \o b, x) = (a \o b) \o <<x>>
  BY <1>1, AppendIsConcat
<1>3. (a \o b) \o <<x>> = a \o (b \o <<x>>)
  BY <1>1, ConcatAssociative
<1> QED
  BY <1>2, <1>3

LEMMA JoinMove ==
  ASSUME NEW S, NEW a \in Seq(S), NEW b \in Seq(S), b # <<>>
  PROVE  Append(a, Head(b)) \o Tail(b) = a \o b
<1>1. Head(b) \in S /\ Tail(b) \in Seq(S) /\ <<Head(b)>> \in Seq(S)
  OBVIOUS
<1>2. Append(a, Head(b)) = a \o <<Head(b)>>
  BY <1>1, AppendIsConcat
<1>3. (a \o <<Head(b)>>) \o Tail(b) = a \o (<<Head(b)>> \o Tail(b))
  BY <1>1, ConcatAssociative
<1>4. <<Head(b)>> \o Tail(b) = b
  <2>1. Len(b) \in Nat /\ 1 \in 1 .. Len(b) /\ Len(b) \in 1 .. Len(b)
    OBVIOUS
  <2>2. SubSeq(b, 1, Len(b)) = <<b[1]>> \o SubSeq(b, 1 + 1, Len(b))
    BY <2>1, SubSeqRecursiveFirst
  <2>3. SubSeq(b, 1, Len(b)) = b
    BY SubSeqFull
  <2>4. SubSeq(b, 1 + 1, Len(b)) = Tail(b)
    BY TailIsSubSeq
  <2>5. b[1] = Head(b)
    OBVIOUS
  <2> QED
    BY <2>2, <2>3, <2>4, <2>5
<1> QED
  BY <1>2, <1>3, <1>4

\* The members of two sequences in a row.
LEMMA JoinSet ==
  ASSUME NEW S, NEW a \in Seq(S), NEW b \in Seq(S)
  PROVE  /\ a \o b \in Seq(S)
         /\ ToSet(a \o b) = ToSet(a) \cup ToSet(b)
         /\ IsInjective(a \o b) => /\ IsInjective(a) /\ IsInjective(b)
                                   /\ \A x \in ToSet(a) : x \notin ToSet(b)
<1>1. /\ a \o b \in Seq(S) /\ Len(a \o b) = Len(a) + Len(b)
      /\ \A i \in 1 .. Len(a) + Len(b) : (a \o b)[i] = IF i <= Len(a) THEN a[i] ELSE b[i - Len(a)]
  BY ConcatProperties
<1>2. PICK c \in Seq(S) : c = a \o b
  BY <1>1
<1>3. PICK m \in Nat, n \in Nat : m = Len(a) /\ n = Len(b)
  OBVIOUS
<1>4. DOMAIN a = 1 .. m /\ DOMAIN b = 1 .. n /\ DOMAIN c = 1 .. m + n
  BY <1>1, <1>2, <1>3
<1>5. \A i \in 1 .. m : i \in 1 .. m + n /\ c[i] = a[i]
  BY <1>1, <1>2, <1>3
<1>6. \A i \in 1 .. n : m + i \in 1 .. m + n /\ c[m + i] = b[i]
  <2> TAKE i \in 1 .. n
  <2>1. m + i \in 1 .. m + n /\ ~(m + i <= m) /\ (m + i) - m = i
    OBVIOUS
  <2> QED
    BY <1>1, <1>2, <1>3, <2>1
<1>7. \A i \in 1 .. m + n : i \in 1 .. m \/ \E j \in 1 .. n : i = m + j
  <2> TAKE i \in 1 .. m + n
  <2>1. i \in 1 .. m \/ (i - m \in 1 .. n /\ i = m + (i - m))
    OBVIOUS
  <2> QED
    BY <2>1
<1>8. ToSet(c) = ToSet(a) \cup ToSet(b)
  <2>1. ASSUME NEW x \in ToSet(c)
        PROVE  x \in ToSet(a) \cup ToSet(b)
    <3>1. PICK i \in 1 .. m + n : x = c[i]
      BY <1>4 DEF ToSet
    <3>2. CASE i \in 1 .. m
      BY <1>4, <1>5, <3>1, <3>2 DEF ToSet
    <3>3. CASE \E j \in 1 .. n : i = m + j
      <4>1. PICK j \in 1 .. n : i = m + j
        BY <3>3
      <4> QED
        BY <1>4, <1>6, <3>1, <4>1 DEF ToSet
    <3> QED
      BY <1>7, <3>2, <3>3
  <2>2. \A x \in ToSet(a) \cup ToSet(b) : x \in ToSet(c)
    BY <1>4, <1>5, <1>6 DEF ToSet
  <2> QED
    BY <2>1, <2>2
<1>9. ASSUME IsInjective(c)
      PROVE  IsInjective(a) /\ IsInjective(b) /\ \A x \in ToSet(a) : x \notin ToSet(b)
  <2>1. \A i, j \in 1 .. m + n : c[i] = c[j] => i = j
    BY <1>4, <1>9 DEF IsInjective
  <2>2. \A i, j \in 1 .. m : a[i] = a[j] => i = j
    BY <1>5, <2>1
  <2>3. \A i, j \in 1 .. n : b[i] = b[j] => m + i = m + j
    BY <1>6, <2>1
  <2>4. \A i \in 1 .. m, j \in 1 .. n : a[i] = b[j] => i = m + j
    BY <1>5, <1>6, <2>1
  <2>5. \A i \in 1 .. m, j \in 1 .. n : i # m + j
    OBVIOUS
  <2> QED
    BY <1>4, <2>2, <2>3, <2>4, <2>5 DEF IsInjective, ToSet
<1> QED
  BY <1>2, <1>8, <1>9
=============================================================================
