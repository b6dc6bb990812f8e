-------------------------- MODULE CalculatorProofs --------------------------
(***************************************************************************)
(* What the calculators promise, for inputs of any size: a chart of any    *)
(* period over any number of instances, price lists of any number of       *)
(* upstreams and groups, expressions of any number of tiers.  The sums,    *)
(* texts and tiers they compute are recursive; Induction has what the      *)
(* proofs need about recursion.                                            *)
(***************************************************************************)
EXTENDS Calculators, Induction, SequenceTheorems, TLAPS

(* The least of a set of numbers, and the greatest of a bounded one.         *)
LEMMA MinIs ==
  ASSUME NEW S \in SUBSET Nat, S # {}
  PROVE  Min(S) \in S /\ \A x \in S : Min(S) <= x
<1>1. \E least \in S : \A x \in S : least <= x
  BY LeastNumber
<1> QED BY <1>1 DEF Min

LEMMA LeastIs ==
  ASSUME NEW S \in SUBSET Nat, NEW least \in S, \A x \in S : least <= x
  PROVE  Min(S) = least
<1>1. Min(S) \in S /\ Min(S) <= least
  BY MinIs
<1>2. least <= Min(S) /\ Min(S) \in Nat /\ least \in Nat
  BY <1>1
<1> QED BY <1>1, <1>2

LEMMA MaxIs ==
  ASSUME NEW S \in SUBSET Nat, S # {}, NEW n \in Nat, \A x \in S : x <= n
  PROVE  Max(S) \in S /\ \A x \in S : x <= Max(S)
<1> DEFINE below == {n - x : x \in S}
<1>1. below \in SUBSET Nat /\ below # {}
  <2>1. \A x \in S : n - x \in Nat
    OBVIOUS
  <2> QED BY <2>1
<1>2. PICK least \in below : \A y \in below : least <= y
  <2> HIDE DEF below
  <2> QED BY <1>1, LeastNumber
<1>3. PICK greatest \in S : least = n - greatest
  BY <1>2
<1>4. \A x \in S : n - x \in below
  OBVIOUS
<1>5. \A x \in S : greatest >= x
  BY <1>2, <1>3, <1>4
<1> HIDE DEF below
<1> QED BY <1>5 DEF Max

-----------------------------------------------------------------------------
(* A sum over a finite set takes its elements in some order.                *)
Choice(s) == CHOOSE x \in s : TRUE
Sums(f, S) ==
  [g \in [SUBSET S -> Int] |->
     [s \in SUBSET S |-> IF s = {} THEN 0 ELSE f[Choice(s)] + g[s \ {Choice(s)}]]]
Sizes(S) == [s \in SUBSET S |-> Cardinality(s)]
Solution(g, f, S) == g \in [SUBSET S -> Int] /\ g = Sums(f, S)[g]

LEMMA ChoiceIn == ASSUME NEW s, s # {} PROVE Choice(s) \in s
BY DEF Choice

LEMMA SizeTypes ==
  ASSUME NEW S, IsFiniteSet(S)
  PROVE  /\ \A s \in SUBSET S : IsFiniteSet(s) /\ Cardinality(s) \in Nat
         /\ \A s \in SUBSET S : \A x \in s : Cardinality(s \ {x}) = Cardinality(s) - 1
BY FS_Subset, FS_CardinalityType, FS_RemoveElement

LEMMA SumsRecursion ==
  ASSUME NEW S, IsFiniteSet(S), NEW f, \A x \in S : f[x] \in Int
  PROVE  Recursion(Sums(f, S), Sizes(S), SUBSET S, Int)
<1>1. Sizes(S) \in [SUBSET S -> Nat]
  BY SizeTypes DEF Sizes
<1>2. ASSUME NEW g \in [SUBSET S -> Int], NEW s \in SUBSET S, s # {}
      PROVE  /\ Choice(s) \in S /\ f[Choice(s)] \in Int
             /\ s \ {Choice(s)} \in SUBSET S
             /\ g[s \ {Choice(s)}] \in Int
             /\ Sizes(S)[s \ {Choice(s)}] < Sizes(S)[s]
  <2>1. Choice(s) \in s
    BY <1>2, ChoiceIn
  <2>2. Cardinality(s \ {Choice(s)}) < Cardinality(s)
    BY <2>1, SizeTypes
  <2> QED BY <2>1, <2>2 DEF Sizes
<1>3. ASSUME NEW g \in [SUBSET S -> Int]
      PROVE  [s \in SUBSET S |-> IF s = {} THEN 0 ELSE f[Choice(s)] + g[s \ {Choice(s)}]]
               \in [SUBSET S -> Int]
  <2>1. ASSUME NEW s \in SUBSET S
        PROVE  (IF s = {} THEN 0 ELSE f[Choice(s)] + g[s \ {Choice(s)}]) \in Int
    <3>1. CASE s = {}
      BY <3>1
    <3>2. CASE s # {}
      <4>1. f[Choice(s)] \in Int /\ g[s \ {Choice(s)}] \in Int
        BY <1>2, <3>2
      <4> QED BY <3>2, <4>1
    <3> QED BY <3>1, <3>2
  <2> QED BY <2>1
<1>4. Sums(f, S) \in [[SUBSET S -> Int] -> [SUBSET S -> Int]]
  BY <1>3 DEF Sums
<1>5. ASSUME NEW g \in [SUBSET S -> Int], NEW h \in [SUBSET S -> Int], NEW s \in SUBSET S,
             \A t \in SUBSET S : Sizes(S)[t] < Sizes(S)[s] => g[t] = h[t]
      PROVE  Sums(f, S)[g][s] = Sums(f, S)[h][s]
  <2>1. s # {} => g[s \ {Choice(s)}] = h[s \ {Choice(s)}]
    BY <1>2, <1>5
  <2> QED BY <2>1 DEF Sums
<1> QED BY <1>1, <1>4, <1>5 DEF Recursion

LEMMA SumIs ==
  ASSUME NEW S, IsFiniteSet(S), NEW f, \A x \in S : f[x] \in Int
  PROVE  \E g : Solution(g, f, S) /\ Sum(f, S) = g[S]
<1> DEFINE Is(g) == g = [s \in SUBSET S |->
                          IF s = {} THEN 0 ELSE f[Choice(s)] + g[s \ {Choice(s)}]]
           sum == CHOOSE g : Is(g)
<1>1. Sum(f, S) = sum[S]
  BY DEF Sum, MapThenSumSet, MapThenFoldSet, Choice
<1>2. \E g \in [SUBSET S -> Int] : g = Sums(f, S)[g]
  <2>1. Int # {}
    OBVIOUS
  <2>2. Recursion(Sums(f, S), Sizes(S), SUBSET S, Int)
    BY SumsRecursion
  <2> HIDE DEF Is, sum
  <2> QED BY <2>1, <2>2, RecursionSolved
<1>3. \E g : Is(g)
  BY <1>2 DEF Sums
<1>4. Is(sum)
  <2> HIDE DEF Is
  <2> QED BY <1>3
<1> HIDE DEF sum
<1>5. SUBSET S \subseteq {s \in SUBSET S : sum[s] \in Int}
  <2> DEFINE T == {s \in SUBSET S : sum[s] \in Int}
  <2>1. ASSUME NEW s \in SUBSET S, \A t \in SUBSET S : Sizes(S)[t] < Sizes(S)[s] => t \in T
        PROVE  s \in T
    <3>1. CASE s = {}
      BY <1>4, <3>1
    <3>2. CASE s # {}
      <4>1. Choice(s) \in s
        BY <3>2, ChoiceIn
      <4>2. Sizes(S)[s \ {Choice(s)}] < Sizes(S)[s]
        BY <4>1, SizeTypes DEF Sizes
      <4>3. s \ {Choice(s)} \in T
        BY <2>1, <4>2
      <4>4. sum[s] = f[Choice(s)] + sum[s \ {Choice(s)}]
        BY <1>4, <3>2
      <4> QED BY <4>1, <4>3, <4>4
    <3> QED BY <3>1, <3>2
  <2>2. Sizes(S) \in [SUBSET S -> Nat]
    BY SizeTypes DEF Sizes
  <2> HIDE DEF T
  <2>3. SUBSET S \subseteq T
    BY <2>1, <2>2, RankInduction
  <2> QED BY <2>3 DEF T
<1>6. sum \in [SUBSET S -> Int]
  BY <1>4, <1>5
<1>7. sum = Sums(f, S)[sum]
  BY <1>4, <1>6 DEF Sums
<1> QED BY <1>1, <1>6, <1>7 DEF Solution

LEMMA SolutionAt ==
  ASSUME NEW S, NEW f, NEW g, Solution(g, f, S), NEW s \in SUBSET S
  PROVE  /\ g[s] \in Int
         /\ g[s] = IF s = {} THEN 0 ELSE f[Choice(s)] + g[s \ {Choice(s)}]
<1>1. g \in [SUBSET S -> Int] /\ g = Sums(f, S)[g]
  BY DEF Solution
<1>2. Sums(f, S)[g] =
        [t \in SUBSET S |-> IF t = {} THEN 0 ELSE f[Choice(t)] + g[t \ {Choice(t)}]]
  BY <1>1 DEF Sums
<1>3. g = [t \in SUBSET S |-> IF t = {} THEN 0 ELSE f[Choice(t)] + g[t \ {Choice(t)}]]
  BY <1>1, <1>2, Zenon
<1> QED BY <1>1, <1>3

(* It does not matter of which set s is a part.                             *)
LEMMA SumOfPart ==
  ASSUME NEW S, IsFiniteSet(S), NEW f, \A x \in S : f[x] \in Int,
         NEW g, Solution(g, f, S), NEW s \in SUBSET S
  PROVE  Sum(f, s) = g[s]
<1>1. IsFiniteSet(s) /\ \A x \in s : f[x] \in Int
  BY SizeTypes
<1>2. PICK h : Solution(h, f, s) /\ Sum(f, s) = h[s]
  BY <1>1, SumIs
<1> DEFINE T == {t \in SUBSET s : g[t] = h[t]}
<1>3. ASSUME NEW t \in SUBSET s, \A u \in SUBSET s : Sizes(s)[u] < Sizes(s)[t] => u \in T
      PROVE  t \in T
  <2>0. t \in SUBSET S
    OBVIOUS
  <2>1. g[t] = IF t = {} THEN 0 ELSE f[Choice(t)] + g[t \ {Choice(t)}]
    BY <2>0, SolutionAt
  <2>2. h[t] = IF t = {} THEN 0 ELSE f[Choice(t)] + h[t \ {Choice(t)}]
    BY <1>2, SolutionAt
  <2>3. CASE t = {}
    BY <2>1, <2>2, <2>3
  <2>4. CASE t # {}
    <3>1. Choice(t) \in t
      BY <2>4, ChoiceIn
    <3>2. Sizes(s)[t \ {Choice(t)}] < Sizes(s)[t]
      BY <1>1, <3>1, SizeTypes DEF Sizes
    <3>3. t \ {Choice(t)} \in T
      BY <1>3, <3>2
    <3> QED BY <2>1, <2>2, <2>4, <3>3
  <2> QED BY <2>3, <2>4
<1>4. Sizes(s) \in [SUBSET s -> Nat]
  BY <1>1, SizeTypes DEF Sizes
<1> HIDE DEF T
<1>5. SUBSET s \subseteq T
  BY <1>3, <1>4, RankInduction
<1>6. s \in T
  BY <1>5
<1> QED BY <1>2, <1>6 DEF T

LEMMA SumType ==
  ASSUME NEW S, IsFiniteSet(S), NEW f, \A x \in S : f[x] \in Int
  PROVE  Sum(f, S) \in Int
<1>1. PICK g : Solution(g, f, S) /\ Sum(f, S) = g[S]
  BY SumIs
<1>2. S \in SUBSET S
  OBVIOUS
<1>3. g[S] \in Int
  BY <1>1, <1>2, SolutionAt
<1> QED BY <1>1, <1>3

LEMMA SumEmpty == ASSUME NEW f PROVE Sum(f, {}) = 0
<1>1. IsFiniteSet({}) /\ \A x \in {} : f[x] \in Int
  BY FS_EmptySet
<1>2. PICK g : Solution(g, f, {}) /\ Sum(f, {}) = g[{}]
  BY <1>1, SumIs
<1>3. {} \in SUBSET {}
  OBVIOUS
<1> QED BY <1>2, <1>3, SolutionAt

LEMMA SumChoice ==
  ASSUME NEW S, IsFiniteSet(S), NEW f, \A x \in S : f[x] \in Int, S # {}
  PROVE  Sum(f, S) = f[Choice(S)] + Sum(f, S \ {Choice(S)})
<1>1. PICK g : Solution(g, f, S) /\ Sum(f, S) = g[S]
  BY SumIs
<1>0. S \in SUBSET S /\ S \ {Choice(S)} \in SUBSET S
  OBVIOUS
<1>2. Sum(f, S \ {Choice(S)}) = g[S \ {Choice(S)}]
  BY <1>0, <1>1, SumOfPart
<1>3. g[S] = f[Choice(S)] + g[S \ {Choice(S)}]
  BY <1>0, <1>1, SolutionAt
<1> QED BY <1>1, <1>2, <1>3

(* Any element may be taken out first.                                      *)
LEMMA SumTake ==
  ASSUME NEW S, IsFiniteSet(S), NEW f, \A x \in S : f[x] \in Int, NEW x \in S
  PROVE  Sum(f, S) = f[x] + Sum(f, S \ {x})
<1> DEFINE T == {s \in SUBSET S : \A e \in s : Sum(f, s) = f[e] + Sum(f, s \ {e})}
<1>1. ASSUME NEW s \in SUBSET S, \A t \in SUBSET S : Sizes(S)[t] < Sizes(S)[s] => t \in T,
             NEW e \in s
      PROVE  Sum(f, s) = f[e] + Sum(f, s \ {e})
  <2> DEFINE c == Choice(s)
  <2>1. c \in s
    BY ChoiceIn
  <2> HIDE DEF c
  <2>2. /\ IsFiniteSet(s) /\ IsFiniteSet(s \ {c}) /\ IsFiniteSet(s \ {e})
        /\ IsFiniteSet((s \ {c}) \ {e})
        /\ \A d \in s : f[d] \in Int
    BY SizeTypes
  <2>3. Sum(f, s) = f[c] + Sum(f, s \ {c})
    BY <2>1, <2>2, SumChoice DEF c
  <2>4. CASE c = e
    BY <2>3, <2>4
  <2>5. CASE c # e
    <3>1. Sizes(S)[s \ {c}] < Sizes(S)[s] /\ Sizes(S)[s \ {e}] < Sizes(S)[s]
      BY <2>1, SizeTypes DEF Sizes
    <3>2. s \ {c} \in T /\ s \ {e} \in T
      BY <1>1, <3>1
    <3>3. Sum(f, s \ {c}) = f[e] + Sum(f, (s \ {c}) \ {e})
      BY <2>5, <3>2
    <3>4. Sum(f, s \ {e}) = f[c] + Sum(f, (s \ {e}) \ {c})
      BY <2>1, <2>5, <3>2
    <3>5. (s \ {e}) \ {c} = (s \ {c}) \ {e}
      OBVIOUS
    <3>6. Sum(f, (s \ {c}) \ {e}) \in Int /\ f[c] \in Int /\ f[e] \in Int
      BY <2>1, <2>2, SumType
    <3>7. Sum(f, s \ {e}) = f[c] + Sum(f, (s \ {c}) \ {e})
      BY <3>4, <3>5
    <3> HIDE DEF T
    <3> QED BY <2>3, <3>3, <3>6, <3>7
  <2> QED BY <2>4, <2>5
<1>2. \A s \in SUBSET S :
        (\A t \in SUBSET S : Sizes(S)[t] < Sizes(S)[s] => t \in T) => s \in T
  BY <1>1
<1>3. Sizes(S) \in [SUBSET S -> Nat]
  BY SizeTypes DEF Sizes
<1>4. SUBSET S \subseteq T
  <2> HIDE DEF T
  <2> QED BY <1>2, <1>3, RankInduction
<1>5. S \in T
  BY <1>4
<1> QED BY <1>5

LEMMA SumAdd ==
  ASSUME NEW S, IsFiniteSet(S), NEW x, x \notin S,
         NEW f, \A y \in S \cup {x} : f[y] \in Int
  PROVE  Sum(f, S \cup {x}) = f[x] + Sum(f, S)
<1>1. IsFiniteSet(S \cup {x})
  BY FS_AddElement
<1>2. (S \cup {x}) \ {x} = S
  OBVIOUS
<1>3. Sum(f, S \cup {x}) = f[x] + Sum(f, (S \cup {x}) \ {x})
  BY <1>1, SumTake
<1> QED BY <1>2, <1>3

LEMMA SumUnion ==
  ASSUME NEW S, NEW R, IsFiniteSet(S), IsFiniteSet(R), S \cap R = {},
         NEW f, \A x \in S \cup R : f[x] \in Int
  PROVE  Sum(f, S \cup R) = Sum(f, S) + Sum(f, R)
<1> DEFINE Family == {T \in SUBSET R : Sum(f, S \cup T) = Sum(f, S) + Sum(f, T)}
<1>1. {} \in Family
  <2>1. S \cup {} = S /\ Sum(f, S) \in Int
    BY SumType
  <2> QED BY <2>1, SumEmpty
<1>2. ASSUME NEW T \in SUBSET R, NEW x \in R \ T, T \in Family
      PROVE  T \cup {x} \in Family
  <2>1. IsFiniteSet(T) /\ IsFiniteSet(S \cup T)
    BY FS_Subset, FS_Union
  <2>2. /\ Sum(f, T) \in Int /\ Sum(f, S) \in Int /\ f[x] \in Int
        /\ Sum(f, S \cup T) = Sum(f, S) + Sum(f, T)
    BY <1>2, <2>1, SumType
  <2>3. Sum(f, T \cup {x}) = f[x] + Sum(f, T)
    BY <2>1, SumAdd
  <2>4. Sum(f, (S \cup T) \cup {x}) = f[x] + Sum(f, S \cup T)
    BY <2>1, SumAdd
  <2>5. (S \cup T) \cup {x} = S \cup (T \cup {x})
    OBVIOUS
  <2>6. Sum(f, S \cup (T \cup {x})) = Sum(f, S) + Sum(f, T \cup {x})
    <3>1. Sum(f, S \cup (T \cup {x})) = f[x] + Sum(f, S \cup T)
      BY <2>4, <2>5
    <3> HIDE DEF Family
    <3> QED BY <2>2, <2>3, <3>1
  <2> QED BY <2>6
<1>3. R \in Family
  <2> HIDE DEF Family
  <2> QED BY <1>1, <1>2, SubsetInduction
<1> QED BY <1>3

(* Sums of smaller numbers.                                                 *)
LEMMA SumLess ==
  ASSUME NEW S, IsFiniteSet(S), NEW f, NEW g,
         \A x \in S : f[x] \in Int /\ g[x] \in Int /\ f[x] <= g[x]
  PROVE  Sum(f, S) <= Sum(g, S)
<1> DEFINE Family == {T \in SUBSET S : Sum(f, T) <= Sum(g, T)}
<1>1. {} \in Family
  BY SumEmpty
<1>2. ASSUME NEW T \in SUBSET S, NEW x \in S \ T, T \in Family
      PROVE  T \cup {x} \in Family
  <2>1. IsFiniteSet(T)
    BY FS_Subset
  <2>2. /\ Sum(f, T) \in Int /\ Sum(g, T) \in Int /\ Sum(f, T) <= Sum(g, T)
        /\ f[x] \in Int /\ g[x] \in Int /\ f[x] <= g[x]
    BY <1>2, <2>1, SumType
  <2>3. Sum(f, T \cup {x}) = f[x] + Sum(f, T) /\ Sum(g, T \cup {x}) = g[x] + Sum(g, T)
    BY <2>1, SumAdd
  <2>4. Sum(f, T \cup {x}) <= Sum(g, T \cup {x})
    BY <2>2, <2>3
  <2> QED BY <2>4
<1>3. S \in Family
  <2> HIDE DEF Family
  <2> QED BY <1>1, <1>2, SubsetInduction
<1> QED BY <1>3

(* Sums of natural numbers, over more of them.                              *)
LEMMA SumNat ==
  ASSUME NEW S, IsFiniteSet(S), NEW f, \A x \in S : f[x] \in Nat
  PROVE  Sum(f, S) \in Nat
<1> DEFINE Family == {T \in SUBSET S : Sum(f, T) \in Nat}
<1>1. {} \in Family
  BY SumEmpty
<1>2. ASSUME NEW T \in SUBSET S, NEW x \in S \ T, T \in Family
      PROVE  T \cup {x} \in Family
  <2>1. IsFiniteSet(T)
    BY FS_Subset
  <2>4. \A y \in T \cup {x} : f[y] \in Int
    OBVIOUS
  <2>2. Sum(f, T \cup {x}) = f[x] + Sum(f, T)
    BY <2>1, <2>4, SumAdd
  <2>3. Sum(f, T \cup {x}) \in Nat
    BY <1>2, <2>2
  <2> QED BY <2>3
<1>3. S \in Family
  <2> HIDE DEF Family
  <2> QED BY <1>1, <1>2, SubsetInduction
<1> QED BY <1>3

LEMMA SumMore ==
  ASSUME NEW S, IsFiniteSet(S), NEW T \in SUBSET S, NEW f, \A x \in S : f[x] \in Nat
  PROVE  Sum(f, T) <= Sum(f, S)
<1>1. IsFiniteSet(T) /\ IsFiniteSet(S \ T) /\ T \cup (S \ T) = S
  BY FS_Subset
<1>2. Sum(f, S) = Sum(f, T) + Sum(f, S \ T)
  BY <1>1, SumUnion
<1>3. Sum(f, T) \in Nat /\ Sum(f, S \ T) \in Nat
  BY <1>1, SumNat
<1> QED BY <1>2, <1>3

-----------------------------------------------------------------------------
LEMMA MaxWithZero ==
  ASSUME NEW x \in Int
  PROVE  Max({0, x}) = IF x >= 0 THEN x ELSE 0
<1>1. \A y \in {0, x} : (IF x >= 0 THEN x ELSE 0) >= y
  OBVIOUS
<1>2. \A y \in {0, x} :
        (\A z \in {0, x} : y >= z) => y = IF x >= 0 THEN x ELSE 0
  OBVIOUS
<1> QED BY <1>1, <1>2 DEF Max

LEMMA Intervals ==
  ASSUME NEW a \in Int, NEW b \in Int, NEW c \in Int, NEW d \in Int
  PROVE  /\ c <= a /\ b <= d => a..b \in SUBSET (c..d)
         /\ a <= c /\ c <= b => (a..b) \ (a..c) = 1 + c..b
OBVIOUS

(* What an instance's days are like (see Histories).                        *)
Days == [1..Today -> [spent : Nat, synced : BOOLEAN, kept : BOOLEAN, reset : BOOLEAN]]

LEMMA SpentFacts ==
  ASSUME NEW h \in Days, NEW days \in SUBSET (1..Today)
  PROVE  /\ Spent(h, days) \in Nat
         /\ \A some \in SUBSET days :
              /\ Spent(h, some) \in Nat
              /\ Spent(h, some) <= Spent(h, days)
              /\ Spent(h, days) = Spent(h, some) + Spent(h, days \ some)
<1> DEFINE spent == [d \in 1..Today |-> h[d].spent]
<1>1. IsFiniteSet(1..Today)
  BY FS_Interval, TrendsAssumption
<1>2. IsFiniteSet(days) /\ \A d \in days : spent[d] \in Nat /\ spent[d] \in Int
  <2>1. IsFiniteSet(days)
    BY <1>1, FS_Subset
  <2>2. \A d \in 1..Today : h[d].spent \in Nat
    BY DEF Days
  <2> QED BY <2>1, <2>2
<1>3. Spent(h, days) \in Nat
  <2> HIDE DEF spent
  <2>1. Sum(spent, days) \in Nat
    BY <1>2, SumNat
  <2> QED BY <2>1 DEF Spent, spent
<1>4. ASSUME NEW some \in SUBSET days
      PROVE  /\ Spent(h, some) \in Nat
             /\ Spent(h, some) <= Spent(h, days)
             /\ Spent(h, days) = Spent(h, some) + Spent(h, days \ some)
  <2> HIDE DEF spent
  <2>1. IsFiniteSet(some) /\ IsFiniteSet(days \ some)
    BY <1>2, FS_Subset
  <2>2. Sum(spent, some) \in Nat
    BY <1>2, <2>1, SumNat
  <2>3. Sum(spent, some) <= Sum(spent, days)
    BY <1>2, SumMore
  <2>4. some \cup (days \ some) = days /\ some \cap (days \ some) = {}
    OBVIOUS
  <2>5. Sum(spent, some \cup (days \ some)) = Sum(spent, some) + Sum(spent, days \ some)
    BY <1>2, <2>1, <2>4, SumUnion
  <2> QED BY <2>2, <2>3, <2>4, <2>5 DEF Spent, spent
<1> QED BY <1>3, <1>4

-----------------------------------------------------------------------------
(* The last sync until the end of a day, 0 if there was none, and the day   *)
(* from which the upstream's count runs.                                    *)
Sync(h, day) == IF HasSnap(h, day) THEN Max(Synced(h, day)) ELSE 0
Resets(h, sync) == {1} \cup {d \in 1..sync : h[d].reset}
Began(h, sync) == Max(Resets(h, sync))

LEMMA SyncFacts ==
  ASSUME NEW h, NEW day \in Nat
  PROVE  /\ Sync(h, day) \in 0..day
         /\ HasSnap(h, day) <=> Sync(h, day) # 0
         /\ \A d \in Synced(h, day) : d <= Sync(h, day)
         /\ HasSnap(h, day) => Sync(h, day) \in Synced(h, day)
<1>1. Synced(h, day) \in SUBSET Nat /\ \A d \in Synced(h, day) : d >= 1 /\ d <= day
  BY DEF Synced
<1>2. CASE Synced(h, day) = {}
  BY <1>2 DEF Sync, HasSnap
<1>3. CASE Synced(h, day) # {}
  <2>1. /\ Max(Synced(h, day)) \in Synced(h, day)
        /\ \A d \in Synced(h, day) : d <= Max(Synced(h, day))
    BY <1>1, <1>3, MaxIs
  <2>2. HasSnap(h, day)
    BY <1>3 DEF HasSnap
  <2>3. Sync(h, day) = Max(Synced(h, day))
    BY <2>2 DEF Sync
  <2> QED BY <1>1, <2>1, <2>2, <2>3
<1> QED BY <1>2, <1>3

LEMMA SyncGrows ==
  ASSUME NEW h, NEW day \in Nat, NEW later \in Nat, day <= later
  PROVE  Sync(h, day) <= Sync(h, later) /\ (HasSnap(h, day) => HasSnap(h, later))
<1>1. Synced(h, day) \subseteq Synced(h, later)
  BY DEF Synced
<1>2. HasSnap(h, day) => HasSnap(h, later)
  BY <1>1 DEF HasSnap
<1>3. CASE ~HasSnap(h, day)
  <2>1. Sync(h, day) = 0 /\ Sync(h, later) \in 0..later
    BY <1>3, SyncFacts
  <2> QED BY <1>2, <2>1
<1>4. CASE HasSnap(h, day)
  <2>1. Sync(h, day) \in Synced(h, later)
    BY <1>1, <1>4, SyncFacts
  <2>2. Sync(h, day) <= Sync(h, later)
    BY <2>1, SyncFacts
  <2> QED BY <1>2, <2>2
<1> QED BY <1>3, <1>4

LEMMA BeganFacts ==
  ASSUME NEW h, NEW sync \in Nat, sync >= 1
  PROVE  /\ Began(h, sync) \in 1..sync
         /\ Began(h, sync) \in Resets(h, sync)
         /\ \A d \in Resets(h, sync) : d <= Began(h, sync)
<1>1. /\ Resets(h, sync) \in SUBSET Nat /\ Resets(h, sync) # {}
      /\ \A d \in Resets(h, sync) : d >= 1 /\ d <= sync
  BY DEF Resets
<1>2. /\ Max(Resets(h, sync)) \in Resets(h, sync)
      /\ \A d \in Resets(h, sync) : d <= Max(Resets(h, sync))
  BY <1>1, MaxIs
<1> QED BY <1>1, <1>2 DEF Began

LEMMA LastSnapIs ==
  ASSUME NEW h, NEW day \in Nat, HasSnap(h, day)
  PROVE  LastSnap(h, day) = Spent(h, Began(h, Sync(h, day))..Sync(h, day))
BY DEF LastSnap, Began, Resets, Sync

(* A day's growth is at most what was spent between the last syncs until    *)
(* the day before and until this one: it never counts a day twice.          *)
LEMMA GrowthBound ==
  ASSUME NEW h \in Days, NEW first, NEW day \in 1..Today
  PROVE  /\ Growth(h, first, day) \in Nat
         /\ Growth(h, first, day) <= Spent(h, 1 + Sync(h, day - 1)..Sync(h, day))
<1> DEFINE p == Sync(h, day - 1)
           s == Sync(h, day)
           between == Spent(h, 1 + p..s)
<1>1. /\ p \in 0..day - 1 /\ s \in 0..day /\ p <= s /\ s <= Today
      /\ HasSnap(h, day) <=> s # 0
      /\ HasSnap(h, day - 1) <=> p # 0
  BY SyncFacts, SyncGrows, TrendsAssumption
<1>2. between \in Nat
  <2>1. 1 + p..s \in SUBSET (1..Today)
    <3> HIDE DEF p, s
    <3> QED BY <1>1, Intervals, TrendsAssumption
  <2> QED BY <2>1, SpentFacts
<1> HIDE DEF p, s, between
<1>3. CASE ~HasSnap(h, day)
  BY <1>2, <1>3 DEF Growth, between, p, s
<1>4. CASE HasSnap(h, day)
  <2> DEFINE b == Began(h, s)
  <2>1. b \in 1..s /\ b \in Resets(h, s) /\ \A d \in Resets(h, s) : d <= b
    BY <1>1, <1>4, BeganFacts
  <2>2. LastSnap(h, day) = Spent(h, b..s)
    BY <1>4, LastSnapIs DEF s
  <2> HIDE DEF b
  <2>3. Spent(h, b..s) \in Nat
    <3>1. b..s \in SUBSET (1..Today)
      BY <1>1, <2>1, Intervals, TrendsAssumption
    <3> QED BY <3>1, SpentFacts
  <2>4. CASE ~HasSnap(h, day - 1)
    <3>1. Growth(h, first, day) = Spent(h, b..s)
      BY <1>4, <2>2, <2>4 DEF Growth
    <3>2. b..s \in SUBSET (1 + p..s) /\ 1 + p..s \in SUBSET (1..Today)
      BY <1>1, <2>1, <2>4, Intervals, TrendsAssumption
    <3>3. Spent(h, b..s) <= between
      BY <3>2, SpentFacts DEF between
    <3> QED BY <2>3, <3>1, <3>3 DEF between, p, s
  <2>5. CASE HasSnap(h, day - 1)
    <3> DEFINE c == Began(h, p)
    <3>1. c \in 1..p /\ c \in Resets(h, p) /\ \A d \in Resets(h, p) : d <= c
      BY <1>1, <2>5, BeganFacts
    <3>2. LastSnap(h, day - 1) = Spent(h, c..p)
      BY <2>5, LastSnapIs DEF p
    <3> HIDE DEF c
    <3>3. Spent(h, c..p) \in Nat
      <4>1. c..p \in SUBSET (1..Today)
        BY <1>1, <3>1, Intervals, TrendsAssumption
      <4> QED BY <4>1, SpentFacts
    <3>4. Growth(h, first, day) = Max({0, Spent(h, b..s) - Spent(h, c..p)})
      BY <1>4, <2>2, <2>5, <3>2 DEF Growth
    <3>5. Spent(h, b..s) - Spent(h, c..p) <= between
      <4>1. CASE b > p
        <5>1. b..s \in SUBSET (1 + p..s) /\ 1 + p..s \in SUBSET (1..Today)
          BY <1>1, <2>1, <4>1, Intervals, TrendsAssumption
        <5>2. Spent(h, b..s) <= between
          BY <5>1, SpentFacts DEF between
        <5> QED BY <1>2, <2>3, <3>3, <5>2
      <4>2. CASE b <= p
        <5>1. b \in Resets(h, p) /\ c \in Resets(h, s)
          BY <1>1, <2>1, <3>1, <4>2 DEF Resets
        <5>2. b = c
          BY <2>1, <3>1, <5>1
        <5>3. b..p \in SUBSET (b..s) /\ b..s \in SUBSET (1..Today) /\ (b..s) \ (b..p) = 1 + p..s
          BY <1>1, <2>1, <4>2, Intervals, TrendsAssumption
        <5>4. Spent(h, b..s) = Spent(h, b..p) + Spent(h, (b..s) \ (b..p))
          BY <5>3, SpentFacts
        <5>5. Spent(h, b..s) = Spent(h, c..p) + between
          BY <5>2, <5>3, <5>4 DEF between
        <5> QED BY <1>2, <3>3, <5>5
      <4> QED BY <1>1, <2>1, <4>1, <4>2
    <3>6. /\ Max({0, Spent(h, b..s) - Spent(h, c..p)}) \in Nat
          /\ Max({0, Spent(h, b..s) - Spent(h, c..p)}) <= between
      <4> DEFINE grown == Spent(h, b..s) - Spent(h, c..p)
      <4>1. grown \in Int /\ grown <= between
        BY <2>3, <3>3, <3>5
      <4> HIDE DEF grown
      <4>2. Max({0, grown}) = IF grown >= 0 THEN grown ELSE 0
        BY <4>1, MaxWithZero
      <4>3. Max({0, grown}) \in Nat /\ Max({0, grown}) <= between
        BY <1>2, <4>1, <4>2
      <4> QED BY <4>3 DEF grown
    <3> QED BY <3>4, <3>6 DEF between, p, s
  <2> QED BY <2>4, <2>5
<1> QED BY <1>3, <1>4

(* The growth of a period, one day at a time.                               *)
LEMMA PeriodGrowth ==
  ASSUME NEW h \in Days, NEW first \in 1..Today, NEW f,
         \A d \in first..Today : f[d] = Growth(h, first, d)
  PROVE  \A last \in first..Today :
           Sum(f, first..last) <= Spent(h, 1 + Sync(h, first - 1)..Sync(h, last))
<1> USE TrendsAssumption
<1> DEFINE from == Sync(h, first - 1)
           good == {n \in Nat : first - 1 + n <= Today =>
                      Sum(f, first..first - 1 + n) <=
                        Spent(h, 1 + from..Sync(h, first - 1 + n))}
<1>0. from \in 0..first - 1
  BY SyncFacts
<1>1. 0 \in good
  <2>1. first..first - 1 + 0 = {}
    OBVIOUS
  <2>2. Sum(f, first..first - 1 + 0) = 0
    BY <2>1, SumEmpty
  <2>3. 1 + from..Sync(h, first - 1 + 0) \in SUBSET (1..Today)
    <3>1. first - 1 + 0 = first - 1
      OBVIOUS
    <3>2. 1 + from..from \in SUBSET (1..Today)
      <4> HIDE DEF from
      <4> QED BY <1>0, Intervals
    <3> QED BY <3>1, <3>2
  <2>4. Spent(h, 1 + from..Sync(h, first - 1 + 0)) \in Nat
    <3> HIDE DEF from
    <3> QED BY <2>3, SpentFacts
  <2> QED BY <2>2, <2>4
<1>2. ASSUME NEW n \in Nat, n \in good
      PROVE  n + 1 \in good
  <2> SUFFICES ASSUME first - 1 + (n + 1) <= Today
               PROVE  Sum(f, first..first - 1 + (n + 1)) <=
                        Spent(h, 1 + from..Sync(h, first - 1 + (n + 1)))
    OBVIOUS
  <2> DEFINE last == first - 1 + n
             day == first + n
             p == Sync(h, last)
             s == Sync(h, day)
  <2>1. /\ last \in Nat /\ day \in first..Today /\ day = last + 1 /\ last = day - 1
        /\ first - 1 + (n + 1) = day /\ last <= Today
    OBVIOUS
  <2>2. Sum(f, first..last) <= Spent(h, 1 + from..p)
    BY <1>2
  <2> HIDE DEF good, last, day
  <2>3. p \in 0..last /\ s \in 0..day /\ p <= s /\ from <= p
    BY <2>1, SyncFacts, SyncGrows DEF last
  <2>4. \A d \in first..Today : f[d] \in Int
    <3>1. \A d \in first..Today : Growth(h, first, d) \in Nat
      BY GrowthBound
    <3> QED BY <3>1
  <2>5. f[day] <= Spent(h, 1 + p..s)
    <3>1. day \in 1..Today
      BY <2>1
    <3>2. Growth(h, first, day) <= Spent(h, 1 + Sync(h, day - 1)..Sync(h, day))
      BY <3>1, GrowthBound
    <3> QED BY <2>1, <3>2
  <2> HIDE DEF p, s, from
  <2>6. Sum(f, first..day) = f[day] + Sum(f, first..last)
    <3>1. IsFiniteSet(first..last)
      BY FS_Interval, <2>1
    <3>2. first..day = (first..last) \cup {day} /\ day \notin first..last
      BY <2>1
    <3>3. \A d \in (first..last) \cup {day} : f[d] \in Int
      BY <2>1, <2>4
    <3>4. Sum(f, (first..last) \cup {day}) = f[day] + Sum(f, first..last)
      BY <3>1, <3>2, <3>3, SumAdd
    <3> QED BY <3>2, <3>4
  <2>7. Sum(f, first..last) \in Int /\ f[day] \in Int
    <3>1. IsFiniteSet(first..last) /\ \A d \in first..last : f[d] \in Int
      BY FS_Interval, <2>1, <2>4
    <3> QED BY <2>1, <2>4, <3>1, SumType
  <2>8. /\ Spent(h, 1 + from..s) = Spent(h, 1 + from..p) + Spent(h, 1 + p..s)
        /\ Spent(h, 1 + from..p) \in Nat /\ Spent(h, 1 + p..s) \in Nat
    <3>1. 1 + from..s \in SUBSET (1..Today)
      BY <1>0, <2>1, <2>3, Intervals
    <3>2. 1 + from..p \in SUBSET (1 + from..s)
      BY <1>0, <2>3, Intervals
    <3>3. (1 + from..s) \ (1 + from..p) = 1 + p..s
      BY <1>0, <2>3
    <3>4. 1 + p..s \in SUBSET (1 + from..s)
      BY <1>0, <2>3, Intervals
    <3>5. Spent(h, 1 + from..s) =
            Spent(h, 1 + from..p) + Spent(h, (1 + from..s) \ (1 + from..p))
      BY <3>1, <3>2, SpentFacts
    <3>6. Spent(h, 1 + from..p) \in Nat /\ Spent(h, 1 + p..s) \in Nat
      BY <3>1, <3>2, <3>4, SpentFacts
    <3> QED BY <3>3, <3>5, <3>6
  <2>9. Sum(f, first..day) <= Spent(h, 1 + from..s)
    BY <2>2, <2>5, <2>6, <2>7, <2>8 DEF p
  <2> QED BY <2>1, <2>9 DEF s
<1>3. Nat \subseteq good
  <2> HIDE DEF good
  <2> QED BY <1>1, <1>2, NumberInduction
<1> TAKE last \in first..Today
<1>4. last - first + 1 \in Nat /\ first - 1 + (last - first + 1) = last
  OBVIOUS
<1>5. last - first + 1 \in good
  BY <1>3, <1>4
<1> QED BY <1>4, <1>5

LEMMA TrendType ==
  ASSUME NEW h \in Days, NEW first \in 1..Today, NEW last \in first..Today
  PROVE  \A d \in first..last : Trend(h, first, last)[d] \in Nat
<1>1. \A d \in 1..Today : Row(h, d) \in Nat
  BY DEF Days, Row
<1>2. \A d \in 1..Today : Growth(h, first, d) \in Nat
  BY GrowthBound
<1>3. first..last \in SUBSET (1..Today)
  BY TrendsAssumption
<1> QED BY <1>1, <1>2, <1>3 DEF Trend

(* An instance's bars make no more than was spent since the sync before.    *)
LEMMA NoMoreThanSpent ==
  ASSUME NEW h \in Days, NEW first \in 1..Today, NEW last \in first..Today
  PROVE  Sum(Trend(h, first, last), first..last) <= SpentSince(h, first, last)
<1> USE TrendsAssumption
<1> DEFINE trend == Trend(h, first, last)
           from == Sync(h, first - 1)
<1>0. /\ IsFiniteSet(first..last)
      /\ \A d \in first..last : trend[d] \in Int
      /\ first..last \in SUBSET (1..Today)
  BY FS_Interval, TrendType
<1>1. SpentSince(h, first, last) = Spent(h, 1 + from..last)
  BY DEF SpentSince, Sync
<1>2. /\ from \in 0..first - 1
      /\ 1 + from..last \in SUBSET (1..Today)
  <2>1. from \in 0..first - 1
    BY SyncFacts
  <2> HIDE DEF from
  <2> QED BY <2>1, Intervals
<1>3. CASE \A d \in first..last : ~HasRow(h, d)
  <2>1. \A d \in first..last : trend[d] = Growth(h, first, d)
    BY <1>3 DEF Trend
  <2> DEFINE growth == [d \in 1..Today |-> Growth(h, first, d)]
  <2>2. \A d \in first..Today : growth[d] = Growth(h, first, d)
    OBVIOUS
  <2>3. \A d \in first..last :
          trend[d] \in Int /\ growth[d] \in Int /\ trend[d] <= growth[d]
    BY <1>0, <2>1
  <2> HIDE DEF growth, trend
  <2>4. Sum(trend, first..last) <= Sum(growth, first..last)
    BY <1>0, <2>3, SumLess
  <2>5. Sum(growth, first..last) <= Spent(h, 1 + from..Sync(h, last))
    BY <2>2, PeriodGrowth
  <2>6. /\ Spent(h, 1 + from..Sync(h, last)) <= Spent(h, 1 + from..last)
        /\ Spent(h, 1 + from..last) \in Nat
        /\ Spent(h, 1 + from..Sync(h, last)) \in Nat
    <3>1. Sync(h, last) \in 0..last
      BY SyncFacts
    <3>2. 1 + from..Sync(h, last) \in SUBSET (1 + from..last)
      <4> HIDE DEF from
      <4> QED BY <1>2, <3>1, Intervals
    <3> HIDE DEF from
    <3> QED BY <1>2, <3>2, SpentFacts
  <2>7. Sum(trend, first..last) \in Int /\ Sum(growth, first..last) \in Int
    BY <1>0, <2>3, SumType
  <2>8. Sum(trend, first..last) <= Spent(h, 1 + from..last)
    <3> HIDE DEF from
    <3> QED BY <2>4, <2>5, <2>6, <2>7
  <2> QED BY <1>1, <2>8 DEF trend
<1>4. CASE ~(\A d \in first..last : ~HasRow(h, d))
  <2> DEFINE spent == [d \in 1..Today |-> h[d].spent]
  <2>1. \A d \in 1..Today : h[d].spent \in Nat
    BY DEF Days
  <2>2. \A d \in first..last : trend[d] = h[d].spent \/ trend[d] = 0
    BY <1>4 DEF Trend, Row
  <2>3. \A d \in first..last :
          trend[d] \in Int /\ spent[d] \in Int /\ trend[d] <= spent[d]
    BY <1>0, <2>1, <2>2
  <2>4. Sum(trend, first..last) <= Sum(spent, first..last)
    <3> HIDE DEF trend, spent
    <3> QED BY <1>0, <2>3, SumLess
  <2>5. Sum(spent, first..last) = Spent(h, first..last)
    BY DEF Spent
  <2>6. /\ Spent(h, first..last) <= Spent(h, 1 + from..last)
        /\ Spent(h, 1 + from..last) \in Nat
        /\ Spent(h, first..last) \in Nat
    <3>1. first..last \in SUBSET (1 + from..last)
      <4> HIDE DEF from
      <4> QED BY <1>2, Intervals
    <3> HIDE DEF from
    <3> QED BY <1>2, <3>1, SpentFacts
  <2>7. Sum(trend, first..last) \in Int
    <3> HIDE DEF trend
    <3> QED BY <1>0, SumType
  <2>8. Sum(trend, first..last) <= Spent(h, 1 + from..last)
    <3> HIDE DEF from, trend, spent
    <3> QED BY <2>4, <2>5, <2>6, <2>7
  <2> QED BY <1>1, <2>8 DEF trend
<1> QED BY <1>3, <1>4

TrendsType == instances \in Seq(Histories)

(* The bars of a day: no instance is drawn twice, or left out.              *)
LEMMA ChartLemma == TrendsType => ChartAddsUp
<1> SUFFICES ASSUME TrendsType, NEW first \in 1..Today, NEW last \in first..Today
             PROVE  /\ \A day \in first..last :
                         Bars(first, last, day) = Point(first, last, day)
                    /\ \A i \in DOMAIN instances :
                         Totals(first, last)[i] <= SpentSince(instances[i], first, last)
  BY DEF ChartAddsUp
<1>1. \A i \in DOMAIN instances : instances[i] \in Days
  BY TrendsAssumption DEF TrendsType, Days
<1>2. ASSUME NEW day \in first..last
      PROVE  Bars(first, last, day) = Point(first, last, day)
  <2> DEFINE shown == Selected(first, last)
             rest == Others(first, last)
             f == [i \in DOMAIN instances |-> Trend(instances[i], first, last)[day]]
  <2>1. DOMAIN instances = 1..Len(instances) /\ Len(instances) \in Nat
    BY DEF TrendsType
  <2>2. IsFiniteSet(DOMAIN instances)
    BY <2>1, FS_Interval
  <2>3. /\ shown \in SUBSET DOMAIN instances
        /\ rest = DOMAIN instances \ shown
    BY DEF Selected, Ranked, Others
  <2>4. \A i \in DOMAIN instances : f[i] \in Int
    BY <1>1, TrendType
  <2>5. Sum(f, shown \cup rest) = Sum(f, shown) + Sum(f, rest)
    <3>1. IsFiniteSet(shown) /\ IsFiniteSet(rest)
      BY <2>2, <2>3, FS_Subset
    <3>2. shown \cap rest = {} /\ shown \cup rest \in SUBSET DOMAIN instances
      BY <2>3
    <3> HIDE DEF f, shown, rest
    <3> QED BY <2>4, <3>1, <3>2, SumUnion
  <2>6. shown \cup rest = DOMAIN instances
    BY <2>3
  <2>7. Sum(f, DOMAIN instances) = Sum(f, shown) + Sum(f, rest)
    BY <2>5, <2>6
  <2> QED BY <2>7 DEF Bars, Point
<1>3. ASSUME NEW i \in DOMAIN instances
      PROVE  Totals(first, last)[i] <= SpentSince(instances[i], first, last)
  BY <1>1, NoMoreThanSpent DEF Totals
<1> QED BY <1>2, <1>3

(* The card and the chart take the same two snapshots, unless other days of *)
(* the period have rows: then the chart shows nothing for today.            *)
LEMMA TodayLemma == TrendsType => TodayAgrees
<1> SUFFICES ASSUME TrendsType,
                    NEW i \in DOMAIN instances, NEW first \in 1..Today,
                    HasRow(instances[i], Today) \/ HasSnap(instances[i], Today - 1)
             PROVE  LET h == instances[i]
                        shown == Trend(h, first, Today)[Today]
                    IN /\ shown <= TodayCount(h)
                       /\ HasRow(h, Today) \/ ~(\E d \in first..Today : HasRow(h, d))
                            => shown = TodayCount(h)
  BY DEF TodayAgrees
<1> DEFINE h == instances[i]
           shown == Trend(h, first, Today)[Today]
           rows == {d \in first..Today : HasRow(h, d)}
<1>1. HasRow(h, Today) \/ HasSnap(h, Today - 1)
  OBVIOUS
<1>2. h \in Days
  BY TrendsAssumption DEF TrendsType, Days
<1>3. Today \in first..Today /\ Today \in 1..Today
  BY TrendsAssumption
<1>4. shown = IF rows = {} THEN Growth(h, first, Today)
              ELSE IF Today \in rows THEN Row(h, Today) ELSE 0
  BY <1>3 DEF Trend
<1>5. TodayCount(h) =
        IF HasRow(h, Today) THEN Row(h, Today) ELSE Growth(h, first, Today)
  BY <1>1 DEF TodayCount, Growth
<1>6. Growth(h, first, Today) \in Nat /\ Row(h, Today) \in Nat
  BY <1>2, <1>3, GrowthBound DEF Days, Row
<1>7. HasRow(h, Today) <=> Today \in rows
  BY <1>3
<1>8. rows = {} <=> ~(\E d \in first..Today : HasRow(h, d))
  OBVIOUS
<1> HIDE DEF h, shown, rows
<1>9. /\ shown <= TodayCount(h)
      /\ HasRow(h, Today) \/ ~(\E d \in first..Today : HasRow(h, d))
           => shown = TodayCount(h)
  BY <1>4, <1>5, <1>6, <1>7, <1>8
<1> QED BY <1>9 DEF h, shown

-----------------------------------------------------------------------------
LEMMA TimesMonotone ==
  ASSUME NEW k \in Nat, NEW a \in Nat, NEW b \in Nat, a <= b
  PROVE  k * a \in Nat /\ k * a <= k * b
<1>1. PICK c \in Nat : b = a + c
  <2>1. b - a \in Nat /\ b = a + (b - a)
    OBVIOUS
  <2> QED BY <2>1
<1>2. k * b = k * a + k * c
  BY <1>1
<1>3. k * a \in Nat /\ k * c \in Nat
  OBVIOUS
<1> QED BY <1>2, <1>3

(* The least of the multiples is the multiple of the least.                 *)
Multiples(k, R) == {k * x : x \in R}

LEMMA MinTimes ==
  ASSUME NEW R \in SUBSET Nat, R # {}, NEW k \in Nat
  PROVE  Min(Multiples(k, R)) = k * Min(R) /\ Min(R) \in Nat
<1> DEFINE K == Multiples(k, R)
<1>1. K \in SUBSET Nat /\ K # {}
  <2>1. \A x \in R : k * x \in Nat
    OBVIOUS
  <2> QED BY <2>1 DEF Multiples
<1>2. Min(R) \in R /\ \A x \in R : Min(R) <= x
  BY MinIs
<1>3. Min(K) \in K /\ \A x \in K : Min(K) <= x
  <2> HIDE DEF K
  <2> QED BY <1>1, MinIs
<1>4. PICK x \in R : Min(K) = k * x
  BY <1>3 DEF Multiples
<1>5. Min(K) <= k * Min(R)
  BY <1>2, <1>3 DEF Multiples
<1>6. k * Min(R) <= k * x
  BY <1>2, TimesMonotone
<1>7. k * x \in Nat /\ k * Min(R) \in Nat /\ Min(R) \in Nat
  <2>1. x \in Nat /\ Min(R) \in Nat
    BY <1>2
  <2>2. k * x \in Nat /\ k * Min(R) \in Nat
    BY <2>1, TimesMonotone
  <2> QED BY <2>1, <2>2
<1> HIDE DEF K
<1>8. Min(K) = k * Min(R)
  BY <1>4, <1>5, <1>6, <1>7
<1> QED BY <1>7, <1>8 DEF K

LEMMA FirstIn ==
  ASSUME NEW S \in SUBSET Nat, S # {}
  PROVE  FirstOf(S) \in S
<1>1. \E least \in S : \A x \in S : least <= x
  BY LeastNumber
<1> QED BY <1>1 DEF FirstOf

LEMMA OfferTypes ==
  ASSUME NEW u \in Upstreams
  PROVE  /\ Offering(u) \in SUBSET Nat /\ Offering(u) # {}
         /\ Reachable(u) \in SUBSET Offering(u)
         /\ u.unit \in Nat /\ u.perRequest \in BOOLEAN /\ u.tiered \in BOOLEAN
         /\ \A g \in Offering(u) :
              /\ u.offers[g].input \in Nat \cup {None}
              /\ u.offers[g].request \in Nat \cup {None}
              /\ u.offers[g].ratio \in Nat
<1>1. /\ u \in UpstreamShape
      /\ \E g \in Groups : u.offers[g].offered
      /\ Groups \subseteq Nat
  BY PricingAssumption
<1>2. u.unit \in Nat /\ u.perRequest \in BOOLEAN /\ u.tiered \in BOOLEAN
  BY <1>1 DEF UpstreamShape
<1>3. \A g \in Offering(u) :
        /\ u.offers[g].input \in Nat \cup {None}
        /\ u.offers[g].request \in Nat \cup {None}
        /\ u.offers[g].ratio \in Nat
  BY <1>1 DEF UpstreamShape, Offering
<1> QED BY <1>1, <1>2, <1>3 DEF Offering, Reachable

(* The group of which a plaza's prices are is one that offers the model.    *)
LEMMA RepresentativeIn ==
  ASSUME NEW u \in Upstreams, Convertible(u), u.kind = "plaza"
  PROVE  Representative(u) \in Offering(u)
<1> DEFINE S == Offering(u)
           effective(g) == Effective(u.offers[g])
           values == {effective(g) : g \in S}
<1>1. \A g \in S : effective(g) \in Nat
  BY OfferTypes DEF Convertible, Effective, Multiplier
<1>2. values \in SUBSET Nat /\ values # {}
  <2> HIDE DEF S, effective
  <2>1. S # {}
    BY OfferTypes DEF S
  <2> QED BY <1>1, <2>1
<1>3. PICK v \in values : \A w \in values : v <= w
  <2> HIDE DEF values
  <2> QED BY <1>2, LeastNumber
<1> DEFINE T == {g \in S : effective(g) = v}
<1>4. T \in SUBSET Nat /\ T # {}
  <2> HIDE DEF effective
  <2> QED BY <1>3, OfferTypes
<1>5. PICK g \in T : \A other \in T : g <= other
  <2> HIDE DEF T
  <2> QED BY <1>4, LeastNumber
<1>6. ASSUME NEW other \in S
      PROVE  \/ effective(g) < effective(other)
             \/ effective(g) = effective(other) /\ g <= other
  <2> HIDE DEF effective, S
  <2>1. effective(g) = v /\ v <= effective(other) /\ effective(other) \in Nat /\ v \in Nat
    BY <1>1, <1>2, <1>3
  <2>2. effective(other) = v => g <= other
    BY <1>5
  <2> QED BY <2>1, <2>2
<1>7. \E x \in Offering(u) : \A other \in Offering(u) :
        \/ Effective(u.offers[x]) < Effective(u.offers[other])
        \/ Effective(u.offers[x]) = Effective(u.offers[other]) /\ x <= other
  BY <1>6
<1> QED BY <1>7, Zenon DEF Representative

(* The one price of a convertible list.                                     *)
LEMMA BaseIs ==
  ASSUME NEW u \in Upstreams, Convertible(u), NEW first \in Offering(u)
  PROVE  /\ Price(u, first) \in Nat /\ Price(u, first) # None
         /\ \A g \in Offering(u) : Price(u, g) = Price(u, first)
<1>1. /\ \A g \in Offering(u) : Price(u, g) = Price(u, first)
      /\ Price(u, first) # None
  BY DEF Convertible, Priced
<1>2. Price(u, first) \in Nat \cup {None}
  BY OfferTypes DEF Price
<1> QED BY <1>1, <1>2

(* What a sync stores of a convertible list of any shape: its price, in     *)
(* dollars for tokens or for a request, not in the place of the other.      *)
LEMMA StoredIs ==
  ASSUME NEW u \in Upstreams, Convertible(u)
  PROVE  \E base \in Nat :
           /\ \A g \in Offering(u) : Price(u, g) = base
           /\ Stored(u).input = IF u.perRequest THEN None ELSE base * Dollars(u)
           /\ u.perRequest => Stored(u).request = base
<1> USE PricingAssumption
<1>1. CASE u.kind = "newapi"
  <2> DEFINE first == FirstOf(Offering(u))
             offer == u.offers[first]
             base == Price(u, first)
  <2>1. first \in Offering(u)
    BY FirstIn, OfferTypes
  <2>2. /\ base \in Nat /\ base # None
        /\ \A g \in Offering(u) : Price(u, g) = base
    BY <2>1, BaseIs
  <2>3. base = IF u.perRequest THEN offer.request ELSE offer.input
    BY DEF Price
  <2>4. RowOf(u) = RowOfNewapi(u)
    BY <1>1 DEF RowOf
  <2>5. /\ RowOf(u).quota_type = IF u.perRequest THEN 1 ELSE 0
        /\ RowOf(u).model_ratio = OrZero(offer.input)
        /\ RowOf(u).model_price = OrZero(offer.request)
        /\ RowOf(u).tiers =
             IF ~u.tiered THEN <<>>
             ELSE IF u.perRequest THEN <<[input |-> None, fixed_price |-> offer.request]>>
             ELSE <<[input |-> offer.input, fixed_price |-> None]>>
        /\ RowOf(u).price_input = None /\ RowOf(u).price_output = None
        /\ RowOf(u).price_per_request = None
    BY <2>4 DEF RowOfNewapi, EmptyRow
  <2>6. ~Explicit(RowOf(u))
    BY <2>5 DEF Explicit
  <2> HIDE DEF first, offer, base
  <2>7. /\ Stored(u).input = IF u.perRequest THEN None ELSE base * Dollars(u)
        /\ u.perRequest => Stored(u).request = base
    <3>1. CASE u.tiered /\ u.perRequest
      <4>1. RowOf(u).tiers = <<[input |-> None, fixed_price |-> base]>>
        BY <2>3, <2>5, <3>1
      <4>2. Stored(u) = [input |-> None, request |-> base]
        BY <2>6, <4>1 DEF Stored, NormalizedPrices
      <4> QED BY <3>1, <4>2
    <3>2. CASE u.tiered /\ ~u.perRequest
      <4>1. RowOf(u).tiers = <<[input |-> base, fixed_price |-> None]>>
        BY <2>3, <2>5, <3>2
      <4>2. Stored(u) = [input |-> base, request |-> None]
        BY <2>6, <4>1 DEF Stored, NormalizedPrices
      <4>3. base * Dollars(u) = base
        BY <2>2, <3>2 DEF Dollars
      <4> QED BY <3>2, <4>2, <4>3
    <3>3. CASE ~u.tiered /\ u.perRequest
      <4>1. Stored(u) = [input |-> None, request |-> base]
        BY <2>2, <2>3, <2>5, <2>6, <3>3 DEF Stored, NormalizedPrices, OrZero
      <4> QED BY <3>3, <4>1
    <3>4. CASE ~u.tiered /\ ~u.perRequest
      <4>1. Stored(u) = [input |-> base * u.unit, request |-> None]
        BY <2>2, <2>3, <2>5, <2>6, <3>4 DEF Stored, NormalizedPrices, OrZero
      <4>2. Dollars(u) = u.unit
        BY <1>1, <3>4 DEF Dollars
      <4> QED BY <3>4, <4>1, <4>2
    <3> QED BY <3>1, <3>2, <3>3, <3>4
  <2> QED BY <2>2, <2>7
<1>2. CASE u.kind = "plaza"
  <2> DEFINE first == Representative(u)
             offer == u.offers[first]
             base == Price(u, first)
             perRequest == u.perRequest \/ (offer.request # None /\ ~u.tiered)
  <2>1. first \in Offering(u)
    BY <1>2, RepresentativeIn
  <2>2. /\ base \in Nat /\ base # None
        /\ \A g \in Offering(u) : Price(u, g) = base
    BY <2>1, BaseIs
  <2>3. /\ base = IF u.perRequest THEN offer.request ELSE offer.input
        /\ u.perRequest => offer.input = None
    BY <1>2, <2>1 DEF Price, Convertible, Listed
  <2>4. RowOf(u) = RowOfPlaza(u)
    BY <1>2 DEF RowOf
  <2>5. /\ RowOf(u).price_input = offer.input
        /\ RowOf(u).price_per_request = IF perRequest THEN offer.request ELSE None
    BY <2>4 DEF RowOfPlaza
  <2>6. Explicit(RowOf(u))
    BY <2>2, <2>3, <2>5 DEF Explicit
  <2>7. /\ Stored(u).input = offer.input
        /\ Stored(u).request = IF perRequest THEN offer.request ELSE None
    BY <2>5, <2>6 DEF Stored, NormalizedPrices
  <2>8. base * Dollars(u) = base
    <3> HIDE DEF base
    <3> QED BY <1>2, <2>2 DEF Dollars
  <2> QED BY <2>2, <2>3, <2>7, <2>8
<1> QED BY <1>1, <1>2 DEF Convertible, Listed

(* The ratios that are stored are those of the account's groups.            *)
LEMMA RatiosAre ==
  ASSUME NEW u \in Upstreams, Faithful(u)
  PROVE  /\ Candidates(u) = Reachable(u)
         /\ \A g \in Reachable(u) : StoredRatio(u, g) = u.offers[g].ratio
<1>1. u.kind \in {"newapi", "plaza"} /\ u.answered
  BY DEF Faithful, Convertible, Listed
<1>2. \A g \in Offering(u) : u.kind = "plaza" => u.offers[g].ratio # 0
  BY DEF Faithful, Convertible, Listed
<1>3. Candidates(u) = Reachable(u)
  BY <1>1 DEF Candidates, EnableGroups, StoredGroups, Reachable
<1>4. \A g \in Reachable(u) : StoredRatio(u, g) = u.offers[g].ratio
  BY <1>2, OfferTypes DEF StoredRatio, Multiplier
<1> QED BY <1>3, <1>4

(* ... and with the least of its ratios it is what the account is charged.  *)
LEMMA ChargeIs ==
  ASSUME NEW u \in Upstreams, Faithful(u)
  PROVE  IF u.perRequest
         THEN /\ EffectiveInput(u) = None
              /\ Stored(u).request * LeastRatio(u) = Charge(u)
         ELSE EffectiveInput(u) = Charge(u) /\ Charge(u) \in Nat
<1> USE PricingAssumption
<1>1. Convertible(u) /\ Reachable(u) # {}
  BY DEF Faithful
<1>2. PICK base \in Nat :
        /\ \A g \in Offering(u) : Price(u, g) = base
        /\ Stored(u).input = IF u.perRequest THEN None ELSE base * Dollars(u)
        /\ u.perRequest => Stored(u).request = base
  BY <1>1, StoredIs
<1>3. Reachable(u) \in SUBSET Offering(u)
  BY OfferTypes
<1>4. \A g \in Reachable(u) : u.offers[g].ratio \in Nat /\ u.offers[g].mine = None
  BY <1>1, <1>3, OfferTypes DEF Convertible
<1> DEFINE ratios == {u.offers[g].ratio : g \in Reachable(u)}
           k == base * Dollars(u)
<1>5. k \in Nat
  BY OfferTypes DEF Dollars
<1>6. LeastRatio(u) = Min(ratios)
  <2>1. {StoredRatio(u, g) : g \in Candidates(u)} = ratios
    BY RatiosAre
  <2> QED BY <2>1 DEF LeastRatio
<1>7. Charge(u) = Min(Multiples(k, ratios))
  <2>1. {Price(u, g) * Dollars(u) *
           (IF u.offers[g].mine = None THEN u.offers[g].ratio ELSE u.offers[g].mine)
           : g \in Reachable(u)} = Multiples(k, ratios)
    BY <1>2, <1>3, <1>4 DEF Multiples
  <2> QED BY <2>1 DEF Charge
<1>8. Charge(u) = k * Min(ratios) /\ Min(ratios) \in Nat
  <2>1. ratios \in SUBSET Nat /\ ratios # {}
    BY <1>1, <1>4
  <2> HIDE DEF ratios, k
  <2> QED BY <1>5, <1>7, <2>1, MinTimes
<1>9. CASE u.perRequest
  <2>1. EffectiveInput(u) = None
    BY <1>2, <1>9 DEF EffectiveInput
  <2>2. Stored(u).request = k
    BY <1>2, <1>9 DEF Dollars
  <2> HIDE DEF ratios, k
  <2>3. Stored(u).request * LeastRatio(u) = Charge(u)
    BY <1>6, <1>8, <2>2, Zenon
  <2> QED BY <1>9, <2>1, <2>3
<1>10. CASE ~u.perRequest
  <2>1. Stored(u).input = k
    BY <1>2, <1>10
  <2> HIDE DEF ratios, k
  <2>2. Stored(u).input # None /\ Candidates(u) # {}
    BY <1>1, <1>5, <2>1, RatiosAre
  <2>3. EffectiveInput(u) = k * Min(ratios)
    BY <1>6, <2>1, <2>2, Zenon DEF EffectiveInput
  <2>4. Charge(u) \in Nat
    BY <1>5, <1>8
  <2> QED BY <1>8, <1>10, <2>3, <2>4
<1> QED BY <1>9, <1>10

PricingType == upstreams \in Seq(Upstreams)

LEMMA BestLemma == PricingType => BestIsCheapest
<1> USE PricingAssumption
<1> SUFFICES ASSUME PricingType,
                    \A i \in DOMAIN upstreams : Faithful(upstreams[i]),
                    NEW i \in DOMAIN upstreams
             PROVE  LET u == upstreams[i] IN
                    IF u.perRequest
                    THEN /\ i # Best
                         /\ Stored(u).request * LeastRatio(u) = Charge(u)
                    ELSE /\ Best # None
                         /\ EffectiveInput(upstreams[Best]) = Charge(upstreams[Best])
                         /\ Charge(upstreams[Best]) <= Charge(u)
  BY Zenon DEF BestIsCheapest
<1> DEFINE u == upstreams[i]
           prices == {EffectiveInput(upstreams[j]) : j \in Comparable}
           lowest == Min(prices)
           bests == {j \in Comparable : EffectiveInput(upstreams[j]) = lowest}
<1>1. /\ DOMAIN upstreams \in SUBSET Nat
      /\ \A j \in DOMAIN upstreams : upstreams[j] \in Upstreams /\ Faithful(upstreams[j])
  BY DEF PricingType
<1>2. \A j \in DOMAIN upstreams :
        upstreams[j].perRequest => EffectiveInput(upstreams[j]) = None
  BY <1>1, ChargeIs
<1>3. \A j \in DOMAIN upstreams :
        ~upstreams[j].perRequest =>
          /\ EffectiveInput(upstreams[j]) = Charge(upstreams[j])
          /\ Charge(upstreams[j]) \in Nat
  BY <1>1, ChargeIs
<1>4. Comparable = {j \in DOMAIN upstreams : ~upstreams[j].perRequest}
  BY <1>2, <1>3 DEF Comparable
<1>5. Comparable # {} => Best = Min(bests)
  BY DEF Best
<1>6. Comparable # {} => lowest \in prices /\ \A price \in prices : lowest <= price
  <2>1. prices \in SUBSET Nat
    BY <1>3, <1>4
  <2>2. Comparable # {} => prices # {}
    OBVIOUS
  <2> HIDE DEF prices
  <2> QED BY <2>1, <2>2, MinIs
<1>7. Comparable # {} => Best \in bests
  <2>1. bests \in SUBSET Nat
    BY <1>1, <1>4
  <2>2. Comparable # {} => bests # {}
    <3> HIDE DEF lowest
    <3> QED BY <1>6
  <2> HIDE DEF bests
  <2> QED BY <1>5, <2>1, <2>2, MinIs
<1>8. CASE u.perRequest
  <2>1. i \notin Comparable
    BY <1>4, <1>8
  <2>2. i # Best
    <3>1. CASE Comparable = {}
      <4>1. Best = None
        BY <3>1 DEF Best
      <4> QED BY <1>1, <4>1
    <3>2. CASE Comparable # {}
      BY <1>7, <2>1, <3>2
    <3> QED BY <3>1, <3>2
  <2>3. Stored(u).request * LeastRatio(u) = Charge(u)
    BY <1>1, <1>8, ChargeIs
  <2> QED BY <1>8, <2>2, <2>3
<1>9. CASE ~u.perRequest
  <2>1. i \in Comparable
    BY <1>4, <1>9
  <2>2. Best \in Comparable /\ EffectiveInput(upstreams[Best]) = lowest
    BY <1>7, <2>1
  <2>3. Best # None
    BY <1>1, <1>4, <2>2
  <2>4. EffectiveInput(upstreams[Best]) = Charge(upstreams[Best])
    BY <1>3, <1>4, <2>2
  <2>5. lowest <= EffectiveInput(u)
    <3> HIDE DEF lowest
    <3> QED BY <1>6, <2>1
  <2>6. EffectiveInput(u) = Charge(u)
    BY <1>3, <1>9
  <2>7. Charge(upstreams[Best]) <= Charge(u)
    BY <2>2, <2>4, <2>5, <2>6
  <2> QED BY <1>9, <2>3, <2>4, <2>7
<1> QED BY <1>8, <1>9

-----------------------------------------------------------------------------
(* Tokens, and what their kinds tell.                                       *)
Operators == {"<", "<=", ">", ">="}

LEMMA PartKinds ==
  ASSUME NEW part \in Parts
  PROVE  \/ /\ part.kind = "tier" /\ part.op \in Operators /\ part.value \in Nat
            /\ part = Comparison(part.op, part.value) /\ part.value \in Thresholds
         \/ part = Time
         \/ part = Other
BY BillingAssumption DEF Parts, Comparison, Operators

LEMMA PartFacts ==
  ASSUME NEW part \in Parts
  PROVE  /\ part \in Tokens
         /\ part.kind \in {"tier", "time", "raw"}
         /\ part.kind = "raw" <=> part = Other
BY PartKinds DEF Tokens, Comparison, Time, Other

LEMMA MarkFacts ==
  /\ \A kind \in {"&&", "?", ":", "(", ")"} :
       Mark(kind) \in Tokens /\ Mark(kind).kind = kind
  /\ \A price \in Nat :
       Tier(price) \in Tokens /\ Tier(price).kind = "leaf" /\ Tier(price).price = price
BY DEF Tokens, Mark, Tier

LEMMA LeafFacts ==
  ASSUME NEW token \in Tokens, token.kind = "leaf"
  PROVE  token.price \in Nat
BY PartFacts DEF Tokens

Punctuation == {"leaf", "?", ":", "(", ")"}

(* What stands before the question mark of a choice.                        *)
LEMMA ConjunctionIs ==
  ASSUME NEW parts \in Seq(Parts), parts # <<>>
  PROVE  LET n == 2 * Len(parts) - 1
             text == Conjunction(parts)
         IN /\ n \in Nat \ {0} /\ text \in Seq(Tokens) /\ Len(text) = n
            /\ \A i \in 1..n : text[i].kind \notin Punctuation
            /\ {text[i] : i \in {j \in 1..n : text[j].kind # "&&"}} = Range(parts)
<1> DEFINE n == 2 * Len(parts) - 1
           text == Conjunction(parts)
<1>1. Len(parts) \in Nat /\ Len(parts) >= 1 /\ DOMAIN parts = 1..Len(parts)
  OBVIOUS
<1>2. n \in Nat \ {0}
  BY <1>1
<1>3. ASSUME NEW i \in 1..n, i % 2 = 1
      PROVE  (i + 1) \div 2 \in 1..Len(parts) /\ text[i] = parts[(i + 1) \div 2]
  BY <1>1, <1>3 DEF Conjunction
<1>4. ASSUME NEW i \in 1..n, i % 2 # 1
      PROVE  text[i] = Mark("&&")
  BY <1>1, <1>4 DEF Conjunction
<1>5. \A i \in 1..n : text[i] \in Tokens /\ text[i].kind \notin Punctuation
  <2> TAKE i \in 1..n
  <2>1. CASE i % 2 = 1
    <3>1. text[i] \in Parts
      BY <1>1, <1>3, <2>1
    <3> HIDE DEF text
    <3> QED BY <3>1, PartFacts DEF Punctuation
  <2>2. CASE i % 2 # 1
    <3>1. text[i] = Mark("&&")
      BY <1>4, <2>2
    <3> HIDE DEF text
    <3> QED BY <3>1, MarkFacts DEF Punctuation
  <2> QED BY <2>1, <2>2
<1>6. text \in Seq(Tokens) /\ Len(text) = n
  <2>1. text = [i \in 1..n |-> text[i]]
    BY DEF Conjunction
  <2> HIDE DEF text, n
  <2>2. text \in [1..n -> Tokens]
    BY <1>5, <2>1
  <2> QED BY <1>2, <2>2
<1>7. {text[i] : i \in {j \in 1..n : text[j].kind # "&&"}} = Range(parts)
  <2>1. ASSUME NEW i \in 1..n, text[i].kind # "&&"
        PROVE  text[i] \in Range(parts)
    <3>1. i % 2 = 1
      <4>1. text[i] # Mark("&&")
        BY <2>1, MarkFacts
      <4> QED BY <1>4, <4>1
    <3> QED BY <1>1, <1>3, <3>1 DEF Range
  <2>2. ASSUME NEW k \in DOMAIN parts
        PROVE  \E i \in 1..n : text[i].kind # "&&" /\ parts[k] = text[i]
    <3> DEFINE i == 2 * k - 1
    <3>1. i \in 1..n /\ i % 2 = 1 /\ (i + 1) \div 2 = k
      BY <1>1
    <3>2. text[i] = parts[k]
      BY <1>3, <3>1
    <3>3. parts[k].kind # "&&"
      BY PartFacts
    <3> HIDE DEF text, i
    <3> QED BY <3>1, <3>2, <3>3
  <2> HIDE DEF text, n
  <2> QED BY <2>1, <2>2 DEF Range
<1> QED BY <1>2, <1>5, <1>6, <1>7

(* The places of a choice between a tier and another text.                  *)
LEMMA ChoiceTextIs ==
  ASSUME NEW parts \in Seq(Parts), parts # <<>>, NEW price \in Nat,
         NEW rest \in Seq(Tokens), rest # <<>>
  PROVE  LET n == 2 * Len(parts) - 1
             text == ChoiceText(parts, <<Tier(price)>>, rest)
         IN /\ text \in Seq(Tokens) /\ Len(text) = n + 3 + Len(rest)
            /\ n \in Nat \ {0}
            /\ \A i \in 1..n : text[i].kind \notin Punctuation
            /\ {text[i] : i \in {j \in 1..n : text[j].kind # "&&"}} = Range(parts)
            /\ text[n + 1] = Mark("?") /\ text[n + 2] = Tier(price) /\ text[n + 3] = Mark(":")
            /\ \A i \in 1..Len(rest) : text[n + 3 + i] = rest[i]
<1> DEFINE n == 2 * Len(parts) - 1
           head == Conjunction(parts)
           text == ChoiceText(parts, <<Tier(price)>>, rest)
<1>1. /\ n \in Nat \ {0} /\ head \in Seq(Tokens) /\ Len(head) = n
      /\ \A i \in 1..n : head[i].kind \notin Punctuation
      /\ {head[i] : i \in {j \in 1..n : head[j].kind # "&&"}} = Range(parts)
  BY ConjunctionIs
<1>2. text = head \o <<Mark("?")>> \o <<Tier(price)>> \o <<Mark(":")>> \o rest
  BY DEF ChoiceText, Branch
<1>3. Mark("?") \in Tokens /\ Tier(price) \in Tokens /\ Mark(":") \in Tokens
  BY MarkFacts
<1> HIDE DEF head, text, n
<1>4. /\ text \in Seq(Tokens) /\ Len(text) = n + 3 + Len(rest)
      /\ \A i \in 1..n : text[i] = head[i]
      /\ text[n + 1] = Mark("?") /\ text[n + 2] = Tier(price) /\ text[n + 3] = Mark(":")
      /\ \A i \in 1..Len(rest) : text[n + 3 + i] = rest[i]
  <2> DEFINE a == head \o <<Mark("?")>>
             b == a \o <<Tier(price)>>
             c == b \o <<Mark(":")>>
  <2>1. /\ a \in Seq(Tokens) /\ Len(a) = n + 1
        /\ \A i \in 1..n : a[i] = head[i]
        /\ a[n + 1] = Mark("?")
    BY <1>1, <1>3
  <2> HIDE DEF a
  <2>2. /\ b \in Seq(Tokens) /\ Len(b) = n + 2
        /\ \A i \in 1..n + 1 : b[i] = a[i]
        /\ b[n + 2] = Tier(price)
    BY <1>1, <1>3, <2>1
  <2> HIDE DEF b
  <2>3. /\ c \in Seq(Tokens) /\ Len(c) = n + 3
        /\ \A i \in 1..n + 2 : c[i] = b[i]
        /\ c[n + 3] = Mark(":")
    BY <1>1, <1>3, <2>2
  <2>4. text = c \o rest
    BY <1>2 DEF a, b
  <2> HIDE DEF c
  <2>5. /\ text \in Seq(Tokens) /\ Len(text) = n + 3 + Len(rest)
        /\ \A i \in 1..n + 3 : text[i] = c[i]
        /\ \A i \in 1..Len(rest) : text[n + 3 + i] = rest[i]
    <3>1. /\ c \o rest \in Seq(Tokens) /\ Len(c \o rest) = n + 3 + Len(rest)
          /\ \A i \in 1..n + 3 + Len(rest) : (c \o rest)[i] =
               IF i <= n + 3 THEN c[i] ELSE rest[i - (n + 3)]
      <4>1. /\ c \o rest \in Seq(Tokens) /\ Len(c \o rest) = Len(c) + Len(rest)
            /\ \A i \in 1..Len(c) + Len(rest) : (c \o rest)[i] =
                 IF i <= Len(c) THEN c[i] ELSE rest[i - Len(c)]
        BY <2>3, ConcatProperties
      <4>2. Len(c) = n + 3
        BY <2>3
      <4> QED BY <4>1, <4>2, Zenon
    <3>2. Len(rest) \in Nat
      OBVIOUS
    <3>3. \A i \in 1..n + 3 : (c \o rest)[i] = c[i]
      BY <1>1, <3>1, <3>2
    <3>4. \A i \in 1..Len(rest) : (c \o rest)[n + 3 + i] = rest[i]
      <4> TAKE i \in 1..Len(rest)
      <4>1. /\ n + 3 + i \in 1..n + 3 + Len(rest) /\ ~(n + 3 + i <= n + 3)
            /\ (n + 3 + i) - (n + 3) = i
        BY <1>1, <3>2
      <4> QED BY <3>1, <4>1
    <3> QED BY <2>4, <3>1, <3>3, <3>4
  <2>6. \A i \in 1..n : text[i] = head[i]
    BY <1>1, <2>1, <2>2, <2>3, <2>5
  <2>7. text[n + 1] = Mark("?") /\ text[n + 2] = Tier(price) /\ text[n + 3] = Mark(":")
    BY <1>1, <2>1, <2>2, <2>3, <2>5
  <2> QED BY <2>5, <2>6, <2>7
<1>5. /\ \A i \in 1..n : text[i].kind \notin Punctuation
      /\ {text[i] : i \in {j \in 1..n : text[j].kind # "&&"}} = Range(parts)
  <2>1. \A i \in 1..n : text[i] = head[i]
    BY <1>4
  <2>2. {text[i] : i \in {j \in 1..n : text[j].kind # "&&"}}
          = {head[i] : i \in {j \in 1..n : head[j].kind # "&&"}}
    BY <2>1
  <2>3. \A i \in 1..n : text[i].kind \notin Punctuation
    BY <1>1, <2>1
  <2> QED BY <1>1, <2>2, <2>3
<1> QED BY <1>1, <1>4, <1>5 DEF n, text

(* Where nothing is opened or closed the depth stays 0.                     *)
LEMMA DepthZero ==
  ASSUME NEW text, NEW start \in Nat, NEW place \in Nat,
         \A i \in start..place - 1 : text[i].kind \notin {"(", ")"}
  PROVE  Depth(text, start, place) = 0
<1>1. /\ {i \in start..place - 1 : text[i].kind = "("} = {}
      /\ {i \in start..place - 1 : text[i].kind = ")"} = {}
  OBVIOUS
<1>2. Cardinality({}) = 0
  BY FS_EmptySet
<1>3. Depth(text, start, place) = 0 - 0
  BY <1>1, <1>2, Zenon DEF Depth
<1> QED BY <1>3

(* _split_ternary and _split_conjunction take a choice between a tier and   *)
(* any text apart as it was put together, whatever is in that text.         *)
THEOREM SplitIs ==
  ASSUME NEW parts \in Seq(Parts), parts # <<>>, NEW price \in Nat,
         NEW rest \in Seq(Tokens), rest # <<>>
  PROVE  LET text == ChoiceText(parts, <<Tier(price)>>, rest)
         IN /\ text \in Seq(Tokens) /\ text # <<>>
            /\ SplitTernary(text) = << <<Tier(price)>>, rest >>
            /\ SplitConjunction(text) = Range(parts)
<1> DEFINE n == 2 * Len(parts) - 1
           text == ChoiceText(parts, <<Tier(price)>>, rest)
           questions == TopLevel(text, "?", 1)
           colons == TopLevel(text, ":", n + 2)
<1>1. /\ text \in Seq(Tokens) /\ Len(text) = n + 3 + Len(rest)
      /\ n \in Nat \ {0}
      /\ \A i \in 1..n : text[i].kind \notin Punctuation
      /\ {text[i] : i \in {j \in 1..n : text[j].kind # "&&"}} = Range(parts)
      /\ text[n + 1] = Mark("?") /\ text[n + 2] = Tier(price) /\ text[n + 3] = Mark(":")
      /\ \A i \in 1..Len(rest) : text[n + 3 + i] = rest[i]
  BY ChoiceTextIs
<1>2. Len(rest) \in Nat /\ Len(rest) >= 1
  OBVIOUS
<1>3. text[n + 1].kind = "?" /\ text[n + 2].kind = "leaf" /\ text[n + 3].kind = ":"
  BY <1>1, MarkFacts
<1> HIDE DEF text, n
<1>4. Min(questions) = n + 1 /\ questions # {}
  <2>1. Depth(text, 1, n + 1) = 0
    <3>1. \A i \in 1..(n + 1) - 1 : text[i].kind \notin {"(", ")"}
      BY <1>1 DEF Punctuation
    <3> QED BY <1>1, <3>1, DepthZero, n + 1 \in Nat, 1 \in Nat
  <2>2. n + 1 \in questions
    BY <1>1, <1>2, <1>3, <2>1 DEF TopLevel
  <2>3. questions \in SUBSET Nat /\ \A i \in questions : n + 1 <= i
    BY <1>1 DEF TopLevel, Punctuation
  <2> HIDE DEF questions
  <2> QED BY <2>2, <2>3, LeastIs
<1>5. Min(colons) = n + 3 /\ colons # {}
  <2>1. Depth(text, n + 2, n + 3) = 0
    <3>1. \A i \in n + 2..(n + 3) - 1 : text[i].kind \notin {"(", ")"}
      BY <1>1, <1>3
    <3> QED BY <1>1, <3>1, DepthZero
  <2>2. n + 3 \in colons
    BY <1>1, <1>2, <1>3, <2>1 DEF TopLevel
  <2>3. colons \in SUBSET Nat /\ \A i \in colons : n + 3 <= i
    BY <1>1, <1>3 DEF TopLevel
  <2> HIDE DEF colons
  <2> QED BY <2>2, <2>3, LeastIs
<1>6. SubSeq(text, n + 2, n + 2) = <<Tier(price)>>
  <2>1. n + 2 \in Int /\ \A i \in n + 2..n + 2 : text[i] \in Tokens
    BY <1>1, <1>2
  <2>2. /\ SubSeq(text, n + 2, n + 2) \in Seq(Tokens)
        /\ Len(SubSeq(text, n + 2, n + 2)) = 1
        /\ SubSeq(text, n + 2, n + 2)[1] = Tier(price)
    BY <1>1, <2>1, SubSeqProperties
  <2> DEFINE one == SubSeq(text, n + 2, n + 2)
  <2> HIDE DEF one
  <2>3. one \in Seq(Tokens) /\ Len(one) = 1 /\ one[1] = Tier(price)
    BY <2>2 DEF one
  <2>4. one = <<Tier(price)>>
    BY <2>3
  <2> QED BY <2>4 DEF one
<1>7. SubSeq(text, n + 4, Len(text)) = rest
  <2>1. Len(text) - (n + 4) + 1 = Len(rest) /\ n + 4 <= Len(text)
    BY <1>1, <1>2
  <2>2. /\ SubSeq(text, n + 4, Len(text)) \in Seq(Tokens)
        /\ Len(SubSeq(text, n + 4, Len(text))) = Len(rest)
        /\ \A i \in 1..Len(rest) : SubSeq(text, n + 4, Len(text))[i] = text[n + 4 + i - 1]
    <3>1. \A i \in n + 4..Len(text) : text[i] \in Tokens
      BY <1>1, <1>2
    <3> QED BY <1>1, <1>2, <2>1, <3>1, SubSeqProperties
  <2>3. \A i \in 1..Len(rest) : text[n + 4 + i - 1] = rest[i]
    BY <1>1, <1>2
  <2> HIDE DEF questions, colons
  <2> QED BY <2>2, <2>3, SeqEqual
<1>8. SplitTernary(text) = << <<Tier(price)>>, rest >>
  <2>1. TopLevel(text, ":", Min(questions) + 1) = colons
    BY <1>1, <1>4
  <2> DEFINE branches == << SubSeq(text, Min(questions) + 1, Min(colons) - 1),
                            SubSeq(text, Min(colons) + 1, Len(text)) >>
  <2>2. branches = << <<Tier(price)>>, rest >>
    BY <1>1, <1>4, <1>5, <1>6, <1>7
  <2>3. <<>> \notin Range(branches)
    <3>1. \A i \in 1..2 : branches[i] # <<>>
      <4>1. <<Tier(price)>> # <<>>
        OBVIOUS
      <4>2. \A i \in 1..2 : << <<Tier(price)>>, rest >>[i] \in {<<Tier(price)>>, rest}
        OBVIOUS
      <4> QED BY <2>2, <4>1, <4>2
    <3>2. DOMAIN branches = 1..2
      OBVIOUS
    <3> HIDE DEF branches
    <3> QED BY <3>1, <3>2 DEF Range
  <2>4. SplitTernary(text) = branches
    <3> HIDE DEF branches
    <3>1. SplitTernary(text) =
            IF questions = {} THEN <<>>
            ELSE IF colons = {} THEN <<>>
            ELSE IF <<>> \in Range(branches) THEN <<>> ELSE branches
      BY <2>1 DEF SplitTernary, branches
    <3> QED BY <1>4, <1>5, <2>3, <3>1
  <2> QED BY <2>2, <2>4
<1>9. SplitConjunction(text) = Range(parts)
  <2>1. Min(questions) - 1 = n
    BY <1>1, <1>4
  <2> QED BY <1>1, <2>1 DEF SplitConjunction
<1> QED BY <1>1, <1>2, <1>8, <1>9 DEF text

(* ... and finds no choice in a tier.                                       *)
LEMMA LeafIs ==
  ASSUME NEW price \in Nat
  PROVE  /\ <<Tier(price)>> \in Seq(Tokens)
         /\ SplitTernary(<<Tier(price)>>) = <<>>
         /\ ParseLeaf(<<Tier(price)>>) = {[price |-> price, conditions |-> {}]}
<1> DEFINE text == <<Tier(price)>>
           tiers == {i \in DOMAIN text : text[i].kind = "leaf"}
<1>1. Tier(price) \in Tokens /\ Tier(price).kind = "leaf" /\ Tier(price).price = price
  BY MarkFacts
<1>2. text \in Seq(Tokens) /\ Len(text) = 1 /\ DOMAIN text = {1} /\ text[1] = Tier(price)
  BY <1>1
<1> HIDE DEF text
<1>3. TopLevel(text, "?", 1) = {}
  BY <1>1, <1>2 DEF TopLevel
<1>4. SplitTernary(text) = <<>>
  BY <1>3 DEF SplitTernary
<1>5. tiers = {1}
  BY <1>1, <1>2
<1>6. Max({1}) = 1
  BY DEF Max
<1>7. ParseLeaf(text) = {[price |-> price, conditions |-> {}]}
  BY <1>1, <1>2, <1>5, <1>6 DEF ParseLeaf
<1> QED BY <1>2, <1>4, <1>7 DEF text

-----------------------------------------------------------------------------
(* CollectTiers is a function: branches are shorter than the text they are  *)
(* of.                                                                      *)
LEMMA BranchFacts ==
  ASSUME NEW text \in Seq(Tokens), SplitTernary(text) # <<>>
  PROVE  /\ SplitTernary(text)[1] \in Seq(Tokens) /\ SplitTernary(text)[2] \in Seq(Tokens)
         /\ Len(SplitTernary(text)[1]) < Len(text) /\ Len(SplitTernary(text)[2]) < Len(text)
         /\ SplitConjunction(text) \subseteq Tokens
<1> DEFINE questions == TopLevel(text, "?", 1)
           question == Min(questions)
           colons == TopLevel(text, ":", question + 1)
           colon == Min(colons)
           branches == << SubSeq(text, question + 1, colon - 1),
                          SubSeq(text, colon + 1, Len(text)) >>
<1>1. SplitTernary(text) =
        IF questions = {} THEN <<>>
        ELSE IF colons = {} THEN <<>>
        ELSE IF <<>> \in Range(branches) THEN <<>> ELSE branches
  BY DEF SplitTernary
<1>2. questions # {} /\ colons # {} /\ SplitTernary(text) = branches
  <2> HIDE DEF questions, colons, branches
  <2> QED BY <1>1
<1>3. question \in 1..Len(text)
  <2>1. questions \in SUBSET Nat /\ questions \subseteq 1..Len(text)
    BY DEF TopLevel
  <2> HIDE DEF questions
  <2> QED BY <1>2, <2>1, MinIs
<1> HIDE DEF question
<1>4. colon \in question + 1..Len(text)
  <2>1. colons \in SUBSET Nat /\ colons \subseteq question + 1..Len(text)
    BY <1>3 DEF TopLevel
  <2> HIDE DEF colons
  <2> QED BY <1>2, <2>1, MinIs
<1> HIDE DEF colon
<1>5. Len(text) \in Nat /\ \A i \in 1..Len(text) : text[i] \in Tokens
  OBVIOUS
<1>6. /\ SubSeq(text, question + 1, colon - 1) \in Seq(Tokens)
      /\ Len(SubSeq(text, question + 1, colon - 1)) < Len(text)
  <2>1. \A i \in question + 1..colon - 1 : text[i] \in Tokens
    BY <1>3, <1>4, <1>5
  <2>2. /\ SubSeq(text, question + 1, colon - 1) \in Seq(Tokens)
        /\ Len(SubSeq(text, question + 1, colon - 1)) =
             IF question + 1 <= colon - 1 THEN (colon - 1) - (question + 1) + 1 ELSE 0
    BY <1>3, <1>4, <2>1, SubSeqProperties
  <2>3. (IF question + 1 <= colon - 1 THEN (colon - 1) - (question + 1) + 1 ELSE 0) < Len(text)
    BY <1>3, <1>4, <1>5
  <2> QED BY <2>2, <2>3
<1>7. /\ SubSeq(text, colon + 1, Len(text)) \in Seq(Tokens)
      /\ Len(SubSeq(text, colon + 1, Len(text))) < Len(text)
  <2>1. \A i \in colon + 1..Len(text) : text[i] \in Tokens
    BY <1>3, <1>4, <1>5
  <2>2. /\ SubSeq(text, colon + 1, Len(text)) \in Seq(Tokens)
        /\ Len(SubSeq(text, colon + 1, Len(text))) =
             IF colon + 1 <= Len(text) THEN Len(text) - (colon + 1) + 1 ELSE 0
    BY <1>3, <1>4, <1>5, <2>1, SubSeqProperties
  <2>3. (IF colon + 1 <= Len(text) THEN Len(text) - (colon + 1) + 1 ELSE 0) < Len(text)
    BY <1>3, <1>4, <1>5
  <2> QED BY <2>2, <2>3
<1>8. SplitConjunction(text) \subseteq Tokens
  BY <1>3, <1>5 DEF SplitConjunction, question
<1>9. /\ branches[1] = SubSeq(text, question + 1, colon - 1)
      /\ branches[2] = SubSeq(text, colon + 1, Len(text))
  OBVIOUS
<1> HIDE DEF branches
<1> QED BY <1>2, <1>6, <1>7, <1>8, <1>9

Negated == [kind |-> "time", negated |-> TRUE]
Tiers == [price : Nat, conditions : SUBSET (Tokens \cup {Negated})]

LEMMA InvertType ==
  ASSUME NEW token \in Tokens
  PROVE  InvertCondition(token) \in Tokens \cup {Negated}
<1>1. CASE token \in Parts
  <2>1. CASE token.kind = "tier"
    <3>1. /\ token = Comparison(token.op, token.value)
          /\ token.op \in Operators /\ token.value \in Thresholds
      BY <1>1, <2>1, PartKinds DEF Time, Other
    <3>2. InvertCondition(token) = Comparison(Inverted(token.op), token.value)
      <4>1. InvertCondition(token) = [token EXCEPT !.op = Inverted(token.op)]
        BY <2>1 DEF InvertCondition
      <4>2. [Comparison(token.op, token.value) EXCEPT !.op = Inverted(token.op)]
              = Comparison(Inverted(token.op), token.value)
        BY DEF Comparison
      <4> QED BY <3>1, <4>1, <4>2
    <3>3. Inverted(token.op) \in Operators
      BY <3>1 DEF Inverted, Operators
    <3>4. Comparison(Inverted(token.op), token.value) \in Parts
      BY <3>1, <3>3 DEF Parts, Operators
    <3> QED BY <3>2, <3>4 DEF Tokens
  <2>2. CASE token.kind = "time"
    <3>1. token = Time
      BY <1>1, <2>2, PartKinds DEF Other
    <3>2. InvertCondition(token) = [token EXCEPT !.negated = TRUE]
      BY <2>2 DEF InvertCondition
    <3> QED BY <3>1, <3>2 DEF Time, Negated
  <2>3. CASE token.kind = "raw"
    BY <2>3 DEF InvertCondition
  <2> QED BY <1>1, <2>1, <2>2, <2>3, PartFacts
<1>2. CASE token \notin Parts
  <2>1. token.kind \notin {"tier", "time"}
    BY <1>2 DEF Tokens
  <2> QED BY <2>1 DEF InvertCondition
<1> QED BY <1>1, <1>2

LEMMA UnderType ==
  ASSUME NEW conditions \in SUBSET (Tokens \cup {Negated}), NEW tiers \in SUBSET Tiers
  PROVE  Under(conditions, tiers) \in SUBSET Tiers
<1>1. ASSUME NEW tier \in tiers
      PROVE  [tier EXCEPT !.conditions = @ \cup {part \in conditions : part.kind # "raw"}]
               \in Tiers
  BY DEF Tiers
<1> QED BY <1>1 DEF Under

LEMMA ParseLeafType ==
  ASSUME NEW text \in Seq(Tokens)
  PROVE  ParseLeaf(text) \in SUBSET Tiers
<1> DEFINE tiers == {i \in DOMAIN text : text[i].kind = "leaf"}
<1>1. CASE tiers = {}
  BY <1>1 DEF ParseLeaf
<1>2. CASE tiers # {}
  <2>1. Max(tiers) \in tiers
    <3>1. tiers \in SUBSET Nat /\ Len(text) \in Nat /\ \A i \in tiers : i <= Len(text)
      OBVIOUS
    <3> HIDE DEF tiers
    <3> QED BY <1>2, <3>1, MaxIs
  <2>2. text[Max(tiers)].price \in Nat
    BY <2>1, LeafFacts
  <2>3. ParseLeaf(text) = {[price |-> text[Max(tiers)].price, conditions |-> {}]}
    BY <1>2 DEF ParseLeaf
  <2> QED BY <2>2, <2>3 DEF Tiers
<1> QED BY <1>1, <1>2

(* The tiers of a text, with those of its branches given.                   *)
Collected(collect, text) ==
  IF SplitTernary(text) = <<>> THEN ParseLeaf(text)
  ELSE Under(SplitConjunction(text), collect[SplitTernary(text)[1]])
       \cup Under({InvertCondition(part) : part \in SplitConjunction(text)},
                  collect[SplitTernary(text)[2]])
Collecting ==
  [collect \in [Seq(Tokens) -> SUBSET Tiers] |->
     [text \in Seq(Tokens) |-> Collected(collect, text)]]
Lens == [text \in Seq(Tokens) |-> Len(text)]

LEMMA CollectingRecursion == Recursion(Collecting, Lens, Seq(Tokens), SUBSET Tiers)
<1>1. Lens \in [Seq(Tokens) -> Nat]
  BY DEF Lens
<1>2. ASSUME NEW collect \in [Seq(Tokens) -> SUBSET Tiers], NEW text \in Seq(Tokens)
      PROVE  Collected(collect, text) \in SUBSET Tiers
  <2>1. CASE SplitTernary(text) = <<>>
    BY <2>1, ParseLeafType DEF Collected
  <2>2. CASE SplitTernary(text) # <<>>
    <3>1. /\ collect[SplitTernary(text)[1]] \in SUBSET Tiers
          /\ collect[SplitTernary(text)[2]] \in SUBSET Tiers
      BY <2>2, BranchFacts
    <3>2. /\ SplitConjunction(text) \in SUBSET (Tokens \cup {Negated})
          /\ {InvertCondition(part) : part \in SplitConjunction(text)}
               \in SUBSET (Tokens \cup {Negated})
      BY <2>2, BranchFacts, InvertType
    <3>3. Under(SplitConjunction(text), collect[SplitTernary(text)[1]]) \in SUBSET Tiers
      BY <3>1, <3>2, UnderType
    <3>4. Under({InvertCondition(part) : part \in SplitConjunction(text)},
                collect[SplitTernary(text)[2]]) \in SUBSET Tiers
      BY <3>1, <3>2, UnderType
    <3> QED BY <2>2, <3>3, <3>4 DEF Collected
  <2> QED BY <2>1, <2>2
<1>3. Collecting \in [[Seq(Tokens) -> SUBSET Tiers] -> [Seq(Tokens) -> SUBSET Tiers]]
  BY <1>2 DEF Collecting
<1>4. ASSUME NEW f \in [Seq(Tokens) -> SUBSET Tiers], NEW g \in [Seq(Tokens) -> SUBSET Tiers],
             NEW text \in Seq(Tokens),
             \A other \in Seq(Tokens) : Lens[other] < Lens[text] => f[other] = g[other]
      PROVE  Collecting[f][text] = Collecting[g][text]
  <2>1. Collecting[f][text] = Collected(f, text) /\ Collecting[g][text] = Collected(g, text)
    BY DEF Collecting
  <2>2. CASE SplitTernary(text) = <<>>
    BY <2>1, <2>2 DEF Collected
  <2>3. CASE SplitTernary(text) # <<>>
    <3>1. /\ f[SplitTernary(text)[1]] = g[SplitTernary(text)[1]]
          /\ f[SplitTernary(text)[2]] = g[SplitTernary(text)[2]]
      BY <1>4, <2>3, BranchFacts DEF Lens
    <3> QED BY <2>1, <3>1 DEF Collected
  <2> QED BY <2>2, <2>3
<1> QED BY <1>1, <1>3, <1>4 DEF Recursion

(* The recursion of _collect_tiers comes to an end on every text, well      *)
(* formed or not: there is a function that does what it says.               *)
THEOREM CollectTiersIs ==
  \A text \in Seq(Tokens) : CollectTiers[text] = Collected(CollectTiers, text)
<1> DEFINE Is(f) == f = [text \in Seq(Tokens) |-> Collected(f, text)]
<1>1. CollectTiers = CHOOSE f : Is(f)
  BY DEF CollectTiers, Collected
<1>2. \E f : Is(f)
  <2>1. PICK f \in [Seq(Tokens) -> SUBSET Tiers] : f = Collecting[f]
    <3>1. SUBSET Tiers # {}
      OBVIOUS
    <3> QED BY <3>1, CollectingRecursion, RecursionSolved
  <2>2. f = [text \in Seq(Tokens) |-> Collected(f, text)]
    BY <2>1 DEF Collecting
  <2> QED BY <2>2
<1>3. Is(CollectTiers)
  <2> HIDE DEF Is
  <2> QED BY <1>1, <1>2
<1> QED BY <1>3

-----------------------------------------------------------------------------
(* The text of an expression and what it charges, choice by choice.         *)
ChoiceShape == [parts : Seq(Parts) \ {<<>>}, nested : BOOLEAN]

LEMMA ChoiceFacts ==
  ASSUME NEW e \in Seq(ChoiceShape), NEW n \in 1..Len(e)
  PROVE  /\ e[n].parts \in Seq(Parts) /\ e[n].parts # <<>>
         /\ e[n].nested \in BOOLEAN
<1>1. e[n] \in ChoiceShape
  OBVIOUS
<1> QED BY <1>1 DEF ChoiceShape

LEMMA ChoiceTextType ==
  ASSUME NEW parts \in Seq(Parts), parts # <<>>,
         NEW then \in Seq(Tokens), NEW else \in Seq(Tokens)
  PROVE  ChoiceText(parts, then, else) \in Seq(Tokens)
<1>1. Conjunction(parts) \in Seq(Tokens)
  BY ConjunctionIs
<1>2. \A kind \in {"?", ":", "(", ")"} : <<Mark(kind)>> \in Seq(Tokens)
  BY MarkFacts
<1>3. Branch(then) \in Seq(Tokens)
  BY <1>2 DEF Branch
<1> QED BY <1>1, <1>2, <1>3 DEF ChoiceText

TextUpTo(e, text, n) ==
  IF n = 0 THEN <<Tier(1)>>
  ELSE IF e[n].nested
  THEN ChoiceText(e[n].parts, text[n - 1], <<Tier(n + 1)>>)
  ELSE ChoiceText(e[n].parts, <<Tier(n + 1)>>, text[n - 1])
PriceUpTo(e, request, price, n) ==
  IF n = 0 THEN 1
  ELSE IF Met(e[n], request) = e[n].nested THEN price[n - 1]
  ELSE n + 1

LEMMA TextIs ==
  ASSUME NEW e \in Seq(ChoiceShape)
  PROVE  \E text : /\ Text(e) = text[Len(e)]
                   /\ \A n \in 0..Len(e) : /\ text[n] \in Seq(Tokens)
                                           /\ text[n] = TextUpTo(e, text, n)
<1> DEFINE D == 0..Len(e)
           V == Seq(Tokens)
           Step == [text \in [D -> V] |-> [n \in D |-> TextUpTo(e, text, n)]]
           same == [n \in D |-> n]
           Is(text) == text = [n \in D |-> TextUpTo(e, text, n)]
<1>0. Len(e) \in Nat
  OBVIOUS
<1>1. ASSUME NEW text \in [D -> V], NEW n \in D
      PROVE  TextUpTo(e, text, n) \in V
  <2>1. <<Tier(1)>> \in V /\ <<Tier(n + 1)>> \in V
    BY <1>0, MarkFacts
  <2>2. CASE n = 0
    BY <2>1, <2>2 DEF TextUpTo
  <2>3. CASE n # 0
    <3>1. n \in 1..Len(e) /\ n - 1 \in D
      BY <1>0, <2>3
    <3>2. e[n].parts \in Seq(Parts) /\ e[n].parts # <<>>
      BY <3>1, ChoiceFacts
    <3>3. text[n - 1] \in V
      BY <3>1
    <3> HIDE DEF D
    <3>4. /\ ChoiceText(e[n].parts, text[n - 1], <<Tier(n + 1)>>) \in V
          /\ ChoiceText(e[n].parts, <<Tier(n + 1)>>, text[n - 1]) \in V
      BY <2>1, <3>2, <3>3, ChoiceTextType
    <3> QED BY <2>3, <3>4 DEF TextUpTo
  <2> QED BY <2>2, <2>3
<1>2. Recursion(Step, same, D, V)
  <2>1. same \in [D -> Nat]
    BY <1>0
  <2>2. Step \in [[D -> V] -> [D -> V]]
    <3> HIDE DEF D, V
    <3> QED BY <1>1
  <2>3. ASSUME NEW f \in [D -> V], NEW g \in [D -> V], NEW n \in D,
               \A m \in D : same[m] < same[n] => f[m] = g[m]
        PROVE  Step[f][n] = Step[g][n]
    <3>1. n # 0 => f[n - 1] = g[n - 1]
      BY <1>0, <2>3
    <3>2. Step[f][n] = TextUpTo(e, f, n) /\ Step[g][n] = TextUpTo(e, g, n)
      <4> HIDE DEF D, V
      <4> QED OBVIOUS
    <3> QED BY <3>1, <3>2 DEF TextUpTo
  <2> HIDE DEF D, V, Step, same
  <2> QED BY <2>1, <2>2, <2>3 DEF Recursion
<1>3. \E text : Is(text) /\ text \in [D -> V]
  <2>1. V # {}
    BY EmptySeq
  <2>2. PICK text \in [D -> V] : text = Step[text]
    <3> HIDE DEF D, V, Step, same
    <3> QED BY <1>2, <2>1, RecursionSolved
  <2>3. Step[text] = [n \in D |-> TextUpTo(e, text, n)]
    <3> HIDE DEF D, V
    <3> QED OBVIOUS
  <2> QED BY <2>2, <2>3
<1> DEFINE text == CHOOSE text : Is(text)
<1>4. Text(e) = text[Len(e)]
  BY DEF Text, TextUpTo
<1>5. Is(text)
  <2> HIDE DEF Is
  <2> QED BY <1>3
<1> HIDE DEF text
<1>6. \A n \in D : text[n] = TextUpTo(e, text, n)
  BY <1>5
<1> DEFINE typed == {n \in Nat : n \in D => text[n] \in V}
<1>7. 0 \in typed
  <2>1. 0 \in D /\ <<Tier(1)>> \in V
    BY <1>0, MarkFacts
  <2> QED BY <1>6, <2>1 DEF TextUpTo
<1>8. ASSUME NEW n \in Nat, n \in typed
      PROVE  n + 1 \in typed
  <2> SUFFICES ASSUME n + 1 \in D PROVE text[n + 1] \in V
    OBVIOUS
  <2>1. n + 1 \in 1..Len(e) /\ n \in D /\ (n + 1) - 1 = n
    BY <1>0
  <2>2. text[n] \in V /\ <<Tier((n + 1) + 1)>> \in V
    BY <1>8, <2>1, MarkFacts
  <2>3. e[n + 1].parts \in Seq(Parts) /\ e[n + 1].parts # <<>>
    BY <2>1, ChoiceFacts
  <2>4. /\ ChoiceText(e[n + 1].parts, text[n], <<Tier((n + 1) + 1)>>) \in V
        /\ ChoiceText(e[n + 1].parts, <<Tier((n + 1) + 1)>>, text[n]) \in V
    BY <2>2, <2>3, ChoiceTextType
  <2>5. text[n + 1] = TextUpTo(e, text, n + 1)
    BY <1>6
  <2> HIDE DEF V, D
  <2> QED BY <2>1, <2>4, <2>5 DEF TextUpTo
<1>9. Nat \subseteq typed
  <2> HIDE DEF typed
  <2> QED BY <1>7, <1>8, NumberInduction
<1> QED BY <1>0, <1>4, <1>6, <1>9

LEMMA ChargedIs ==
  ASSUME NEW e \in Seq(ChoiceShape), NEW request
  PROVE  \E price : /\ Charged(e, request) = price[Len(e)]
                    /\ \A n \in 0..Len(e) : price[n] = PriceUpTo(e, request, price, n)
<1> DEFINE D == 0..Len(e)
           V == Nat
           Step == [price \in [D -> V] |-> [n \in D |-> PriceUpTo(e, request, price, n)]]
           same == [n \in D |-> n]
           Is(price) == price = [n \in D |-> PriceUpTo(e, request, price, n)]
<1>0. Len(e) \in Nat
  OBVIOUS
<1>1. ASSUME NEW price \in [D -> V], NEW n \in D
      PROVE  PriceUpTo(e, request, price, n) \in V
  <2>1. n # 0 => price[n - 1] \in Nat
    BY <1>0
  <2> QED BY <2>1 DEF PriceUpTo
<1>2. Recursion(Step, same, D, V)
  <2>1. same \in [D -> Nat]
    BY <1>0
  <2>2. Step \in [[D -> V] -> [D -> V]]
    <3> HIDE DEF D, V
    <3> QED BY <1>1
  <2>3. ASSUME NEW f \in [D -> V], NEW g \in [D -> V], NEW n \in D,
               \A m \in D : same[m] < same[n] => f[m] = g[m]
        PROVE  Step[f][n] = Step[g][n]
    <3>1. n # 0 => f[n - 1] = g[n - 1]
      BY <1>0, <2>3
    <3>2. /\ Step[f][n] = PriceUpTo(e, request, f, n)
          /\ Step[g][n] = PriceUpTo(e, request, g, n)
      <4> HIDE DEF D, V
      <4> QED OBVIOUS
    <3> QED BY <3>1, <3>2 DEF PriceUpTo
  <2> HIDE DEF D, V, Step, same
  <2> QED BY <2>1, <2>2, <2>3 DEF Recursion
<1>3. \E price : Is(price)
  <2>1. V # {}
    OBVIOUS
  <2>2. PICK price \in [D -> V] : price = Step[price]
    <3> HIDE DEF D, V, Step, same
    <3> QED BY <1>2, <2>1, RecursionSolved
  <2>3. Step[price] = [n \in D |-> PriceUpTo(e, request, price, n)]
    <3> HIDE DEF D, V
    <3> QED OBVIOUS
  <2> QED BY <2>2, <2>3
<1> DEFINE price == CHOOSE price : Is(price)
<1>4. Charged(e, request) = price[Len(e)]
  BY DEF Charged, PriceUpTo
<1>5. Is(price)
  <2> HIDE DEF Is
  <2> QED BY <1>3
<1> QED BY <1>4, <1>5

-----------------------------------------------------------------------------
(* The tiers of a choice.                                                   *)
Leaf(price) == [price |-> price, conditions |-> {}]
Stated(part) == part.kind # "raw"

LEMMA UnderLeaf ==
  ASSUME NEW conditions, NEW price
  PROVE  Under(conditions, {Leaf(price)}) =
           {[price |-> price, conditions |-> {part \in conditions : Stated(part)}]}
<1>1. [Leaf(price) EXCEPT !.conditions = @ \cup {part \in conditions : part.kind # "raw"}]
        = [price |-> price, conditions |-> {part \in conditions : Stated(part)}]
  BY DEF Leaf, Stated
<1> QED BY <1>1 DEF Under

LEMMA LeafTiers ==
  ASSUME NEW price \in Nat
  PROVE  CollectTiers[<<Tier(price)>>] = {Leaf(price)}
<1>1. /\ <<Tier(price)>> \in Seq(Tokens)
      /\ SplitTernary(<<Tier(price)>>) = <<>>
      /\ ParseLeaf(<<Tier(price)>>) = {Leaf(price)}
  BY LeafIs DEF Leaf
<1> QED BY <1>1, CollectTiersIs DEF Collected

Inverses(parts) == {InvertCondition(part) : part \in Range(parts)}

LEMMA ChoiceTiers ==
  ASSUME NEW parts \in Seq(Parts), parts # <<>>, NEW price \in Nat,
         NEW rest \in Seq(Tokens), rest # <<>>
  PROVE  LET text == ChoiceText(parts, <<Tier(price)>>, rest) IN
         /\ text \in Seq(Tokens) /\ text # <<>>
         /\ CollectTiers[text] =
              {[price |-> price, conditions |-> {part \in Range(parts) : Stated(part)}]}
              \cup Under(Inverses(parts), CollectTiers[rest])
<1> DEFINE text == ChoiceText(parts, <<Tier(price)>>, rest)
<1>1. /\ text \in Seq(Tokens) /\ text # <<>>
      /\ SplitTernary(text) = << <<Tier(price)>>, rest >>
      /\ SplitConjunction(text) = Range(parts)
  BY SplitIs
<1> HIDE DEF text
<1>2. SplitTernary(text)[1] = <<Tier(price)>> /\ SplitTernary(text)[2] = rest
  BY <1>1
<1>3. SplitTernary(text) # <<>>
  BY <1>1
<1>4. CollectTiers[text] =
        Under(Range(parts), CollectTiers[<<Tier(price)>>])
        \cup Under(Inverses(parts), CollectTiers[rest])
  BY <1>1, <1>2, <1>3, CollectTiersIs DEF Collected, Inverses
<1> QED BY <1>1, <1>4, LeafTiers, UnderLeaf DEF text

(* A choice of a chain is between a tier and the rest.                      *)
NearPrice(e, n) == IF e[n].nested THEN 1 ELSE n + 1
RestPrice(e, price, n) == IF e[n].nested THEN 2 ELSE price[n - 1]
RestText(e, text, n) == IF e[n].nested THEN <<Tier(2)>> ELSE text[n - 1]

LEMMA ChainText ==
  ASSUME NEW e \in Seq(ChoiceShape), Chain(e), NEW text,
         \A n \in 0..Len(e) : text[n] \in Seq(Tokens) /\ text[n] = TextUpTo(e, text, n)
  PROVE  /\ text[0] = <<Tier(1)>>
         /\ \A n \in 1..Len(e) :
              text[n] = ChoiceText(e[n].parts, <<Tier(NearPrice(e, n))>>, RestText(e, text, n))
<1>1. text[0] = <<Tier(1)>>
  <2>1. 0 \in 0..Len(e)
    OBVIOUS
  <2>2. text[0] = TextUpTo(e, text, 0)
    BY <2>1
  <2> QED BY <2>2 DEF TextUpTo
<1>2. ASSUME NEW n \in 1..Len(e)
      PROVE  text[n] = ChoiceText(e[n].parts, <<Tier(NearPrice(e, n))>>, RestText(e, text, n))
  <2>1. text[n] = TextUpTo(e, text, n) /\ n # 0
    OBVIOUS
  <2>2. CASE e[n].nested
    <3>1. n = 1
      BY <2>2 DEF Chain
    <3>2. text[n - 1] = <<Tier(1)>> /\ n + 1 = 2
      BY <1>1, <3>1
    <3> QED BY <2>1, <2>2, <3>2 DEF TextUpTo, NearPrice, RestText
  <2>3. CASE ~e[n].nested
    BY <2>1, <2>3 DEF TextUpTo, NearPrice, RestText
  <2> QED BY <2>2, <2>3
<1> QED BY <1>1, <1>2

LEMMA ChainPrice ==
  ASSUME NEW e \in Seq(ChoiceShape), Chain(e), NEW request, NEW price,
         \A n \in 0..Len(e) : price[n] = PriceUpTo(e, request, price, n)
  PROVE  /\ price[0] = 1
         /\ \A n \in 1..Len(e) :
              price[n] = IF Met(e[n], request) THEN NearPrice(e, n) ELSE RestPrice(e, price, n)
<1>1. price[0] = 1
  BY DEF PriceUpTo
<1>2. ASSUME NEW n \in 1..Len(e)
      PROVE  price[n] = IF Met(e[n], request) THEN NearPrice(e, n) ELSE RestPrice(e, price, n)
  <2>1. price[n] = PriceUpTo(e, request, price, n) /\ n # 0
    OBVIOUS
  <2>0. e[n].nested \in BOOLEAN /\ Met(e[n], request) \in BOOLEAN
    BY ChoiceFacts DEF Met
  <2>2. CASE e[n].nested
    <3>1. n = 1
      BY <2>2 DEF Chain
    <3>2. price[n - 1] = 1 /\ n + 1 = 2
      BY <1>1, <3>1
    <3>3. price[n] = IF Met(e[n], request) THEN price[n - 1] ELSE n + 1
      BY <2>0, <2>1, <2>2 DEF PriceUpTo
    <3> QED BY <2>2, <3>2, <3>3 DEF NearPrice, RestPrice
  <2>3. CASE ~e[n].nested
    <3>1. price[n] = IF Met(e[n], request) THEN n + 1 ELSE price[n - 1]
      BY <2>0, <2>1, <2>3 DEF PriceUpTo
    <3> QED BY <2>3, <3>1 DEF NearPrice, RestPrice
  <2> QED BY <2>2, <2>3
<1> QED BY <1>1, <1>2

(* What _invert_condition makes of a condition holds exactly where that     *)
(* does not, at a threshold itself too.                                     *)
THEOREM InverseHolds ==
  ASSUME NEW part \in Parts, part # Other, NEW request \in Requests
  PROVE  /\ Holds(InvertCondition(part), request) <=> ~Holds(part, request)
         /\ Stated(InvertCondition(part))
<1>1. request.length \in Nat /\ request.peak \in BOOLEAN
  BY BillingAssumption DEF Requests
<1>2. CASE part.kind = "tier"
  <2>1. part.op \in Operators /\ part.value \in Nat /\ part = Comparison(part.op, part.value)
    BY <1>2, PartKinds DEF Time
  <2>2. InvertCondition(part) = Comparison(Inverted(part.op), part.value)
    <3>1. InvertCondition(part) = [part EXCEPT !.op = Inverted(part.op)]
      BY <1>2 DEF InvertCondition
    <3>2. [Comparison(part.op, part.value) EXCEPT !.op = Inverted(part.op)]
            = Comparison(Inverted(part.op), part.value)
      BY DEF Comparison
    <3> QED BY <2>1, <3>1, <3>2
  <2>3. Holds(InvertCondition(part), request) <=>
          Compare(Inverted(part.op), request.length, part.value)
    BY <2>2 DEF Holds, Comparison
  <2>4. Holds(part, request) <=> Compare(part.op, request.length, part.value)
    BY <1>2 DEF Holds
  <2>5. Compare(Inverted(part.op), request.length, part.value) <=>
          ~Compare(part.op, request.length, part.value)
    <3> DEFINE a == request.length
               b == part.value
    <3> HIDE DEF a, b
    <3>1. a \in Nat /\ b \in Nat
      BY <1>1, <2>1 DEF a, b
    <3>2. CASE part.op = "<"
      <4>1. Inverted(part.op) = ">="
        BY <3>2 DEF Inverted
      <4>2. (Compare(part.op, a, b) <=> a < b) /\ (Compare(">=", a, b) <=> a >= b)
        BY <3>2 DEF Compare
      <4> QED BY <3>1, <4>1, <4>2 DEF a, b
    <3>3. CASE part.op = "<="
      <4>1. Inverted(part.op) = ">"
        BY <3>3 DEF Inverted
      <4>2. (Compare(part.op, a, b) <=> a <= b) /\ (Compare(">", a, b) <=> a > b)
        BY <3>3 DEF Compare
      <4> QED BY <3>1, <4>1, <4>2 DEF a, b
    <3>4. CASE part.op = ">"
      <4>1. Inverted(part.op) = "<="
        BY <3>4 DEF Inverted
      <4>2. (Compare(part.op, a, b) <=> a > b) /\ (Compare("<=", a, b) <=> a <= b)
        BY <3>4 DEF Compare
      <4> QED BY <3>1, <4>1, <4>2 DEF a, b
    <3>5. CASE part.op = ">="
      <4>1. Inverted(part.op) = "<"
        BY <3>5 DEF Inverted
      <4>2. (Compare(part.op, a, b) <=> a >= b) /\ (Compare("<", a, b) <=> a < b)
        BY <3>5 DEF Compare
      <4> QED BY <3>1, <4>1, <4>2 DEF a, b
    <3> QED BY <2>1, <3>2, <3>3, <3>4, <3>5 DEF Operators
  <2> QED BY <2>2, <2>3, <2>4, <2>5 DEF Stated, Comparison
<1>3. CASE part.kind = "time"
  <2>1. part = Time
    BY <1>3, PartKinds
  <2>2. InvertCondition(part) = Negated
    BY <2>1 DEF InvertCondition, Time, Negated
  <2>3. Holds(Time, request) <=> request.peak # FALSE
    BY DEF Holds, Time
  <2>4. Holds(Negated, request) <=> request.peak # TRUE
    BY DEF Holds, Negated
  <2>5. Stated(Negated)
    BY DEF Negated, Stated
  <2>6. (request.peak # TRUE) <=> ~(request.peak # FALSE)
    BY <1>1
  <2> QED BY <2>1, <2>2, <2>3, <2>4, <2>5, <2>6
<1> QED BY <1>2, <1>3, PartKinds DEF Time, Comparison

LEMMA UnderIs ==
  ASSUME NEW conditions, NEW tiers \in SUBSET Tiers, NEW request
  PROVE  /\ \A tier \in Under(conditions, tiers) : \E inner \in tiers :
              /\ tier.price = inner.price
              /\ Applies(tier, request) <=>
                   /\ Applies(inner, request)
                   /\ \A part \in conditions : Stated(part) => Holds(part, request)
         /\ \A inner \in tiers : \E tier \in Under(conditions, tiers) :
              /\ tier.price = inner.price
              /\ Applies(tier, request) <=>
                   /\ Applies(inner, request)
                   /\ \A part \in conditions : Stated(part) => Holds(part, request)
<1> DEFINE added == {part \in conditions : part.kind # "raw"}
           outer(inner) == [inner EXCEPT !.conditions = @ \cup added]
<1>1. ASSUME NEW inner \in tiers
      PROVE  /\ outer(inner).price = inner.price
             /\ Applies(outer(inner), request) <=>
                  /\ Applies(inner, request)
                  /\ \A part \in conditions : Stated(part) => Holds(part, request)
  <2>1. /\ outer(inner).price = inner.price
        /\ outer(inner).conditions = inner.conditions \cup added
    BY DEF Tiers
  <2> HIDE DEF outer
  <2> QED BY <2>1 DEF Applies, Stated
<1>2. Under(conditions, tiers) = {outer(inner) : inner \in tiers}
  BY DEF Under
<1> HIDE DEF outer
<1> QED BY <1>1, <1>2

(* Of each text of a chain, the tiers.                                      *)
LEMMA ChainTypes ==
  ASSUME NEW e \in Seq(ChoiceShape), Chain(e), NEW text,
         \A n \in 0..Len(e) : text[n] \in Seq(Tokens) /\ text[n] = TextUpTo(e, text, n)
  PROVE  \A n \in 0..Len(e) : text[n] # <<>> /\ CollectTiers[text[n]] \in SUBSET Tiers
<1> DEFINE good == {n \in Nat : n <= Len(e) =>
                      text[n] # <<>> /\ CollectTiers[text[n]] \in SUBSET Tiers}
<1>0. Len(e) \in Nat
  OBVIOUS
<1>1. \A price \in Nat : {Leaf(price)} \in SUBSET Tiers
  BY DEF Leaf, Tiers
<1>2. 0 \in good
  <2>1. text[0] = <<Tier(1)>> /\ <<Tier(1)>> # <<>>
    BY ChainText
  <2> QED BY <1>1, <2>1, LeafTiers
<1>3. ASSUME NEW n \in Nat, n \in good
      PROVE  n + 1 \in good
  <2> SUFFICES ASSUME n + 1 <= Len(e)
               PROVE  /\ text[n + 1] # <<>>
                      /\ CollectTiers[text[n + 1]] \in SUBSET Tiers
    OBVIOUS
  <2> DEFINE m == n + 1
             rest == RestText(e, text, m)
             near == NearPrice(e, m)
  <2>1. m \in 1..Len(e) /\ m \in Nat /\ m - 1 = n /\ n \in 0..Len(e)
    BY <1>0
  <2> HIDE DEF m
  <2>2. e[m].parts \in Seq(Parts) /\ e[m].parts # <<>>
    BY <2>1, ChoiceFacts
  <2>3. rest \in Seq(Tokens) /\ rest # <<>> /\ CollectTiers[rest] \in SUBSET Tiers
    <3>1. <<Tier(2)>> \in Seq(Tokens) /\ <<Tier(2)>> # <<>>
      BY LeafIs
    <3>2. CollectTiers[<<Tier(2)>>] \in SUBSET Tiers
      BY <1>1, LeafTiers
    <3>3. text[n] \in Seq(Tokens) /\ text[n] # <<>> /\ CollectTiers[text[n]] \in SUBSET Tiers
      BY <1>3, <2>1
    <3> HIDE DEF good
    <3> QED BY <2>1, <3>1, <3>2, <3>3 DEF RestText
  <2>4. near \in Nat
    BY <2>1 DEF NearPrice
  <2>5. text[m] = ChoiceText(e[m].parts, <<Tier(near)>>, rest)
    BY <2>1, ChainText
  <2> HIDE DEF rest, near, good
  <2>6. /\ text[m] # <<>>
        /\ CollectTiers[text[m]] =
             {[price |-> near, conditions |-> {part \in Range(e[m].parts) : Stated(part)}]}
             \cup Under(Inverses(e[m].parts), CollectTiers[rest])
    BY <2>2, <2>3, <2>4, <2>5, ChoiceTiers
  <2>7. Range(e[m].parts) \subseteq Tokens
    BY <2>2, PartFacts DEF Range
  <2>8. Under(Inverses(e[m].parts), CollectTiers[rest]) \in SUBSET Tiers
    <3>1. Inverses(e[m].parts) \in SUBSET (Tokens \cup {Negated})
      BY <2>7, InvertType DEF Inverses
    <3> QED BY <2>3, <3>1, UnderType
  <2>9. [price |-> near, conditions |-> {part \in Range(e[m].parts) : Stated(part)}] \in Tiers
    BY <2>4, <2>7 DEF Tiers
  <2> QED BY <2>6, <2>8, <2>9 DEF m
<1>4. Nat \subseteq good
  <2> HIDE DEF good
  <2> QED BY <1>2, <1>3, NumberInduction
<1> QED BY <1>0, <1>4

(* One choice: its own tier and what is left of the rest's.                 *)
LEMMA ChainStep ==
  ASSUME NEW e \in Seq(ChoiceShape), Chain(e), NEW text,
         \A n \in 0..Len(e) : text[n] \in Seq(Tokens) /\ text[n] = TextUpTo(e, text, n),
         NEW n \in 1..Len(e)
  PROVE  LET rest == CollectTiers[RestText(e, text, n)] IN
         /\ rest \in SUBSET Tiers
         /\ CollectTiers[text[n]] =
              {[price |-> NearPrice(e, n),
                conditions |-> {part \in Range(e[n].parts) : Stated(part)}]}
              \cup Under(Inverses(e[n].parts), rest)
<1> DEFINE rest == RestText(e, text, n)
           near == NearPrice(e, n)
<1>1. e[n].parts \in Seq(Parts) /\ e[n].parts # <<>>
  BY ChoiceFacts
<1>2. n - 1 \in 0..Len(e) /\ near \in Nat
  BY DEF NearPrice
<1>3. rest \in Seq(Tokens) /\ rest # <<>> /\ CollectTiers[rest] \in SUBSET Tiers
  <2>1. <<Tier(2)>> \in Seq(Tokens) /\ <<Tier(2)>> # <<>>
    BY LeafIs
  <2>2. CollectTiers[<<Tier(2)>>] \in SUBSET Tiers
    BY LeafTiers DEF Leaf, Tiers
  <2>3. /\ text[n - 1] \in Seq(Tokens) /\ text[n - 1] # <<>>
        /\ CollectTiers[text[n - 1]] \in SUBSET Tiers
    BY <1>2, ChainTypes
  <2> QED BY <2>1, <2>2, <2>3 DEF RestText
<1>4. text[n] = ChoiceText(e[n].parts, <<Tier(near)>>, rest)
  BY ChainText
<1> HIDE DEF rest, near
<1>5. CollectTiers[text[n]] =
        {[price |-> near, conditions |-> {part \in Range(e[n].parts) : Stated(part)}]}
        \cup Under(Inverses(e[n].parts), CollectTiers[rest])
  BY <1>1, <1>2, <1>3, <1>4, ChoiceTiers
<1> QED BY <1>3, <1>5 DEF rest, near

LEMMA MetIs ==
  ASSUME NEW choice, NEW request
  PROVE  Met(choice, request) <=> \A part \in Range(choice.parts) : Holds(part, request)
BY DEF Met, Range

-----------------------------------------------------------------------------
ExprType == expr \in Seq(ChoiceShape)

(* The parser reads the text of the expression, however it is written.      *)
AllTokens == Tokens \cup Separators

LEMMA NoBars ==
  /\ \A token \in Tokens : token.kind \notin {"version", "bar"}
  /\ \A kind \in {"version", "bar"} : Mark(kind) \in AllTokens /\ Mark(kind).kind = kind
<1>1. \A token \in Tokens : token.kind \notin {"version", "bar"}
  <2>1. \A part \in Parts : part.kind \notin {"version", "bar"}
    BY PartFacts
  <2> QED BY <2>1 DEF Tokens
<1>2. \A kind \in {"version", "bar"} : Mark(kind) \in Separators /\ Mark(kind).kind = kind
  BY DEF Separators, Mark
<1> QED BY <1>1, <1>2 DEF AllTokens

LEMMA RulesType ==
  \A rules \in RequestRules :
    rules \in Seq(AllTokens) /\ <<Mark("bar")>> \o rules \in Seq(AllTokens)
<1>1. RequestRules \subseteq Seq(Tokens \cup Separators)
  BY BillingAssumption, Zenon
<1>2. RequestRules \subseteq Seq(AllTokens)
  BY <1>1, Zenon DEF AllTokens
<1>3. <<Mark("bar")>> \in Seq(AllTokens)
  BY NoBars
<1> QED BY <1>2, <1>3, ConcatProperties, Zenon

LEMMA UnbarredIs ==
  ASSUME NEW text \in Seq(Tokens), NEW rules \in Rules
  PROVE  /\ text \o rules \in Seq(AllTokens)
         /\ Body(text \o rules) = text
         /\ text \o rules # <<>> => (text \o rules)[1].kind # "version"
<1> DEFINE all == text \o rules
           bars == {i \in DOMAIN all : all[i].kind = "bar"}
           n == Len(text)
<1>1. text \in Seq(AllTokens) /\ n \in Nat
  BY DEF AllTokens
<1>2. CASE rules = <<>>
  <2>1. all = text
    BY <1>1, <1>2
  <2>2. \A i \in DOMAIN text : text[i].kind \notin {"version", "bar"}
    BY NoBars
  <2> HIDE DEF all
  <2>3. bars = {}
    BY <2>1, <2>2
  <2>4. Body(all) = text
    BY <2>1, <2>3 DEF Body
  <2>5. all # <<>> => all[1].kind # "version"
    BY <1>1, <2>1, <2>2
  <2> QED BY <1>1, <2>1, <2>4, <2>5 DEF all
<1>3. CASE rules # <<>>
  <2>1. PICK rest \in RequestRules : rules = <<Mark("bar")>> \o rest
    BY <1>3 DEF Rules
  <2>2. rest \in Seq(AllTokens) /\ Len(rest) \in Nat
    BY RulesType
  <2>3. <<Mark("bar")>> \in Seq(AllTokens)
    BY NoBars
  <2>4. rules \in Seq(AllTokens) /\ Len(rules) >= 1 /\ rules[1] = Mark("bar")
    <3> DEFINE bar == <<Mark("bar")>>
    <3>1. bar \in Seq(AllTokens) /\ Len(bar) = 1 /\ bar[1] = Mark("bar")
      BY <2>3
    <3> HIDE DEF bar
    <3>2. /\ bar \o rest \in Seq(AllTokens) /\ Len(bar \o rest) = 1 + Len(rest)
          /\ \A i \in 1..1 + Len(rest) :
               (bar \o rest)[i] = IF i <= 1 THEN bar[i] ELSE rest[i - 1]
      <4>1. /\ bar \o rest \in Seq(AllTokens) /\ Len(bar \o rest) = Len(bar) + Len(rest)
            /\ \A i \in 1..Len(bar) + Len(rest) :
                 (bar \o rest)[i] = IF i <= Len(bar) THEN bar[i] ELSE rest[i - Len(bar)]
        BY <2>2, <3>1, ConcatProperties, Zenon
      <4> QED BY <3>1, <4>1
    <3>3. (bar \o rest)[1] = Mark("bar")
      BY <2>2, <3>1, <3>2
    <3> QED BY <2>1, <2>2, <3>2, <3>3 DEF bar
  <2>5. /\ all \in Seq(AllTokens) /\ Len(all) = n + Len(rules)
        /\ \A i \in 1..n : all[i] = text[i]
        /\ all[n + 1] = Mark("bar")
    <3>1. /\ all \in Seq(AllTokens) /\ Len(all) = n + Len(rules)
          /\ \A i \in 1..Len(all) : all[i] = IF i <= n THEN text[i] ELSE rules[i - n]
      BY <1>1, <2>4, ConcatProperties
    <3>2. n + 1 \in 1..Len(all) /\ ~(n + 1 <= n) /\ (n + 1) - n = 1
      BY <1>1, <2>4, <3>1
    <3>3. 1..n \subseteq 1..Len(all)
      BY <1>1, <2>4, <3>1
    <3> HIDE DEF all
    <3> QED BY <1>1, <2>4, <3>1, <3>2, <3>3
  <2> HIDE DEF all
  <2>6. n + 1 \in bars
    BY <1>1, <2>4, <2>5, NoBars
  <2>7. \A i \in bars : n + 1 <= i
    BY <1>1, <2>5, NoBars
  <2>8. bars \in SUBSET Nat
    BY <2>5
  <2>9. Min(bars) = n + 1
    <3> HIDE DEF bars
    <3> QED BY <2>6, <2>7, <2>8, LeastIs
  <2>10. SubSeq(all, 1, n) = text
    <3>1. \A i \in 1..n : i \in 1..Len(all) /\ 1 + i - 1 = i
      BY <1>1, <2>4, <2>5
    <3>2. /\ SubSeq(all, 1, n) \in Seq(AllTokens)
          /\ Len(SubSeq(all, 1, n)) = n
          /\ \A i \in 1..n : SubSeq(all, 1, n)[i] = all[1 + i - 1]
      <4>1. 1 \in Int /\ n \in Int /\ \A i \in 1..n : all[i] \in AllTokens
        BY <1>1, <2>5, <3>1
      <4> QED BY <1>1, <2>5, <4>1, SubSeqProperties
    <3>3. \A i \in 1..n : SubSeq(all, 1, n)[i] = text[i]
      BY <2>5, <3>1, <3>2
    <3> QED BY <1>1, <3>2, <3>3, SeqEqual
  <2>11. Body(all) = text
    <3>1. (n + 1) - 1 = n
      BY <1>1
    <3> QED BY <2>6, <2>9, <2>10, <3>1 DEF Body
  <2>12. all[1].kind # "version"
    <3>1. CASE n = 0
      BY <2>5, <3>1, NoBars
    <3>2. CASE n # 0
      BY <1>1, <2>5, <3>2, NoBars
    <3> QED BY <3>1, <3>2
  <2> QED BY <2>5, <2>11, <2>12 DEF all
<1> QED BY <1>2, <1>3

LEMMA WrittenIs ==
  ASSUME NEW e \in Seq(ChoiceShape), NEW text \in Written(e)
  PROVE  ParseBillingExpr(text) = CollectTiers[Text(e)]
<1>1. Text(e) \in Seq(Tokens)
  BY TextIs
<1>2. PICK version \in Versions, rules \in Rules : text = version \o Text(e) \o rules
  BY DEF Written
<1> DEFINE rest == Text(e) \o rules
<1>3. /\ rest \in Seq(AllTokens) /\ Body(rest) = Text(e)
      /\ rest # <<>> => rest[1].kind # "version"
  BY <1>1, UnbarredIs
<1>4. rules \in Seq(AllTokens) /\ Text(e) \in Seq(AllTokens)
  <2>1. rules \in Seq(AllTokens)
    BY RulesType, EmptySeq, Zenon DEF Rules
  <2>2. Text(e) \in Seq(AllTokens)
    BY <1>1 DEF AllTokens
  <2> QED BY <2>1, <2>2
<1>5. Unversioned(text) = rest
  <2>1. CASE version = <<>>
    <3>1. text = rest
      BY <1>2, <1>4, <2>1
    <3> HIDE DEF rest
    <3> QED BY <1>3, <3>1 DEF Unversioned
  <2>2. CASE version = <<Mark("version")>>
    <3> DEFINE mark == <<Mark("version")>>
    <3>1. mark \in Seq(AllTokens) /\ Len(mark) = 1 /\ mark[1] = Mark("version")
      BY NoBars
    <3> HIDE DEF mark
    <3>2. text = mark \o rest
      BY <1>2, <1>4, <2>2, <3>1 DEF mark
    <3> HIDE DEF rest
    <3>3. /\ text \in Seq(AllTokens) /\ Len(text) = 1 + Len(rest)
          /\ text[1] = Mark("version")
          /\ \A i \in 1..Len(rest) : text[i + 1] = rest[i]
      <4>1. /\ text \in Seq(AllTokens) /\ Len(text) = 1 + Len(rest)
            /\ \A i \in 1..Len(text) : text[i] = IF i <= 1 THEN mark[i] ELSE rest[i - 1]
        BY <1>3, <3>1, <3>2, ConcatProperties
      <4>2. Len(rest) \in Nat
        BY <1>3
      <4> QED BY <3>1, <4>1, <4>2
    <3>4. text # <<>> /\ text[1].kind = "version"
      BY <1>3, <3>3, NoBars
    <3>5. Tail(text) = rest
      <4>1. /\ Tail(text) \in Seq(AllTokens) /\ Len(Tail(text)) = Len(rest)
            /\ \A i \in 1..Len(rest) : Tail(text)[i] = text[i + 1]
        BY <1>3, <3>3, <3>4
      <4> QED BY <1>3, <3>3, <4>1, SeqEqual
    <3> QED BY <3>4, <3>5 DEF Unversioned
  <2> QED BY <2>1, <2>2 DEF Versions
<1> QED BY <1>3, <1>5 DEF ParseBillingExpr

LEMMA ApplyLemma == ExprType => TiersApply
<1> SUFFICES ASSUME ExprType, Chain(expr), Known(expr), NEW request \in Requests
             PROVE  \A tier \in CollectTiers[Text(expr)] :
                      Applies(tier, request) => tier.price = Charged(expr, request)
  BY WrittenIs DEF TiersApply, ExprType
<1>0. expr \in Seq(ChoiceShape) /\ Len(expr) \in Nat
  BY DEF ExprType
<1>1. PICK text : /\ Text(expr) = text[Len(expr)]
                  /\ \A n \in 0..Len(expr) : /\ text[n] \in Seq(Tokens)
                                             /\ text[n] = TextUpTo(expr, text, n)
  BY <1>0, TextIs
<1>2. PICK price :
        /\ Charged(expr, request) = price[Len(expr)]
        /\ \A n \in 0..Len(expr) : price[n] = PriceUpTo(expr, request, price, n)
  BY <1>0, ChargedIs
<1> DEFINE right(tiers, amount) ==
             \A tier \in tiers : Applies(tier, request) => tier.price = amount
           good == {n \in Nat : n <= Len(expr) => right(CollectTiers[text[n]], price[n])}
<1>3. \A amount \in Nat : right({Leaf(amount)}, amount)
  BY DEF Leaf
<1>4. 0 \in good
  <2>1. text[0] = <<Tier(1)>>
    BY <1>0, <1>1, ChainText
  <2>2. price[0] = 1
    BY <1>0, <1>2, ChainPrice
  <2>3. CollectTiers[text[0]] = {Leaf(1)}
    BY <2>1, LeafTiers
  <2> HIDE DEF right
  <2> QED BY <1>3, <2>2, <2>3
<1>5. ASSUME NEW n \in Nat, n \in good
      PROVE  n + 1 \in good
  <2> SUFFICES ASSUME n + 1 <= Len(expr)
               PROVE  right(CollectTiers[text[n + 1]], price[n + 1])
    OBVIOUS
  <2> DEFINE m == n + 1
             choice == expr[m]
             parts == choice.parts
             rest == CollectTiers[RestText(expr, text, m)]
             near == NearPrice(expr, m)
             over == RestPrice(expr, price, m)
  <2>1. m \in 1..Len(expr) /\ m - 1 = n /\ n <= Len(expr)
    BY <1>0
  <2>2. right(CollectTiers[text[n]], price[n])
    BY <1>5, <2>1
  <2> HIDE DEF m, right, good
  <2>3. right(rest, over)
    <3>1. CASE choice.nested
      <4>1. rest = {Leaf(2)} /\ over = 2
        BY <3>1, LeafTiers DEF RestText, RestPrice
      <4> QED BY <1>3, <4>1
    <3>2. CASE ~choice.nested
      BY <2>1, <2>2, <3>2 DEF RestText, RestPrice
    <3> QED BY <3>1, <3>2
  <2>4. /\ rest \in SUBSET Tiers
        /\ CollectTiers[text[m]] =
             {[price |-> near, conditions |-> {part \in Range(parts) : Stated(part)}]}
             \cup Under(Inverses(parts), rest)
    BY <1>0, <1>1, <2>1, ChainStep
  <2>5. price[m] = IF Met(choice, request) THEN near ELSE over
    BY <1>0, <1>2, <2>1, ChainPrice
  <2>6. parts \in Seq(Parts) /\ parts # <<>>
    BY <1>0, <2>1, ChoiceFacts
  <2>7. /\ \A part \in Range(parts) : part \in Parts /\ part # Other /\ Stated(part)
        /\ Range(parts) # {}
    <3>1. \A i \in DOMAIN parts : parts[i] # Other
      BY <1>0, <2>1 DEF Known
    <3>2. \A i \in DOMAIN parts : parts[i] \in Parts
      BY <2>6
    <3>3. 1 \in DOMAIN parts
      BY <2>6
    <3>4. \A part \in Range(parts) : part \in Parts /\ part # Other
      BY <3>1, <3>2 DEF Range
    <3>5. Range(parts) # {}
      BY <3>3 DEF Range
    <3> QED BY <3>4, <3>5, PartFacts DEF Stated
  <2>8. Met(choice, request) <=> \A part \in Range(parts) : Holds(part, request)
    BY MetIs
  <2> HIDE DEF choice, parts, rest, near, over
  <2>9. ASSUME NEW tier \in CollectTiers[text[m]], Applies(tier, request)
        PROVE  tier.price = price[m]
    <3>1. CASE tier = [price |-> near, conditions |-> {part \in Range(parts) : Stated(part)}]
      <4>1. \A part \in Range(parts) : Holds(part, request)
        BY <2>7, <2>9, <3>1 DEF Applies
      <4> QED BY <2>5, <2>8, <3>1, <4>1
    <3>2. CASE tier \in Under(Inverses(parts), rest)
      <4>1. PICK inner \in rest :
              /\ tier.price = inner.price
              /\ Applies(inner, request)
              /\ \A part \in Inverses(parts) : Stated(part) => Holds(part, request)
        BY <2>4, <2>9, <3>2, UnderIs
      <4>2. \A part \in Range(parts) : ~Holds(part, request)
        BY <2>7, <4>1, InverseHolds DEF Inverses
      <4>3. ~Met(choice, request)
        BY <2>7, <2>8, <4>2
      <4>4. inner.price = over
        BY <2>3, <4>1 DEF right
      <4> QED BY <2>5, <4>1, <4>3, <4>4
    <3> QED BY <2>4, <2>9, <3>1, <3>2
  <2> QED BY <2>9 DEF right, m
<1>6. Nat \subseteq good
  <2> HIDE DEF good
  <2> QED BY <1>4, <1>5, NumberInduction
<1>7. right(CollectTiers[text[Len(expr)]], price[Len(expr)])
  BY <1>0, <1>6
<1> QED BY <1>1, <1>2, <1>7

LEMMA CoverLemma == ExprType => TiersCover
<1> SUFFICES ASSUME ExprType, Chain(expr), Single(expr), NEW request \in Requests
             PROVE  \E tier \in CollectTiers[Text(expr)] : Applies(tier, request)
  BY WrittenIs DEF TiersCover, ExprType
<1>0. expr \in Seq(ChoiceShape) /\ Len(expr) \in Nat
  BY DEF ExprType
<1>1. PICK text : /\ Text(expr) = text[Len(expr)]
                  /\ \A n \in 0..Len(expr) : /\ text[n] \in Seq(Tokens)
                                             /\ text[n] = TextUpTo(expr, text, n)
  BY <1>0, TextIs
<1> DEFINE covers(tiers) == \E tier \in tiers : Applies(tier, request)
           good == {n \in Nat : n <= Len(expr) => covers(CollectTiers[text[n]])}
<1>2. \A amount : covers({Leaf(amount)})
  BY DEF Leaf, Applies
<1>3. 0 \in good
  <2>1. text[0] = <<Tier(1)>>
    BY <1>0, <1>1, ChainText
  <2>2. CollectTiers[text[0]] = {Leaf(1)}
    BY <2>1, LeafTiers
  <2> HIDE DEF covers
  <2> QED BY <1>2, <2>2
<1>4. ASSUME NEW n \in Nat, n \in good
      PROVE  n + 1 \in good
  <2> SUFFICES ASSUME n + 1 <= Len(expr)
               PROVE  covers(CollectTiers[text[n + 1]])
    OBVIOUS
  <2> DEFINE m == n + 1
             parts == expr[m].parts
             rest == CollectTiers[RestText(expr, text, m)]
             near == NearPrice(expr, m)
             own == [price |-> near, conditions |-> {part \in Range(parts) : Stated(part)}]
  <2>1. m \in 1..Len(expr) /\ m - 1 = n /\ n <= Len(expr)
    BY <1>0
  <2>2. covers(CollectTiers[text[n]])
    BY <1>4, <2>1
  <2> HIDE DEF m, covers, good
  <2>3. covers(rest)
    <3>1. CASE expr[m].nested
      <4>1. rest = {Leaf(2)}
        BY <3>1, LeafTiers DEF RestText
      <4> QED BY <1>2, <4>1
    <3>2. CASE ~expr[m].nested
      BY <2>1, <2>2, <3>2 DEF RestText
    <3> QED BY <3>1, <3>2
  <2>4. /\ rest \in SUBSET Tiers
        /\ CollectTiers[text[m]] = {own} \cup Under(Inverses(parts), rest)
    BY <1>0, <1>1, <2>1, ChainStep
  <2>5. PICK only \in Parts : Range(parts) = {only}
    <3>1. parts \in Seq(Parts) /\ Len(parts) = 1
      BY <1>0, <2>1, ChoiceFacts DEF Single
    <3> HIDE DEF parts
    <3>2. DOMAIN parts = {1} /\ parts[1] \in Parts
      BY <3>1
    <3> QED BY <3>2 DEF Range
  <2> HIDE DEF parts, rest
  <2>6. CASE Stated(only) => Holds(only, request)
    <3>1. Applies(own, request)
      BY <2>5, <2>6 DEF Applies
    <3> HIDE DEF own
    <3> QED BY <2>4, <3>1 DEF covers, m
  <2>7. CASE Stated(only) /\ ~Holds(only, request)
    <3>1. only # Other
      BY <2>7 DEF Stated, Other
    <3>2. \A part \in Inverses(parts) : Holds(part, request)
      BY <2>5, <2>7, <3>1, InverseHolds DEF Inverses
    <3>3. PICK inner \in rest : Applies(inner, request)
      BY <2>3 DEF covers
    <3>4. \E tier \in Under(Inverses(parts), rest) : Applies(tier, request)
      BY <2>4, <3>2, <3>3, UnderIs
    <3> QED BY <2>4, <3>4 DEF covers, m
  <2> QED BY <2>6, <2>7
<1>5. Nat \subseteq good
  <2> HIDE DEF good
  <2> QED BY <1>3, <1>4, NumberInduction
<1>6. covers(CollectTiers[text[Len(expr)]])
  BY <1>0, <1>5
<1> QED BY <1>1, <1>6

-----------------------------------------------------------------------------
IInv == ExprType /\ TrendsType /\ PricingType

LEMMA InitInv == Init => IInv
BY EmptySeq DEF Init, ExprInit, TrendsInit, PricingInit, IInv, ExprType, TrendsType, PricingType

LEMMA ConditionsType ==
  ASSUME NEW shape \in Shapes, NEW parts \in Conditions(shape)
  PROVE  parts \in Seq(Parts) \ {<<>>}
<1>1. Time \in Parts /\ Other \in Parts /\ Comparisons \subseteq Parts
  BY DEF Parts, Comparisons
<1>2. \A c \in Parts : <<c>> \in Seq(Parts) \ {<<>>} /\ <<c, Time>> \in Seq(Parts) \ {<<>>}
  BY <1>1
<1>3. shape \in {"plain", "both", "other", "nested"}
  BY BillingAssumption
<1> QED BY <1>1, <1>2, <1>3 DEF Conditions

LEMMA NextInv == IInv /\ [Next]_vars => IInv'
<1> SUFFICES ASSUME IInv, [Next]_vars PROVE IInv'
  OBVIOUS
<1> USE DEF IInv, ExprType, TrendsType, PricingType
<1>1. CASE Wrap /\ UNCHANGED <<instances, upstreams>>
  <2>1. PICK shape \in Shapes : \E parts \in Conditions(shape) :
          expr' = Append(expr, [parts |-> parts, nested |-> shape = "nested"])
    BY <1>1 DEF Wrap
  <2>2. PICK parts \in Conditions(shape) :
          expr' = Append(expr, [parts |-> parts, nested |-> shape = "nested"])
    BY <2>1
  <2>3. [parts |-> parts, nested |-> shape = "nested"] \in ChoiceShape
    BY ConditionsType DEF ChoiceShape
  <2>4. expr' \in Seq(ChoiceShape)
    BY <2>2, <2>3, AppendProperties
  <2> QED BY <1>1, <2>4
<1>2. CASE AddInstance /\ UNCHANGED <<expr, upstreams>>
  <2>1. instances' \in Seq(Histories)
    BY <1>2, AppendProperties DEF AddInstance
  <2> QED BY <1>2, <2>1
<1>3. CASE AddUpstream /\ UNCHANGED <<expr, instances>>
  <2>1. upstreams' \in Seq(Upstreams)
    BY <1>3, AppendProperties DEF AddUpstream
  <2> QED BY <1>3, <2>1
<1>4. CASE UNCHANGED vars
  BY <1>4 DEF vars
<1> QED BY <1>1, <1>2, <1>3, <1>4 DEF Next

(* The inputs of the calculators keep their shape: choices with at least    *)
(* one condition, histories and upstreams of those there may be.            *)
LEMMA InputsKeepShape == Spec => []IInv
BY InitInv, NextInv, PTL DEF Spec

(* build_dashboard_trends draws every instance once a day, and never more   *)
(* than was spent since the sync before the period.                         *)
THEOREM ChartAlwaysAddsUp == Spec => []ChartAddsUp
BY InputsKeepShape, ChartLemma, PTL DEF IInv

(* Of today, a chart of any period shows no more than today_request_count,  *)
(* and the same if today has a row or no day of the period has one.         *)
THEOREM TodayAlwaysAgrees == Spec => []TodayAgrees
BY InputsKeepShape, TodayLemma, PTL DEF IInv

(* compare_pricing_models calls an instance the best one only if the        *)
(* account pays no more there than anywhere else, where the price lists     *)
(* are faithful: a price of the kind that is charged, the same in each      *)
(* group that offers the model, and the ratios of the account's groups      *)
(* stored, one of them of a group that offers the model.                    *)
THEOREM BestIsAlwaysCheapest == Spec => []BestIsCheapest
BY InputsKeepShape, BestLemma, PTL DEF IInv

(* parse_billing_expr never gives a tier conditions under which another     *)
(* price is charged, down a chain of choices, with or without a version     *)
(* before and request rules after it.                                       *)
THEOREM TiersAlwaysApply == Spec => []TiersApply
BY InputsKeepShape, ApplyLemma, PTL DEF IInv

(* ... and leaves no request without a tier, where each choice hangs on one *)
(* condition.                                                               *)
THEOREM TiersAlwaysCover == Spec => []TiersCover
BY InputsKeepShape, CoverLemma, PTL DEF IInv
=============================================================================
