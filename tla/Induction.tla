----------------------------- MODULE Induction -----------------------------
(***************************************************************************)
(* Induction and recursion, stated of sets and functions, so that proofs   *)
(* can cite them as they are: the natural numbers are well ordered, finite *)
(* sets can be built one element at a time, and a recursive function       *)
(* exists where every value depends on values of lower rank only.          *)
(***************************************************************************)
EXTENDS Integers, FiniteSets, FiniteSetTheorems, WellFoundedInduction, TLAPS

LessThan == {pair \in Nat \X Nat : pair[1] < pair[2]}

LEMMA LessThanWellFounded == IsWellFoundedOn(LessThan, Nat)
BY NatLessThanWellFounded, Zenon DEF OpToRel, LessThan

(* A set of natural numbers has a least element.                            *)
LEMMA LeastNumber ==
  ASSUME NEW S \in SUBSET Nat, S # {}
  PROVE  \E least \in S : \A n \in S : least <= n
<1>1. PICK least \in S : \A n \in S : <<n, least>> \notin LessThan
  BY LessThanWellFounded, WFMin
<1>2. ASSUME NEW n \in S
      PROVE  least <= n
  <2>1. <<n, least>> \in Nat \X Nat
    OBVIOUS
  <2>2. ~(n < least)
    BY <1>1, <2>1 DEF LessThan
  <2> QED BY <2>2
<1> QED BY <1>2

(* A set of numbers that contains 0 and the successor of each.              *)
LEMMA NumberInduction ==
  ASSUME NEW S, 0 \in S, \A n \in Nat : n \in S => n + 1 \in S
  PROVE  Nat \subseteq S
<1> SUFFICES ASSUME Nat \ S # {} PROVE FALSE
  OBVIOUS
<1>1. PICK least \in Nat \ S : \A n \in Nat \ S : least <= n
  BY LeastNumber
<1>2. least - 1 \in Nat /\ least - 1 \notin S
  BY <1>1
<1> QED BY <1>1, <1>2

(* A family of subsets of a finite set that contains the empty one and,     *)
(* with each, those that have one element more.                             *)
LEMMA SubsetInduction ==
  ASSUME NEW S, IsFiniteSet(S), NEW Family,
         {} \in Family,
         \A T \in SUBSET S : \A x \in S \ T : T \in Family => T \cup {x} \in Family
  PROVE  S \in Family
<1> DEFINE sizes == {n \in Nat : \A T \in SUBSET S : Cardinality(T) = n => T \in Family}
<1>1. 0 \in sizes
  <2> SUFFICES ASSUME NEW T \in SUBSET S, Cardinality(T) = 0 PROVE T = {}
    OBVIOUS
  <2> QED BY FS_Subset, FS_EmptySet
<1>2. ASSUME NEW n \in Nat, n \in sizes
      PROVE  n + 1 \in sizes
  <2> SUFFICES ASSUME NEW T \in SUBSET S, Cardinality(T) = n + 1 PROVE T \in Family
    OBVIOUS
  <2>1. IsFiniteSet(T) /\ T # {}
    BY FS_Subset, FS_EmptySet
  <2>2. PICK x : x \in T
    BY <2>1
  <2>3. Cardinality(T \ {x}) = n
    <3>1. Cardinality(T \ {x}) = Cardinality(T) - 1
      BY <2>1, <2>2, FS_RemoveElement
    <3> QED BY <3>1
  <2>4. T \ {x} \in Family
    BY <1>2, <2>3
  <2> QED BY <2>2, <2>4, (T \ {x}) \cup {x} = T
<1>3. Nat \subseteq sizes
  <2> HIDE DEF sizes
  <2> QED BY <1>1, <1>2, NumberInduction
<1>4. Cardinality(S) \in Nat
  BY FS_CardinalityType
<1> QED BY <1>3, <1>4

(* What holds of an element if it holds of all of lower rank.               *)
LEMMA RankInduction ==
  ASSUME NEW D, NEW rank \in [D -> Nat], NEW T,
         \A x \in D : (\A y \in D : rank[y] < rank[x] => y \in T) => x \in T
  PROVE  D \subseteq T
<1> DEFINE below == {n \in Nat : \A x \in D : rank[x] < n => x \in T}
<1>1. 0 \in below
  OBVIOUS
<1>2. ASSUME NEW n \in Nat, n \in below
      PROVE  n + 1 \in below
  BY <1>2
<1>3. Nat \subseteq below
  <2> HIDE DEF below
  <2> QED BY <1>1, <1>2, NumberInduction
<1>4. \A x \in D : rank[x] + 1 \in below
  BY <1>3
<1> QED BY <1>4

-----------------------------------------------------------------------------
(* The functions that satisfy a recursion up to a rank.                     *)
Solves(g, F, rank, n) ==
  \A x \in DOMAIN rank : rank[x] < n => g[x] = F[g][x]

(* F makes a function on D of another, each value of lower ranks only.      *)
Recursion(F, rank, D, V) ==
  /\ rank \in [D -> Nat]
  /\ F \in [[D -> V] -> [D -> V]]
  /\ \A g, h \in [D -> V] : \A x \in D :
       (\A y \in D : rank[y] < rank[x] => g[y] = h[y]) => F[g][x] = F[h][x]

LEMMA SolutionsAgree ==
  ASSUME NEW D, NEW V, NEW F, NEW rank, Recursion(F, rank, D, V),
         NEW n \in Nat, NEW g \in [D -> V], NEW h \in [D -> V],
         Solves(g, F, rank, n), Solves(h, F, rank, n)
  PROVE  \A x \in D : rank[x] < n => g[x] = h[x]
<1>0. rank \in [D -> Nat] /\ F \in [[D -> V] -> [D -> V]]
  BY DEF Recursion
<1> USE <1>0
<1> DEFINE agree == {m \in Nat : \A x \in D : rank[x] < m /\ m <= n => g[x] = h[x]}
<1>1. 0 \in agree
  OBVIOUS
<1>2. ASSUME NEW m \in Nat, m \in agree
      PROVE  m + 1 \in agree
  <2> SUFFICES ASSUME NEW x \in D, rank[x] < m + 1, m + 1 <= n
               PROVE  g[x] = h[x]
    OBVIOUS
  <2>1. \A y \in D : rank[y] < rank[x] => g[y] = h[y]
    BY <1>2
  <2>2. F[g][x] = F[h][x]
    BY <2>1 DEF Recursion
  <2>3. rank[x] < n
    OBVIOUS
  <2> QED BY <2>2, <2>3 DEF Solves
<1>3. Nat \subseteq agree
  <2> HIDE DEF agree
  <2> QED BY <1>1, <1>2, NumberInduction
<1> QED BY <1>3

LEMMA SolutionUpTo ==
  ASSUME NEW D, NEW V, V # {}, NEW F, NEW rank, Recursion(F, rank, D, V)
  PROVE  \A n \in Nat : \E g \in [D -> V] : Solves(g, F, rank, n)
<1>0. rank \in [D -> Nat] /\ F \in [[D -> V] -> [D -> V]]
  BY DEF Recursion
<1> USE <1>0
<1> DEFINE solved == {n \in Nat : \E g \in [D -> V] : Solves(g, F, rank, n)}
<1>1. 0 \in solved
  <2>1. PICK v : v \in V
    OBVIOUS
  <2>2. [x \in D |-> v] \in [D -> V]
    BY <2>1
  <2>3. Solves([x \in D |-> v], F, rank, 0)
    BY DEF Solves
  <2> QED BY <2>2, <2>3
<1>2. ASSUME NEW n \in Nat, n \in solved
      PROVE  n + 1 \in solved
  <2>1. PICK g \in [D -> V] : Solves(g, F, rank, n)
    BY <1>2
  <2>2. F[g] \in [D -> V]
    OBVIOUS
  <2>3. ASSUME NEW x \in D, rank[x] < n + 1
        PROVE  F[g][x] = F[F[g]][x]
    <3>1. \A y \in D : rank[y] < rank[x] => g[y] = F[g][y]
      BY <2>1, <2>3 DEF Solves
    <3> QED BY <2>2, <3>1 DEF Recursion
  <2>4. Solves(F[g], F, rank, n + 1)
    BY <2>3 DEF Solves
  <2> QED BY <2>2, <2>4
<1>3. Nat \subseteq solved
  <2> HIDE DEF solved
  <2> QED BY <1>1, <1>2, NumberInduction
<1> QED BY <1>3

(* A recursion on lower ranks has a solution.                               *)
LEMMA RecursionSolved ==
  ASSUME NEW D, NEW V, V # {}, NEW F, NEW rank, Recursion(F, rank, D, V)
  PROVE  \E g \in [D -> V] : g = F[g]
<1>0. rank \in [D -> Nat] /\ F \in [[D -> V] -> [D -> V]]
  BY DEF Recursion
<1> USE <1>0
<1> DEFINE upTo(n) == CHOOSE g \in [D -> V] : Solves(g, F, rank, n)
<1> DEFINE all == [x \in D |-> upTo(rank[x] + 1)[x]]
<1>1. \A n \in Nat : upTo(n) \in [D -> V] /\ Solves(upTo(n), F, rank, n)
  BY SolutionUpTo
<1> HIDE DEF upTo
<1>2. all \in [D -> V]
  BY <1>1
<1>3. ASSUME NEW x \in D
      PROVE  all[x] = F[all][x]
  <2> DEFINE g == upTo(rank[x] + 1)
  <2>1. g \in [D -> V] /\ Solves(g, F, rank, rank[x] + 1)
    BY <1>1
  <2>2. ASSUME NEW y \in D, rank[y] < rank[x]
        PROVE  all[y] = g[y]
    <3>1. PICK n \in Nat : n = rank[y] + 1
      OBVIOUS
    <3> DEFINE h == upTo(n)
    <3>2. h \in [D -> V] /\ Solves(h, F, rank, n)
      BY <1>1
    <3>3. Solves(g, F, rank, n)
      BY <2>1, <2>2, <3>1 DEF Solves
    <3>4. all[y] = h[y]
      BY <3>1
    <3> HIDE DEF g, h
    <3>5. \A z \in D : rank[z] < n => g[z] = h[z]
      BY <2>1, <3>2, <3>3, SolutionsAgree
    <3> QED BY <3>1, <3>4, <3>5
  <2>3. all[x] = g[x]
    OBVIOUS
  <2> HIDE DEF g, all
  <2>4. F[all][x] = F[g][x]
    BY <1>2, <2>1, <2>2 DEF Recursion
  <2>5. rank[x] < rank[x] + 1
    OBVIOUS
  <2> QED BY <2>1, <2>3, <2>4, <2>5 DEF Solves
<1>4. F[all] \in [D -> V]
  BY <1>2
<1> HIDE DEF all
<1>5. all = F[all]
  BY <1>2, <1>3, <1>4
<1> QED BY <1>2, <1>5
=============================================================================
