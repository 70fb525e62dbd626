---------------------------- MODULE RulesProofs -----------------------------
(***************************************************************************)
(* What is proved of the rules alone, for any number of sides and tricks:  *)
(* a full trick has one taking card, what it costs is a number, and sums   *)
(* over its cards, as the price list has them, come to that number.        *)
(***************************************************************************)
EXTENDS GameRules, Functions, FiniteSetTheorems, TLAPS

-----------------------------------------------------------------------------
(* Finite sets of numbers.                                                 *)

\* A non-empty set of natural numbers has a least one.
LEMMA Least ==
    ASSUME NEW S \in SUBSET Nat, S # {}
    PROVE  \E m \in S : \A k \in S : m <= k
<1>1. PICK m \in S : \A k \in S : <<k, m>> \notin OpToRel(<, Nat)
  BY NatLessThanWellFounded, WFMin
<1>2. \A k \in S : ~(k < m)
  BY <1>1 DEF OpToRel
<1>3. QED
  BY <1>2

\* Counting cards of a table gives a natural number.
LEMMA OnTableType ==
    ASSUME NEW tab \in Seq(Card), NEW cards
    PROVE  OnTable(tab, cards) \in Nat
<1>1. IsFiniteSet(1 .. Len(tab))
  BY FS_Interval
<1>2. {i \in DOMAIN tab : tab[i] \in cards} \in SUBSET (1 .. Len(tab))
  OBVIOUS
<1>3. IsFiniteSet({i \in DOMAIN tab : tab[i] \in cards})
  BY <1>1, <1>2, FS_Subset
<1>4. QED
  BY <1>3, FS_CardinalityType DEF OnTable

-----------------------------------------------------------------------------
(* The rules.                                                              *)

\* The side after a side is a side (nxtSide, utils.cpp).
LEMMA NxtSideType == ASSUME NEW s \in Sides PROVE nxtSide(s) \in Sides
BY RulesAssumption DEF Sides, nxtSide

\* A card of a table and its rank.
LEMMA CardOnTable ==
    ASSUME NEW tab \in Seq(Card), NEW i \in DOMAIN tab
    PROVE  tab[i] \in Card /\ tab[i].val \in 2 .. Ace
<1>1. tab[i] \in Card
  OBVIOUS
<1>2. \A card \in Card : card.val \in 2 .. Ace
  BY DEF Card
<1>3. QED
  BY <1>1, <1>2

\* Among any places of a table, the first one included, one beats the others.
LEMMA BestAmong ==
    ASSUME NEW tab \in Seq(Card), NEW P \in SUBSET DOMAIN tab, 1 \in P
    PROVE  \E i \in P : \A j \in P : Beats(tab, i, j)
<1> DEFINE Following == {i \in P : tab[i].col = tab[1].col}
           Deficits == {Ace - tab[i].val : i \in Following}
<1>1. 1 \in Following
  OBVIOUS
<1>2. \A i \in DOMAIN tab : tab[i].val \in 2 .. Ace
  BY CardOnTable
<1>3. Deficits \in SUBSET Nat /\ Deficits # {}
  <2>1. \A v \in 2 .. Ace : Ace - v \in Nat
    BY DEF Ace
  <2>2. \A i \in Following : Ace - tab[i].val \in Nat
    BY <1>2, <2>1
  <2>3. QED
    BY ONLY <1>1, <2>2
<1>4. PICK d \in Deficits : \A e \in Deficits : d <= e
  BY <1>3, Least
<1> DEFINE Best == {i \in Following : Ace - tab[i].val = d}
<1>5. Best \in SUBSET Nat /\ Best # {}
  BY <1>4
<1>6. PICK i \in Best : \A j \in Best : i <= j
  BY <1>5, Least
<1>7. i \in P /\ \A j \in P : Beats(tab, i, j)
  <2> SUFFICES ASSUME NEW j \in P, tab[j].col = tab[1].col
               PROVE  tab[i].val > tab[j].val \/ (tab[i].val = tab[j].val /\ i <= j)
    BY DEF Beats
  <2>1. j \in Following /\ Ace - tab[i].val <= Ace - tab[j].val
    BY <1>4, <1>6
  <2>2. tab[i].val \in Int /\ tab[j].val \in Int
    BY <1>2
  <2>3. tab[i].val = tab[j].val => i <= j
    BY <2>1, <1>6
  <2>4. QED
    BY <2>1, <2>2, <2>3 DEF Ace
<1>8. QED
  BY <1>7

\* No two places beat each other.
LEMMA OneBest ==
    ASSUME NEW tab \in Seq(Card), NEW i \in DOMAIN tab, NEW t \in DOMAIN tab,
           Beats(tab, i, t), Beats(tab, t, i)
    PROVE  i = t
<1>1. tab[i].val \in 2 .. Ace /\ tab[t].val \in 2 .. Ace
  BY CardOnTable
<1>2. tab[i].col = tab[1].col /\ tab[t].col = tab[1].col
  BY DEF Beats
<1>3. /\ tab[i].val > tab[t].val \/ (tab[i].val = tab[t].val /\ i <= t)
      /\ tab[t].val > tab[i].val \/ (tab[t].val = tab[i].val /\ t <= i)
  BY <1>2 DEF Beats
<1>4. \A u, v \in 2 .. Ace : ~(u > v /\ v > u) /\ ~(u > v /\ v = u)
  BY DEF Ace
<1>5. i <= t /\ t <= i
  BY ONLY <1>1, <1>3, <1>4
<1>6. i \in Nat /\ t \in Nat
  OBVIOUS
<1>7. QED
  BY ONLY <1>5, <1>6

\* A trick that is not empty has a taking card: one of the lead colour that
\* no other card of that colour beats.  whoTakes relies on it when it leaves
\* its loop with the side it found.
THEOREM TrickHasTaker ==
    ASSUME NEW tab \in Seq(Card), tab # <<>>
    PROVE  /\ TakerIx(tab) \in DOMAIN tab
           /\ tab[TakerIx(tab)].col = tab[1].col
           /\ \A j \in DOMAIN tab : Beats(tab, TakerIx(tab), j)
<1>1. 1 \in DOMAIN tab
  OBVIOUS
<1>2. TakerIx(tab) \in DOMAIN tab /\ \A j \in DOMAIN tab : Beats(tab, TakerIx(tab), j)
  BY <1>1, BestAmong DEF TakerIx
<1>3. QED
  BY <1>1, <1>2 DEF Beats

\* There is only one such card, so it does not matter in which order whoTakes
\* compares them.
THEOREM TakerIsUnique ==
    ASSUME NEW tab \in Seq(Card), tab # <<>>, NEW i \in DOMAIN tab,
           \A j \in DOMAIN tab : Beats(tab, i, j)
    PROVE  i = TakerIx(tab)
BY TrickHasTaker, OneBest

\* What a trick costs is a number of points, in every kind of round.
LEMMA PenaltyType ==
    ASSUME NEW tab \in Seq(Card), NEW mode \in RoundTypes, NEW no \in Nat
    PROVE  penalty(tab, mode, no) \in Nat
<1>1. lateTrick(no) \in Nat
  BY DEF lateTrick
<1>2. /\ OnTable(tab, Hearts) \in Nat
      /\ OnTable(tab, Queens) \in Nat
      /\ OnTable(tab, KingsJacks) \in Nat
      /\ OnTable(tab, HeartKing) \in Nat
  BY OnTableType
<1>3. \A h, q, k, r, l \in Nat :
        <<1, h, 5 * q, 2 * k, 18 * r, l, 1 + l + h + 5 * q + 2 * k + 18 * r>>[mode] \in Nat
  BY SMTT(60) DEF RoundTypes
<1>4. QED
  BY ONLY <1>1, <1>2, <1>3 DEF penalty

\* A full trick is taken by a side, for a number of points.
LEMMA WhoTakesType ==
    ASSUME NEW start \in Sides, NEW tab \in Seq(Card), Len(tab) = NSides,
           NEW mode \in RoundTypes, NEW no \in Nat
    PROVE  /\ whoTakes(start, tab, mode, no).side \in Sides
           /\ whoTakes(start, tab, mode, no).pen \in Nat
<1>1. tab # <<>>
  BY RulesAssumption
<1>2. TakerIx(tab) \in 1 .. NSides
  BY <1>1, TrickHasTaker
<1>3. SideAfter(start, TakerIx(tab) - 1) \in Sides
  BY <1>2, RulesAssumption DEF SideAfter, Sides
<1>4. QED
  BY <1>3, PenaltyType DEF whoTakes

\* The provers take this for granted more readily under a name.
LEMMA EmptyLen == Len(<<>>) = 0
OBVIOUS

-----------------------------------------------------------------------------
(* Sums over finite sets.  The library's induction theorems are out of     *)
(* reach, so a counterexample is made as small as possible instead.        *)

\* Of any sets within a finite one, one is smallest.
LEMMA Smallest ==
    ASSUME NEW S, IsFiniteSet(S), NEW B \in SUBSET SUBSET S, B # {}
    PROVE  \E T \in B : \A x \in T : T \ {x} \notin B
<1> DEFINE Sizes == {Cardinality(T) : T \in B}
<1>1. \A T \in B : IsFiniteSet(T) /\ Cardinality(T) \in Nat
  BY FS_Subset, FS_CardinalityType
<1>2. PICK T \in B : \A U \in B : Cardinality(T) <= Cardinality(U)
  <2>1. Sizes \in SUBSET Nat /\ Sizes # {}
    BY <1>1
  <2>2. PICK m \in Sizes : \A k \in Sizes : m <= k
    BY <2>1, Least
  <2>3. QED
    BY <2>2
<1>3. ASSUME NEW x \in T, T \ {x} \in B
      PROVE  FALSE
  <2>1. Cardinality(T \ {x}) = Cardinality(T) - 1
    BY <1>1, FS_RemoveElement
  <2>2. QED
    BY <1>1, <1>2, <1>3, <2>1
<1>4. QED
  BY <1>3

\* The element a sum takes first, and its recursion.
First(T) == CHOOSE x \in T : TRUE
Sums(g, f, S) == g = [T \in SUBSET S |-> IF T = {} THEN 0 ELSE f[First(T)] + g[T \ {First(T)}]]

\* There is a function that satisfies it: it is reached from any function by
\* as many corrections as the set has elements.
LEMMA SumsExist ==
    ASSUME NEW S, IsFiniteSet(S), NEW f
    PROVE  \E g : Sums(g, f, S)
<1> DEFINE Right(g, T) == g[T] = IF T = {} THEN 0 ELSE f[First(T)] + g[T \ {First(T)}]
           UpTo(n) == \E g : /\ g = [T \in SUBSET S |-> g[T]]
                             /\ \A T \in SUBSET S : Cardinality(T) <= n => Right(g, T)
           Bad == {n \in Nat : ~UpTo(n)}
<1> HIDE DEF First
<1>1. \A T \in SUBSET S : /\ IsFiniteSet(T) /\ Cardinality(T) \in Nat /\ Cardinality(T) <= Cardinality(S)
                          /\ T # {} => First(T) \in T /\ Cardinality(T \ {First(T)}) = Cardinality(T) - 1
                          /\ T = {} <=> Cardinality(T) = 0
  BY FS_Subset, FS_CardinalityType, FS_RemoveElement, FS_EmptySet DEF First
<1>2. UpTo(0)
  <2> DEFINE g == [T \in SUBSET S |-> 0]
  <2>1. ASSUME NEW T \in SUBSET S, Cardinality(T) <= 0
        PROVE  T = {} /\ g[T] = 0
    <3>1. Cardinality(T) = 0
      <4>1. Cardinality(T) \in Nat
        BY <1>1
      <4>2. QED
        BY <2>1, <4>1
    <3>2. T = {}
      BY <1>1, <3>1
    <3>3. QED
      BY <3>2
  <2>2. g = [T \in SUBSET S |-> g[T]]
    OBVIOUS
  <2>3. QED
    BY <2>1, <2>2
<1>3. ASSUME NEW n \in Nat, UpTo(n)
      PROVE  UpTo(n + 1)
  <2>1. PICK g : /\ g = [T \in SUBSET S |-> g[T]]
                 /\ \A T \in SUBSET S : Cardinality(T) <= n => Right(g, T)
    BY <1>3
  <2> DEFINE h == [T \in SUBSET S |-> IF T = {} THEN 0 ELSE f[First(T)] + g[T \ {First(T)}]]
  <2>2. \A T \in SUBSET S : Cardinality(T) <= n => h[T] = g[T]
    BY <2>1
  <2>3. ASSUME NEW T \in SUBSET S, Cardinality(T) <= n + 1
        PROVE  Right(h, T)
    <3>1. CASE T = {}
      BY <3>1
    <3>2. CASE T # {}
      <4>1. T \ {First(T)} \in SUBSET S /\ Cardinality(T \ {First(T)}) <= n
        BY <1>1, <2>3, <3>2
      <4>2. h[T \ {First(T)}] = g[T \ {First(T)}]
        BY <2>2, <4>1
      <4>3. QED
        BY <3>2, <4>2
    <3>3. QED
      BY <3>1, <3>2
  <2>4. h = [T \in SUBSET S |-> h[T]]
    OBVIOUS
  <2> HIDE DEF h
  <2>5. QED
    BY <2>3, <2>4
<1>4. Bad = {}
  <2> SUFFICES ASSUME Bad # {}
               PROVE  FALSE
    OBVIOUS
  <2> HIDE DEF UpTo
  <2>1. PICK n \in Bad : \A k \in Bad : n <= k
    BY Least
  <2>2. n - 1 \in Nat
    BY <1>2, <2>1
  <2>3. n - 1 \notin Bad
    BY <2>1
  <2>4. UpTo(n - 1 + 1)
    BY <1>3, <2>2, <2>3
  <2>5. QED
    BY <2>1, <2>4
<1>5. UpTo(Cardinality(S))
  BY <1>4, FS_CardinalityType
<1>6. PICK g : /\ g = [T \in SUBSET S |-> g[T]]
               /\ \A T \in SUBSET S : Right(g, T)
  BY <1>1, <1>5
<1>7. Sums(g, f, S)
  BY <1>6 DEF Sums
<1>8. QED
  BY <1>7

\* And only one, on the sets two such functions have in common.
LEMMA SumsUnique ==
    ASSUME NEW S, IsFiniteSet(S), NEW R \in SUBSET S, NEW f, NEW g, NEW h, Sums(g, f, S), Sums(h, f, R)
    PROVE  g[R] = h[R]
<1> DEFINE B == {T \in SUBSET R : g[T] # h[T]}
<1>1. \A T \in SUBSET R : /\ T = {} => g[T] = 0 /\ h[T] = 0
                          /\ T # {} => /\ First(T) \in T
                                       /\ g[T] = f[First(T)] + g[T \ {First(T)}]
                                       /\ h[T] = f[First(T)] + h[T \ {First(T)}]
  <2>1. \A T \in SUBSET R : T \in SUBSET S
    OBVIOUS
  <2>2. \A T : T # {} => First(T) \in T
    BY DEF First
  <2>3. QED
    BY <2>1, <2>2 DEF Sums
<1>2. B = {}
  <2> SUFFICES ASSUME B # {}
               PROVE  FALSE
    OBVIOUS
  <2>1. IsFiniteSet(R) /\ B \in SUBSET SUBSET R
    BY FS_Subset
  <2>2. PICK T \in B : \A x \in T : T \ {x} \notin B
    BY <2>1, Smallest
  <2>3. T # {} /\ First(T) \in T
    BY <1>1, <2>2
  <2>4. T \ {First(T)} \in SUBSET R /\ T \ {First(T)} \notin B
    BY <2>2, <2>3
  <2>5. QED
    BY <1>1, <2>2, <2>3, <2>4
<1>3. QED
  BY <1>2

\* So the sum of a function on a set is 0, or one value and the sum of the
\* others.
LEMMA SumStep ==
    ASSUME NEW S, IsFiniteSet(S), NEW f
    PROVE  SumFunctionOnSet(f, S) =
             IF S = {} THEN 0 ELSE f[First(S)] + SumFunctionOnSet(f, S \ {First(S)})
<1> DEFINE sums(T) == CHOOSE g : Sums(g, f, T)
<1>1. \A T \in SUBSET S : Sums(sums(T), f, T)
  BY FS_Subset, SumsExist
<1>2. \A T : SumFunctionOnSet(f, T) = sums(T)[T]
  BY DEF SumFunctionOnSet, FoldFunctionOnSet, MapThenFoldSet, Sums, First
<1> HIDE DEF sums
<1> DEFINE R == S \ {First(S)}
<1>3. R \in SUBSET S /\ Sums(sums(S), f, S) /\ Sums(sums(R), f, R)
  BY <1>1
<1>4. sums(S)[R] = sums(R)[R]
  BY ONLY <1>3, IsFiniteSet(S), SumsUnique
<1>5. sums(S)[S] = IF S = {} THEN 0 ELSE f[First(S)] + sums(S)[R]
  <2>1. \A g : Sums(g, f, S) => g[S] = IF S = {} THEN 0 ELSE f[First(S)] + g[R]
    BY DEF Sums
  <2>2. QED
    BY <1>3, <2>1
<1>6. QED
  BY <1>2, <1>4, <1>5

\* A sum of numbers is a number.
LEMMA SumType ==
    ASSUME NEW S, IsFiniteSet(S), NEW f, \A x \in S : f[x] \in Nat
    PROVE  SumFunctionOnSet(f, S) \in Nat
<1> DEFINE B == {T \in SUBSET S : SumFunctionOnSet(f, T) \notin Nat}
<1> SUFFICES ASSUME B # {}
             PROVE  FALSE
  OBVIOUS
<1>1. PICK T \in B : \A x \in T : T \ {x} \notin B
  BY Smallest
<1>2. SumFunctionOnSet(f, T) = IF T = {} THEN 0 ELSE f[First(T)] + SumFunctionOnSet(f, T \ {First(T)})
  BY FS_Subset, SumStep
<1>3. T # {} /\ First(T) \in T
  BY <1>1, <1>2 DEF First
<1>4. SumFunctionOnSet(f, T \ {First(T)}) \in Nat
  BY <1>1, <1>3
<1>5. QED
  BY <1>1, <1>2, <1>3, <1>4

\* It does not depend on the element taken first.
LEMMA SumRemove ==
    ASSUME NEW S, IsFiniteSet(S), NEW f, \A x \in S : f[x] \in Nat, NEW y \in S
    PROVE  SumFunctionOnSet(f, S) = f[y] + SumFunctionOnSet(f, S \ {y})
<1> DEFINE B == {T \in SUBSET S : \E x \in T : SumFunctionOnSet(f, T) # f[x] + SumFunctionOnSet(f, T \ {x})}
<1> SUFFICES ASSUME B # {}
             PROVE  FALSE
  OBVIOUS
<1>1. PICK T \in B : \A x \in T : T \ {x} \notin B
  BY Smallest
<1>2. PICK x \in T : SumFunctionOnSet(f, T) # f[x] + SumFunctionOnSet(f, T \ {x})
  BY <1>1
<1> DEFINE c == First(T)
<1>3. c \in T /\ SumFunctionOnSet(f, T) = f[c] + SumFunctionOnSet(f, T \ {c})
  BY FS_Subset, SumStep, <1>2 DEF First
<1> HIDE DEF c
<1>4. c # x
  BY <1>2, <1>3
<1> DEFINE rest == SumFunctionOnSet(f, T \ {c, x})
<1>5. SumFunctionOnSet(f, T \ {c}) = f[x] + rest
  <2>1. (T \ {c}) \ {x} = T \ {c, x}
    OBVIOUS
  <2>2. QED
    BY <1>1, <1>3, <1>4, <2>1, ZenonT(60)
<1>6. SumFunctionOnSet(f, T \ {x}) = f[c] + rest
  <2>1. (T \ {x}) \ {c} = T \ {c, x}
    OBVIOUS
  <2>2. QED
    BY <1>1, <1>3, <1>4, <2>1
<1>7. rest \in Nat /\ f[x] \in Nat /\ f[c] \in Nat
  <2>1. IsFiniteSet(T \ {c, x})
    BY FS_Subset
  <2>2. QED
    BY <1>3, <2>1, SumType
<1> HIDE DEF rest
<1>8. f[c] + (f[x] + rest) = f[x] + (f[c] + rest)
  BY ONLY <1>7
<1>9. QED
  BY ONLY <1>2, <1>3, <1>5, <1>6, <1>8

\* What is added to the set is added to the sum.
LEMMA SumAdd ==
    ASSUME NEW S, IsFiniteSet(S), NEW f, NEW y, y \notin S, \A x \in S \cup {y} : f[x] \in Nat
    PROVE  SumFunctionOnSet(f, S \cup {y}) = f[y] + SumFunctionOnSet(f, S)
<1>1. IsFiniteSet(S \cup {y}) /\ (S \cup {y}) \ {y} = S
  BY FS_AddElement
<1>2. QED
  BY <1>1, SumRemove

\* Functions that agree on the set have one sum.
LEMMA SumSame ==
    ASSUME NEW S, IsFiniteSet(S), NEW f, NEW g, \A x \in S : f[x] = g[x]
    PROVE  SumFunctionOnSet(f, S) = SumFunctionOnSet(g, S)
<1> DEFINE B == {T \in SUBSET S : SumFunctionOnSet(f, T) # SumFunctionOnSet(g, T)}
<1> SUFFICES ASSUME B # {}
             PROVE  FALSE
  OBVIOUS
<1>1. PICK T \in B : \A x \in T : T \ {x} \notin B
  BY Smallest
<1>2. /\ SumFunctionOnSet(f, T) = IF T = {} THEN 0 ELSE f[First(T)] + SumFunctionOnSet(f, T \ {First(T)})
      /\ SumFunctionOnSet(g, T) = IF T = {} THEN 0 ELSE g[First(T)] + SumFunctionOnSet(g, T \ {First(T)})
  BY FS_Subset, SumStep
<1>3. T # {} /\ First(T) \in T
  BY <1>1, <1>2 DEF First
<1>4. SumFunctionOnSet(f, T \ {First(T)}) = SumFunctionOnSet(g, T \ {First(T)}) /\ f[First(T)] = g[First(T)]
  BY <1>1, <1>3
<1>5. QED
  BY <1>1, <1>2, <1>3, <1>4

-----------------------------------------------------------------------------
(* Prices: what whoTakes counts, card by card.                             *)

\* How many places of a table, of those in D, hold a card of a set.
Count(tab, D, cards) == Cardinality({i \in D : tab[i] \in cards})

\* One place more, and one card more if it is of the set.
LEMMA CountStep ==
    ASSUME NEW tab, NEW D, IsFiniteSet(D), NEW cards, NEW x \in D
    PROVE  /\ Count(tab, D, cards) = Count(tab, D \ {x}, cards) + IF tab[x] \in cards THEN 1 ELSE 0
           /\ Count(tab, D \ {x}, cards) \in Nat
<1> DEFINE A == {i \in D : tab[i] \in cards}
           R == {i \in D \ {x} : tab[i] \in cards}
<1>1. IsFiniteSet(R) /\ Cardinality(R) \in Nat /\ x \notin R
  <2>1. R \in SUBSET D
    OBVIOUS
  <2>2. QED
    BY <2>1, FS_Subset, FS_CardinalityType
<1>2. A = IF tab[x] \in cards THEN R \cup {x} ELSE R
  OBVIOUS
<1>3. Cardinality(R \cup {x}) = Cardinality(R) + 1
  BY <1>1, FS_AddElement
<1> HIDE DEF A, R
<1>4. Cardinality(A) = Cardinality(R) + IF tab[x] \in cards THEN 1 ELSE 0
  BY <1>1, <1>2, <1>3
<1>5. QED
  BY <1>1, <1>4 DEF Count, A, R

\* What whoTakes charges for the cards it counts.
PerCard(mode, h, q, k, r) == <<0, h, 5 * q, 2 * k, 18 * r, 0, h + 5 * q + 2 * k + 18 * r>>[mode]

CostOf(mode, card) ==
    PerCard(mode, IF card \in Hearts THEN 1 ELSE 0, IF card \in Queens THEN 1 ELSE 0,
            IF card \in KingsJacks THEN 1 ELSE 0, IF card \in HeartKing THEN 1 ELSE 0)

\* The sum over the cards comes to the same: by induction over the places.
LEMMA CardsCost ==
    ASSUME NEW tab \in Seq(Card), NEW mode \in RoundTypes,
           NEW cost, \A i \in DOMAIN tab : cost[i] = CostOf(mode, tab[i])
    PROVE  SumFunctionOnSet(cost, DOMAIN tab) =
             PerCard(mode, OnTable(tab, Hearts), OnTable(tab, Queens),
                           OnTable(tab, KingsJacks), OnTable(tab, HeartKing))
<1> DEFINE counted(D) == PerCard(mode, Count(tab, D, Hearts), Count(tab, D, Queens),
                                       Count(tab, D, KingsJacks), Count(tab, D, HeartKing))
           B == {D \in SUBSET DOMAIN tab : SumFunctionOnSet(cost, D) # counted(D)}
<1>1. IsFiniteSet(DOMAIN tab)
  <2>1. DOMAIN tab = 1 .. Len(tab) /\ Len(tab) \in Nat
    OBVIOUS
  <2>2. QED
    BY <2>1, FS_Interval
<1>2. \A i \in DOMAIN tab :
        cost[i] = PerCard(mode, IF tab[i] \in Hearts THEN 1 ELSE 0, IF tab[i] \in Queens THEN 1 ELSE 0,
                          IF tab[i] \in KingsJacks THEN 1 ELSE 0, IF tab[i] \in HeartKing THEN 1 ELSE 0)
  BY DEF CostOf
<1>3. B = {}
  <2> SUFFICES ASSUME B # {}
               PROVE  FALSE
    OBVIOUS
  <2>1. PICK D \in B : \A x \in D : D \ {x} \notin B
    BY <1>1, Smallest
  <2>2. D \in SUBSET DOMAIN tab /\ IsFiniteSet(D)
    BY <1>1, FS_Subset
  <2>3. SumFunctionOnSet(cost, D) = IF D = {} THEN 0 ELSE cost[First(D)] + SumFunctionOnSet(cost, D \ {First(D)})
    BY <2>2, SumStep
  <2>4. CASE D = {}
    <3>1. \A cards : Count(tab, D, cards) = 0
      <4>1. \A cards : {i \in D : tab[i] \in cards} = {}
        BY <2>4
      <4>2. QED
        BY <4>1, FS_EmptySet DEF Count
    <3>2. counted(D) = 0
      BY <3>1 DEF PerCard, RoundTypes
    <3>3. QED
      BY <2>1, <2>3, <2>4, <3>2
  <2>5. CASE D # {}
    <3> DEFINE x == First(D)
    <3>1. x \in D /\ D \ {x} \in SUBSET DOMAIN tab
      BY <2>2, <2>5 DEF First
    <3>2. SumFunctionOnSet(cost, D) = cost[x] + counted(D \ {x})
      BY <2>1, <2>3, <2>5, <3>1
    <3> HIDE DEF x
    <3> DEFINE one(cards) == IF tab[x] \in cards THEN 1 ELSE 0
               rest(cards) == Count(tab, D \ {x}, cards)
    <3>3. \A cards : Count(tab, D, cards) = rest(cards) + one(cards) /\ rest(cards) \in Nat /\ one(cards) \in {0, 1}
      <4> TAKE cards
      <4>1. /\ Count(tab, D, cards) = Count(tab, D \ {x}, cards) + IF tab[x] \in cards THEN 1 ELSE 0
            /\ Count(tab, D \ {x}, cards) \in Nat
        BY <2>2, <3>1, CountStep
      <4>2. QED
        BY <4>1
    <3>4. cost[x] = PerCard(mode, one(Hearts), one(Queens), one(KingsJacks), one(HeartKing))
      BY <1>2, <2>2, <3>1
    <3>5. counted(D \ {x}) = PerCard(mode, rest(Hearts), rest(Queens), rest(KingsJacks), rest(HeartKing))
      OBVIOUS
    <3> HIDE DEF one, rest
    <3>6. /\ Count(tab, D, Hearts) = rest(Hearts) + one(Hearts) /\ rest(Hearts) \in Nat /\ one(Hearts) \in {0, 1}
          /\ Count(tab, D, Queens) = rest(Queens) + one(Queens) /\ rest(Queens) \in Nat /\ one(Queens) \in {0, 1}
          /\ Count(tab, D, KingsJacks) = rest(KingsJacks) + one(KingsJacks)
          /\ rest(KingsJacks) \in Nat /\ one(KingsJacks) \in {0, 1}
          /\ Count(tab, D, HeartKing) = rest(HeartKing) + one(HeartKing)
          /\ rest(HeartKing) \in Nat /\ one(HeartKing) \in {0, 1}
      BY ONLY <3>3
    <3>7. counted(D) = PerCard(mode, Count(tab, D, Hearts), Count(tab, D, Queens),
                               Count(tab, D, KingsJacks), Count(tab, D, HeartKing))
      OBVIOUS
    <3> HIDE DEF counted
    <3>8. counted(D) = cost[x] + counted(D \ {x})
      <4>1. CASE mode = 1
        BY <3>4, <3>5, <3>6, <3>7, <4>1 DEF PerCard
      <4>2. CASE mode = 2
        BY <3>4, <3>5, <3>6, <3>7, <4>2 DEF PerCard
      <4>3. CASE mode = 3
        BY <3>4, <3>5, <3>6, <3>7, <4>3 DEF PerCard
      <4>4. CASE mode = 4
        BY <3>4, <3>5, <3>6, <3>7, <4>4 DEF PerCard
      <4>5. CASE mode = 5
        BY <3>4, <3>5, <3>6, <3>7, <4>5 DEF PerCard
      <4>6. CASE mode = 6
        BY <3>4, <3>5, <3>6, <3>7, <4>6 DEF PerCard
      <4>7. CASE mode = 7
        <5>1. counted(D) = Count(tab, D, Hearts) + 5 * Count(tab, D, Queens)
                             + 2 * Count(tab, D, KingsJacks) + 18 * Count(tab, D, HeartKing)
          BY <3>7, <4>7 DEF PerCard
        <5>2. cost[x] = one(Hearts) + 5 * one(Queens) + 2 * one(KingsJacks) + 18 * one(HeartKing)
          BY <3>4, <4>7 DEF PerCard
        <5>3. counted(D \ {x}) = rest(Hearts) + 5 * rest(Queens) + 2 * rest(KingsJacks) + 18 * rest(HeartKing)
          BY <3>5, <4>7 DEF PerCard
        <5>4. PICK h \in Nat, q \in Nat, k \in Nat, r \in Nat :
                /\ h = rest(Hearts) /\ q = rest(Queens) /\ k = rest(KingsJacks) /\ r = rest(HeartKing)
          BY <3>6
        <5>5. PICK h1 \in Nat, q1 \in Nat, k1 \in Nat, r1 \in Nat :
                /\ h1 = one(Hearts) /\ q1 = one(Queens) /\ k1 = one(KingsJacks) /\ r1 = one(HeartKing)
          BY <3>6
        <5>6. counted(D) = (h + h1) + 5 * (q + q1) + 2 * (k + k1) + 18 * (r + r1)
          BY <3>6, <5>1, <5>4, <5>5
        <5>7. (h + h1) + 5 * (q + q1) + 2 * (k + k1) + 18 * (r + r1) =
                (h1 + 5 * q1 + 2 * k1 + 18 * r1) + (h + 5 * q + 2 * k + 18 * r)
          BY ONLY h \in Nat, q \in Nat, k \in Nat, r \in Nat,
                  h1 \in Nat, q1 \in Nat, k1 \in Nat, r1 \in Nat
        <5>8. QED
          BY <5>2, <5>3, <5>4, <5>5, <5>6, <5>7
      <4>8. QED
        BY <4>1, <4>2, <4>3, <4>4, <4>5, <4>6, <4>7 DEF RoundTypes
    <3>9. QED
      BY <2>1, <3>2, <3>8
  <2>6. QED
    BY <2>4, <2>5
<1>4. SumFunctionOnSet(cost, DOMAIN tab) = counted(DOMAIN tab)
  BY <1>3
<1>5. QED
  BY <1>4 DEF Count, OnTable

\* With what the trick itself costs that is the penalty of whoTakes.
LEMMA PenaltyParts ==
    ASSUME NEW tab \in Seq(Card), NEW mode \in RoundTypes, NEW no \in Nat
    PROVE  <<1, 0, 0, 0, 0, lateTrick(no), 1 + lateTrick(no)>>[mode]
             + PerCard(mode, OnTable(tab, Hearts), OnTable(tab, Queens),
                             OnTable(tab, KingsJacks), OnTable(tab, HeartKing)) = penalty(tab, mode, no)
<1>2. /\ OnTable(tab, Hearts) \in Nat
      /\ OnTable(tab, Queens) \in Nat
      /\ OnTable(tab, KingsJacks) \in Nat
      /\ OnTable(tab, HeartKing) \in Nat
  BY OnTableType
<1>3. lateTrick(no) \in Nat
  BY DEF lateTrick
<1> DEFINE h == OnTable(tab, Hearts)
           q == OnTable(tab, Queens)
           k == OnTable(tab, KingsJacks)
           r == OnTable(tab, HeartKing)
           l == lateTrick(no)
<1>4. penalty(tab, mode, no) = <<1, h, 5 * q, 2 * k, 18 * r, l, 1 + l + h + 5 * q + 2 * k + 18 * r>>[mode]
  BY DEF penalty
<1> DEFINE price == <<1, 0, 0, 0, 0, l, 1 + l>>[mode] + PerCard(mode, h, q, k, r)
<1>5. price = <<1, 0, 0, 0, 0, l, 1 + l>>[mode] + PerCard(mode, h, q, k, r)
  OBVIOUS
<1>6. h \in Nat /\ q \in Nat /\ k \in Nat /\ r \in Nat /\ l \in Nat
  BY <1>2, <1>3
<1>7. price = penalty(tab, mode, no)
  <2> HIDE DEF h, q, k, r, l, price
  <2>1. CASE mode = 1
    BY <1>4, <1>5, <1>6, <2>1 DEF PerCard
  <2>2. CASE mode = 2
    BY <1>4, <1>5, <1>6, <2>2 DEF PerCard
  <2>3. CASE mode = 3
    BY <1>4, <1>5, <1>6, <2>3 DEF PerCard
  <2>4. CASE mode = 4
    BY <1>4, <1>5, <1>6, <2>4 DEF PerCard
  <2>5. CASE mode = 5
    BY <1>4, <1>5, <1>6, <2>5 DEF PerCard
  <2>6. CASE mode = 6
    BY <1>4, <1>5, <1>6, <2>6 DEF PerCard
  <2>7. CASE mode = 7
    BY <1>4, <1>5, <1>6, <2>7 DEF PerCard
  <2>8. QED
    BY <2>1, <2>2, <2>3, <2>4, <2>5, <2>6, <2>7 DEF RoundTypes
<1>8. QED
  BY <1>7
=============================================================================
