----------------------------- MODULE CodecProofs -----------------------------
(***************************************************************************)
(* What is proved of the loops over a table and over a text.  The loops of *)
(* whoTakes find the taker the rules name, and its charge adds up card by  *)
(* card, for any number of sides and tricks.  With the four sides and the  *)
(* thirteen tricks the patterns are written for, every message and every   *)
(* scenario file is read as what was written, whatever the cards and the   *)
(* scores.                                                                 *)
(***************************************************************************)
EXTENDS MCRules, RulesProofs

-----------------------------------------------------------------------------
(* Loops.  The fold of a sequence is a recursion over sets of its places,  *)
(* the highest place last.                                                 *)

\* The highest of some places, and the places before it.
LEMMA Highest ==
    ASSUME NEW n \in Nat, NEW T \in SUBSET (1 .. n)
    PROVE  /\ IsFiniteSet(T) /\ Cardinality(T) \in 0 .. n
           /\ T = {} <=> Cardinality(T) = 0
           /\ T # {} => /\ Max(T) \in T /\ \A i \in T : i <= Max(T)
                        /\ Cardinality(T \ {Max(T)}) = Cardinality(T) - 1
<1>1. IsFiniteSet(1 .. n) /\ Cardinality(1 .. n) = n
  BY FS_Interval
<1>2. /\ IsFiniteSet(T) /\ Cardinality(T) \in Nat /\ Cardinality(T) <= n
      /\ T = {} <=> Cardinality(T) = 0
  <2>1. IsFiniteSet(T) /\ Cardinality(T) <= n
    BY <1>1, FS_Subset
  <2>2. Cardinality(T) \in Nat /\ (T = {} <=> Cardinality(T) = 0)
    BY <2>1, FS_CardinalityType, FS_EmptySet
  <2>3. QED
    BY <2>1, <2>2
<1>3. ASSUME T # {}
      PROVE  Max(T) \in T /\ \A i \in T : i <= Max(T)
  <2> DEFINE Short == {n - i : i \in T}
  <2>1. Short \in SUBSET Nat /\ Short # {}
    BY <1>3
  <2>2. PICK d \in Short : \A e \in Short : d <= e
    BY <2>1, Least
  <2>3. PICK m \in T : d = n - m
    BY <2>2
  <2>4. ASSUME NEW i \in T
        PROVE  m >= i
    <3>1. n - m <= n - i
      BY <2>2, <2>3
    <3>2. m \in Int /\ i \in Int
      OBVIOUS
    <3>3. QED
      BY ONLY <3>1, <3>2, n \in Nat
  <2>5. Max(T) \in T /\ \A i \in T : Max(T) >= i
    BY <2>4 DEF Max
  <2>6. QED
    BY <2>5
<1>4. T # {} => Cardinality(T \ {Max(T)}) = Cardinality(T) - 1
  BY <1>2, <1>3, FS_RemoveElement
<1>5. QED
  BY <1>2, <1>3, <1>4

\* A loop that runs n times goes through some values: next is what it makes
\* of the one before.
Runs(g, next, value, n) ==
    /\ g = [T \in SUBSET (1 .. n) |-> IF T = {} THEN value[0] ELSE next[T]]
    /\ \A k \in 1 .. n : g[1 .. k - 1] = value[k - 1] => next[1 .. k] = value[k]

\* It ends with the last of them.
LEMMA LoopEnds ==
    ASSUME NEW n \in Nat, NEW g, NEW next, NEW value, Runs(g, next, value, n)
    PROVE  g[1 .. n] = value[n]
<1>0. /\ g = [T \in SUBSET (1 .. n) |-> IF T = {} THEN value[0] ELSE next[T]]
      /\ \A k \in 1 .. n : g[1 .. k - 1] = value[k - 1] => next[1 .. k] = value[k]
  BY DEF Runs
<1> DEFINE Bad == {k \in 0 .. n : g[1 .. k] # value[k]}
<1>1. Bad = {}
  <2> SUFFICES ASSUME Bad # {}
               PROVE  FALSE
    OBVIOUS
  <2>1. PICK k \in Bad : \A j \in Bad : k <= j
    <3>1. Bad \in SUBSET Nat
      OBVIOUS
    <3>2. QED
      BY <3>1, Least
  <2>2. CASE k = 0
    <3>1. 1 .. k = {}
      BY <2>2
    <3>2. QED
      BY <1>0, <2>1, <2>2, <3>1
  <2>3. CASE k # 0
    <3>1. k \in 1 .. n
      BY <2>3
    <3>2. k - 1 \in 0 .. n /\ k - 1 \notin Bad
      BY <2>1, <2>3
    <3>3. next[1 .. k] = value[k]
      BY <1>0, <3>1, <3>2
    <3>4. 1 .. k # {} /\ 1 .. k \in SUBSET (1 .. n)
      BY ONLY <3>1, n \in Nat
    <3>5. g[1 .. k] = next[1 .. k]
      BY <1>0, <3>4
    <3>6. QED
      BY <2>1, <3>3, <3>5
  <2>4. QED
    BY <2>2, <2>3
<1>2. QED
  BY <1>1

\* The places up to k, the highest of them, and those before it.
LEMMA UpTo ==
    ASSUME NEW n \in Nat, NEW k \in 1 .. n
    PROVE  Max(1 .. k) = k /\ (1 .. k) \ {k} = 1 .. k - 1
<1>1. (1 .. k) \in SUBSET (1 .. n) /\ (1 .. k) # {}
  OBVIOUS
<1>2. Max(1 .. k) \in 1 .. k /\ \A i \in 1 .. k : i <= Max(1 .. k)
  BY <1>1, Highest
<1>3. Max(1 .. k) = k
  BY <1>2
<1>4. QED
  BY <1>3

-----------------------------------------------------------------------------
(* whoTakes.                                                               *)

\* What the running best card is when the loop has come to some places: the
\* place that beats them all.
Seen(T) == {1} \cup {i + 1 : i \in T}
BestOf(table, P) == CHOOSE i \in P : \A j \in P : Beats(table, i, j)

\* The loop that looks for the best card finds the taking one.
LEMMA LoopFindsBest ==
    ASSUME NEW table \in Seq(Card), Len(table) = NSides
    PROVE  takerIxLoop(table) = TakerIx(table)
<1> DEFINE n == NSides - 1
           ids == [i \in 1 .. n |-> i + 1]
           Better(best, i) == IF /\ table[i].col = table[1].col
                                 /\ table[i].val > table[best].val THEN i ELSE best
           Step(g, T) == Better(g[T \ {Max(T)}], ids[Max(T)])
           Loop(g) == g = [T \in SUBSET (1 .. n) |-> IF T = {} THEN 1 ELSE Step(g, T)]
<1>1. n \in Nat /\ NSides \in Nat \ {0} /\ DOMAIN table = 1 .. NSides /\ DOMAIN ids = 1 .. n
  BY RulesAssumption
<1>2. takerIxLoop(table) = (CHOOSE g : Loop(g))[1 .. n]
  BY <1>1 DEF takerIxLoop, FoldLeft, MapThenFoldSet
<1>3. \A T \in SUBSET (1 .. n) : /\ Seen(T) \in SUBSET DOMAIN table
                                 /\ BestOf(table, Seen(T)) \in Seen(T)
                                 /\ \A j \in Seen(T) : Beats(table, BestOf(table, Seen(T)), j)
  <2> TAKE T \in SUBSET (1 .. n)
  <2>1. Seen(T) \in SUBSET DOMAIN table /\ 1 \in Seen(T)
    BY <1>1 DEF Seen
  <2>2. \E i \in Seen(T) : \A j \in Seen(T) : Beats(table, i, j)
    BY <2>1, BestAmong
  <2>3. QED
    BY <2>1, <2>2 DEF BestOf
<1>4. ASSUME NEW T \in SUBSET (1 .. n), T # {}
      PROVE  Better(BestOf(table, Seen(T \ {Max(T)})), ids[Max(T)]) = BestOf(table, Seen(T))
  <2> DEFINE R == T \ {Max(T)}
             b == BestOf(table, Seen(R))
             m == Max(T) + 1
             c == Better(b, m)
  <2>1. Max(T) \in T /\ \A i \in T : i <= Max(T)
    BY <1>1, <1>4, Highest
  <2>2. Seen(T) = Seen(R) \cup {m} /\ m \in DOMAIN table /\ ids[Max(T)] = m
    <3>1. Seen(T) = Seen(R) \cup {m}
      <4>1. T = R \cup {Max(T)}
        BY <2>1
      <4>2. QED
        BY ONLY <4>1, m = Max(T) + 1 DEF Seen
    <3>2. Max(T) \in 1 .. n
      BY <2>1
    <3>3. QED
      BY <1>1, <3>1, <3>2
  <2>3. \A j \in Seen(R) : j < m
    <3>1. Max(T) \in 1 .. n /\ \A i \in R : i \in 1 .. n /\ i <= Max(T) /\ i # Max(T)
      BY <2>1
    <3> DEFINE x == Max(T)
    <3>2. \A i \in R : i + 1 < m
      <4>1. \A i \in 1 .. n : i <= x /\ i # x => i + 1 < x + 1
        BY <1>1, <3>1
      <4>2. QED
        BY <3>1, <4>1
    <3>3. 1 < m
      BY <1>1, <3>1
    <3>4. QED
      BY <3>2, <3>3 DEF Seen
  <2>4. b \in Seen(R) /\ b \in DOMAIN table /\ \A j \in Seen(R) : Beats(table, b, j)
    BY <1>3
  <2>5. \A i \in DOMAIN table : table[i].val \in Int /\ i \in Int
    BY CardOnTable DEF Ace
  <2>6. 1 \in Seen(R) /\ Seen(R) \in SUBSET DOMAIN table
    BY <1>3 DEF Seen
  <2> HIDE DEF R, b, m
  <2>7. table[b].col = table[1].col
    BY <2>4, <2>6 DEF Beats
  <2>8. c \in Seen(T) /\ \A j \in Seen(T) : Beats(table, c, j)
    <3>1. CASE table[m].col = table[1].col /\ table[m].val > table[b].val
      <4>1. \A j \in Seen(R) : Beats(table, m, j)
        BY <2>2, <2>4, <2>5, <2>6, <2>7, <3>1 DEF Beats
      <4>2. Beats(table, m, m)
        BY <2>2, <2>5, <3>1 DEF Beats
      <4>3. QED
        BY <2>2, <3>1, <4>1, <4>2
    <3>2. CASE ~(table[m].col = table[1].col /\ table[m].val > table[b].val)
      <4>1. Beats(table, b, m)
        BY <2>2, <2>3, <2>4, <2>5, <2>7, <3>2 DEF Beats
      <4>2. QED
        BY <2>2, <2>4, <3>2, <4>1
    <3>3. QED
      BY <3>1, <3>2
  <2> HIDE DEF c
  <2>9. c = BestOf(table, Seen(T))
    <3>1. /\ BestOf(table, Seen(T)) \in Seen(T)
          /\ \A j \in Seen(T) : Beats(table, BestOf(table, Seen(T)), j)
          /\ Seen(T) \in SUBSET DOMAIN table
      BY <1>3, <1>4
    <3>2. QED
      BY <2>8, <3>1, OneBest
  <2>10. QED
    BY <2>2, <2>9 DEF R, b, m, c
<1>5. BestOf(table, Seen({})) = 1
  <2>1. {} \in SUBSET (1 .. n) /\ Seen({}) = {1}
    BY DEF Seen
  <2>2. QED
    BY <1>3, <2>1
<1>6. \E g : Loop(g)
  <2> DEFINE g == [T \in SUBSET (1 .. n) |-> BestOf(table, Seen(T))]
  <2>1. \A T \in SUBSET (1 .. n) : g[T] = IF T = {} THEN 1 ELSE Step(g, T)
    <3> TAKE T \in SUBSET (1 .. n)
    <3>1. T \ {Max(T)} \in SUBSET (1 .. n)
      OBVIOUS
    <3>2. CASE T = {}
      BY <1>5, <3>2
    <3>3. CASE T # {}
      <4>1. g[T \ {Max(T)}] = BestOf(table, Seen(T \ {Max(T)}))
        BY <3>1
      <4> HIDE DEF Better
      <4>2. QED
        BY <1>4, <3>3, <4>1
    <3>4. QED
      BY <3>2, <3>3
  <2>2. g = [T \in SUBSET (1 .. n) |-> g[T]]
    OBVIOUS
  <2> HIDE DEF g
  <2>3. Loop(g)
    BY <2>1, <2>2
  <2>4. QED
    BY <2>3
<1>7. PICK g : Loop(g) /\ takerIxLoop(table) = g[1 .. n]
  BY <1>2, <1>6
<1>8. g[1 .. n] = BestOf(table, Seen(1 .. n))
  <2> DEFINE next == [T \in SUBSET (1 .. n) |-> Step(g, T)]
             value == [k \in 0 .. n |-> BestOf(table, Seen(1 .. k))]
  <2>1. value[0] = 1
    <3>1. 1 .. 0 = {}
      OBVIOUS
    <3>2. QED
      BY <1>1, <1>5, <3>1
  <2>2. g = [T \in SUBSET (1 .. n) |-> IF T = {} THEN value[0] ELSE next[T]]
    <3>1. \A T \in SUBSET (1 .. n) : next[T] = Step(g, T)
      OBVIOUS
    <3> HIDE DEF next, Step
    <3>2. QED
      BY <1>7, <2>1, <3>1
  <2>3. ASSUME NEW k \in 1 .. n, g[1 .. k - 1] = value[k - 1]
        PROVE  next[1 .. k] = value[k]
    <3> HIDE DEF n
    <3>1. Max(1 .. k) = k /\ (1 .. k) \ {k} = 1 .. k - 1
      BY ONLY <1>1, k \in 1 .. n, UpTo
    <3> USE DEF n
    <3>2. (1 .. k) \in SUBSET (1 .. n) /\ (1 .. k) # {} /\ k \in 0 .. n /\ k - 1 \in 0 .. n
      BY <1>1
    <3>3. next[1 .. k] = Better(BestOf(table, Seen(1 .. k - 1)), ids[k])
      BY <2>3, <3>1, <3>2
    <3> HIDE DEF Better, next
    <3>4. QED
      BY <1>4, <3>1, <3>2, <3>3
  <2> HIDE DEF n, next, value
  <2>4. Runs(g, next, value, n)
    BY <2>2, <2>3 DEF Runs
  <2>5. g[1 .. n] = value[n]
    BY <1>1, <2>4, LoopEnds
  <2>6. QED
    BY <1>1, <2>5 DEF value
<1>9. Seen(1 .. n) = DOMAIN table
  <2>1. \A i \in 1 .. n : i + 1 \in DOMAIN table
    BY <1>1
  <2>2. 1 \in DOMAIN table
    BY <1>1
  <2>3. \A j \in DOMAIN table : j = 1 \/ (j - 1 \in 1 .. n /\ (j - 1) + 1 = j)
    BY <1>1
  <2> HIDE DEF n
  <2>4. QED
    BY <2>1, <2>2, <2>3 DEF Seen
<1>10. QED
  BY <1>7, <1>8, <1>9 DEF BestOf, TakerIx

\* The loop that walks to it comes to its side.
LEMMA LoopFindsSide ==
    ASSUME NEW table \in Seq(Card), Len(table) = NSides, lead \in Sides
    PROVE  takerLoop(table) = SideAfter(lead, TakerIx(table) - 1)
<1> DEFINE n == TakerIx(table) - 1
           ids == [i \in 1 .. n |-> i]
           Loop(g) == g = [T \in SUBSET (1 .. n) |-> IF T = {} THEN lead ELSE nxtSide(g[T \ {Max(T)}])]
<1>1. NSides \in Nat \ {0} /\ n \in 0 .. NSides - 1 /\ DOMAIN ids = 1 .. n
  <2>1. table # <<>>
    BY RulesAssumption
  <2>2. TakerIx(table) \in 1 .. NSides
    BY <2>1, TrickHasTaker
  <2>3. QED
    BY <2>2, RulesAssumption
<1>2. takerLoop(table) = (CHOOSE g : Loop(g))[1 .. n]
  <2>1. takerLoop(table) = FoldLeft(LAMBDA s, i : nxtSide(s), lead, ids)
    BY LoopFindsBest, Zenon DEF takerLoop
  <2> HIDE DEF n
  <2>2. QED
    BY <1>1, <2>1 DEF FoldLeft, MapThenFoldSet
<1>3. \A k \in 1 .. n : nxtSide(SideAfter(lead, k - 1)) = SideAfter(lead, k)
  BY <1>1 DEF nxtSide, SideAfter, Sides
<1>4. SideAfter(lead, 0) = lead
  BY <1>1 DEF SideAfter, Sides
<1> HIDE DEF n, ids
<1>5. \E g : Loop(g)
  <2> DEFINE g == [T \in SUBSET (1 .. n) |-> SideAfter(lead, Cardinality(T))]
  <2>1. ASSUME NEW T \in SUBSET (1 .. n)
        PROVE  g[T] = IF T = {} THEN lead ELSE nxtSide(g[T \ {Max(T)}])
    <3>1. /\ T = {} <=> Cardinality(T) = 0
          /\ T # {} => Cardinality(T) \in 1 .. n /\ Cardinality(T \ {Max(T)}) = Cardinality(T) - 1
      <4>1. n \in Nat
        BY <1>1
      <4>2. /\ Cardinality(T) \in 0 .. n
            /\ T = {} <=> Cardinality(T) = 0
            /\ T # {} => Cardinality(T \ {Max(T)}) = Cardinality(T) - 1
        BY ONLY <4>1, T \in SUBSET (1 .. n), Highest
      <4>3. PICK c \in 0 .. n : c = Cardinality(T)
        BY <4>2
      <4>4. c # 0 => c \in 1 .. n
        BY ONLY <4>1, c \in 0 .. n
      <4>5. QED
        BY ONLY <4>2, <4>3, <4>4
    <3>2. T \ {Max(T)} \in SUBSET (1 .. n)
      OBVIOUS
    <3>3. CASE T = {}
      BY <1>4, <3>1, <3>3
    <3>4. CASE T # {}
      BY <1>3, <3>1, <3>2, <3>4
    <3>5. QED
      BY <3>3, <3>4
  <2>2. g = [T \in SUBSET (1 .. n) |-> g[T]]
    OBVIOUS
  <2> HIDE DEF g
  <2>3. Loop(g)
    BY <2>1, <2>2
  <2>4. QED
    BY <2>3
<1>6. PICK g : Loop(g) /\ takerLoop(table) = g[1 .. n]
  BY <1>2, <1>5
<1>7. g[1 .. n] = SideAfter(lead, n)
  <2> DEFINE next == [T \in SUBSET (1 .. n) |-> nxtSide(g[T \ {Max(T)}])]
             value == [k \in 0 .. n |-> SideAfter(lead, k)]
  <2>1. value[0] = lead
    BY <1>1, <1>4
  <2>2. g = [T \in SUBSET (1 .. n) |-> IF T = {} THEN value[0] ELSE next[T]]
    BY <1>6, <2>1
  <2>3. ASSUME NEW k \in 1 .. n, g[1 .. k - 1] = value[k - 1]
        PROVE  next[1 .. k] = value[k]
    <3>1. Max(1 .. k) = k /\ (1 .. k) \ {k} = 1 .. k - 1
      BY ONLY <1>1, k \in 1 .. n, UpTo
    <3>2. (1 .. k) \in SUBSET (1 .. n) /\ k \in 0 .. n /\ k - 1 \in 0 .. n
      BY <1>1
    <3>3. QED
      BY <1>3, <2>3, <3>1, <3>2
  <2> HIDE DEF next, value
  <2>4. Runs(g, next, value, n)
    BY <2>2, <2>3 DEF Runs
  <2>5. g[1 .. n] = value[n]
    BY <1>1, <2>4, LoopEnds
  <2>6. QED
    BY <1>1, <2>5 DEF value
<1>8. QED
  BY <1>6, <1>7 DEF n

-----------------------------------------------------------------------------
(* The price list.                                                         *)

\* A card of the price list is what whoTakes counts for it.
LEMMA ListedCost ==
    ASSUME NEW kind \in RoundTypes, NEW card \in Card
    PROVE  Prices!CardCost(kind, card) = CostOf(kind, card)
<1>1. /\ card \in Hearts <=> card.col = "H"
      /\ card \in Queens <=> card.val = 12
      /\ card \in KingsJacks <=> card.val \in {13, 11}
      /\ card \in HeartKing <=> card.val = 13 /\ card.col = "H"
  BY DEF Hearts, Queens, KingsJacks, HeartKing, Card, Queen, King, Jack
<1>2. QED
  BY <1>1, SMTT(60) DEF Prices!CardCost, Prices!Queen, Prices!King, Prices!Jack, CostOf, PerCard, RoundTypes

\* A trick costs what the list charges for its cards and its number.
LEMMA ListedPrice ==
    ASSUME NEW table \in Seq(Card), NEW kind \in RoundTypes, NEW k \in Nat
    PROVE  Prices!Price(kind, k, table) = penalty(table, kind, k)
<1> DEFINE cost == [i \in DOMAIN table |-> Prices!CardCost(kind, table[i])]
<1>1. Prices!Price(kind, k, table) = Prices!TrickCost(kind, k) + SumFunctionOnSet(cost, DOMAIN table)
  BY DEF Prices!Price, Prices!SumFunction, Prices!SumFunctionOnSet, Prices!FoldFunctionOnSet,
         Prices!MapThenFoldSet, SumFunctionOnSet, FoldFunctionOnSet, MapThenFoldSet
<1>2. Prices!TrickCost(kind, k) = <<1, 0, 0, 0, 0, lateTrick(k), 1 + lateTrick(k)>>[kind]
  BY DEF lateTrick, Prices!TrickCost
<1>3. \A i \in DOMAIN table : cost[i] = CostOf(kind, table[i])
  BY CardOnTable, ListedCost
<1> HIDE DEF cost
<1>4. SumFunctionOnSet(cost, DOMAIN table) = PerCard(kind, OnTable(table, Hearts), OnTable(table, Queens),
                                                     OnTable(table, KingsJacks), OnTable(table, HeartKing))
  BY <1>3, CardsCost
<1>5. QED
  BY <1>1, <1>2, <1>4, PenaltyParts

-----------------------------------------------------------------------------
(* The tricks that are laid.                                               *)

\* A table of cards, a kind of round, a trick number and a side that leads.
LaidOut ==
    /\ tab \in Seq(Deck) /\ Len(tab) <= NSides
    /\ mode \in RoundTypes
    /\ no \in {1, 7, 10, TricksPerRound}
    /\ lead \in Sides

\* The deck has cards only.
LEMMA DeckOfCards == Deck \subseteq Card
BY SMTT(30) DEF Deck, Card, Colors, Jack, Queen, King, Ace

\* The tables stay such.
LEMMA TricksLaidOut == Spec => []LaidOut
<1>1. Init => LaidOut
  BY RulesAssumption DEF Init, LaidOut
<1>2. LaidOut /\ [Lay]_vars => LaidOut'
  <2> SUFFICES ASSUME LaidOut, [Lay]_vars
               PROVE  LaidOut'
    OBVIOUS
  <2>1. CASE Lay
    <3>1. PICK card \in Deck : tab' = Append(tab, card) /\ UNCHANGED <<mode, no, lead>>
      BY <2>1 DEF Lay
    <3>2. tab' \in Seq(Deck) /\ Len(tab') = Len(tab) + 1
      BY <3>1 DEF LaidOut
    <3>3. Len(tab) < NSides
      BY <2>1 DEF Lay
    <3>4. QED
      BY <3>1, <3>2, <3>3, RulesAssumption DEF LaidOut
  <2>2. CASE UNCHANGED vars
    BY <2>2 DEF LaidOut, vars
  <2>3. QED
    BY <2>1, <2>2
<1>3. QED
  BY <1>1, <1>2, PTL DEF Spec

\* The loops of whoTakes find the side the rules name, whatever the number of
\* sides and whatever lies on the table.
THEOREM LoopsAreRight == Spec => []LoopsFindTaker
<1>1. LaidOut => LoopsFindTaker
  <2> SUFFICES ASSUME LaidOut, Len(tab) = NSides
               PROVE  whoTakes(lead, tab, mode, no).side = takerLoop(tab)
    BY DEF LoopsFindTaker
  <2>1. tab \in Seq(Card) /\ lead \in Sides
    BY DeckOfCards DEF LaidOut
  <2>2. takerLoop(tab) = SideAfter(lead, TakerIx(tab) - 1)
    BY <2>1, LoopFindsSide
  <2>3. QED
    BY <2>2 DEF whoTakes
<1>2. QED
  BY <1>1, TricksLaidOut, PTL

\* The price of a trick is the sum of the prices of its cards and of its
\* number, in every kind of round.
THEOREM PricesAddUp == Spec => []PenaltyAddsUp
<1>1. LaidOut => PenaltyAddsUp
  <2> SUFFICES ASSUME LaidOut
               PROVE  whoTakes(lead, tab, mode, no).pen = Prices!Price(mode, no, tab)
    BY DEF PenaltyAddsUp
  <2>1. tab \in Seq(Card) /\ mode \in RoundTypes /\ no \in Nat
    BY DeckOfCards, RulesAssumption DEF LaidOut
  <2>2. Prices!Price(mode, no, tab) = penalty(tab, mode, no)
    BY <2>1, ListedPrice
  <2>3. QED
    BY <2>2 DEF whoTakes
<1>2. QED
  BY <1>1, TricksLaidOut, PTL

-----------------------------------------------------------------------------
(* Recursions.  A function that asks itself for a smaller value exists.    *)

\* f has the values of base at the ends, and elsewhere makes a step from its
\* value one before.
Recurs(f, N, ends, base, before, step) ==
    \A n \in N : f[n] = IF n \in ends THEN base[n] ELSE step[n][f[before[n]]]

\* The recursion goes down by some measure and stays among the values V.
GoesDown(N, V, measure, ends, base, before, step) ==
    /\ V # {} /\ measure \in [N -> Nat]
    /\ \A n \in N : IF n \in ends THEN base[n] \in V
                    ELSE /\ before[n] \in N /\ measure[before[n]] < measure[n]
                         /\ \A x \in V : step[n][x] \in V

\* Such a function exists: there is one that is right up to every measure, and
\* any two of them agree where they are.
LEMMA RecursionExists ==
    ASSUME NEW N, NEW V, NEW measure, NEW ends, NEW base, NEW before, NEW step,
           GoesDown(N, V, measure, ends, base, before, step)
    PROVE  \E f \in [N -> V] : Recurs(f, N, ends, base, before, step)
<1> DEFINE Value(g, n) == IF n \in ends THEN base[n] ELSE step[n][g[before[n]]]
           Good(g, k) == g \in [N -> V] /\ \A n \in N : measure[n] <= k => g[n] = Value(g, n)
           Bad == {k \in Nat : ~\E g : Good(g, k)}
<1>1. /\ V # {} /\ measure \in [N -> Nat] /\ \A n \in N : measure[n] \in Nat
      /\ \A n \in N : n \in ends => base[n] \in V
      /\ \A n \in N : n \notin ends => /\ before[n] \in N /\ measure[before[n]] < measure[n]
                                       /\ \A x \in V : step[n][x] \in V
  BY DEF GoesDown
<1>2. \A n \in N : \A g \in [N -> V] : Value(g, n) \in V
  BY <1>1
<1>3. \E g : Good(g, 0)
  <2> DEFINE g == [n \in N |-> IF n \in ends THEN base[n] ELSE CHOOSE x \in V : TRUE]
  <2>1. g \in [N -> V]
    BY <1>1
  <2>2. \A n \in N : measure[n] <= 0 => n \in ends
    BY <1>1
  <2>3. Good(g, 0)
    BY <2>1, <2>2
  <2>4. QED
    BY <2>3
<1>4. ASSUME NEW k \in Nat, NEW g, Good(g, k)
      PROVE  \E h : Good(h, k + 1)
  <2> DEFINE h == [n \in N |-> Value(g, n)]
  <2>1. h \in [N -> V]
    BY <1>2, <1>4
  <2>2. ASSUME NEW n \in N, measure[n] <= k + 1
        PROVE  h[n] = Value(h, n)
    <3>1. CASE n \in ends
      BY <3>1
    <3>2. CASE n \notin ends
      <4>1. before[n] \in N /\ measure[before[n]] <= k
        BY <1>1, <2>2, <3>2
      <4>2. h[before[n]] = g[before[n]]
        BY <1>4, <4>1
      <4>3. QED
        BY <3>2, <4>2, Zenon
    <3>3. QED
      BY <3>1, <3>2, Zenon
  <2> HIDE DEF h, Value
  <2>3. Good(h, k + 1)
    BY <2>1, <2>2
  <2>4. QED
    BY <2>3
<1>5. Bad = {}
  <2> SUFFICES ASSUME Bad # {}
               PROVE  FALSE
    OBVIOUS
  <2> HIDE DEF Good
  <2>1. PICK k \in Bad : \A j \in Bad : k <= j
    BY Least
  <2>2. k - 1 \in Nat /\ k - 1 \notin Bad
    BY <1>3, <2>1
  <2>3. \E g : Good(g, k - 1 + 1)
    BY <1>4, <2>2
  <2>4. QED
    BY <2>1, <2>3
<1>6. ASSUME NEW g, NEW h, NEW k \in Nat, Good(g, k), Good(h, k), NEW n \in N, measure[n] <= k
      PROVE  g[n] = h[n]
  <2> DEFINE Apart == {i \in N : measure[i] <= k /\ g[i] # h[i]}
             Sizes == {measure[i] : i \in Apart}
  <2> SUFFICES ASSUME Apart # {}
               PROVE  FALSE
    BY <1>6
  <2>1. PICK s \in Sizes : \A t \in Sizes : s <= t
    <3>1. Sizes \in SUBSET Nat /\ Sizes # {}
      BY <1>1
    <3>2. QED
      BY <3>1, Least
  <2>2. PICK i \in Apart : measure[i] = s
    BY <2>1
  <2>3. g[i] = Value(g, i) /\ h[i] = Value(h, i)
    BY <1>6, <2>2
  <2>4. i \notin ends
    BY <2>2, <2>3
  <2>5. before[i] \in N /\ measure[before[i]] < measure[i] /\ measure[i] \in Nat /\ measure[before[i]] \in Nat
    BY <1>1, <2>2, <2>4
  <2>6. before[i] \notin Apart
    BY <2>1, <2>2, <2>5
  <2>7. measure[before[i]] <= k
    BY <2>2, <2>5
  <2>8. g[before[i]] = h[before[i]]
    BY <2>5, <2>6, <2>7
  <2>9. QED
    BY <2>2, <2>3, <2>4, <2>8
<1> DEFINE G(k) == CHOOSE g : Good(g, k)
           f == [n \in N |-> G(measure[n])[n]]
<1>7. \A k \in Nat : Good(G(k), k)
  <2> HIDE DEF Good
  <2>1. QED
    BY <1>5
<1> HIDE DEF G
<1>8. f \in [N -> V]
  <2>1. \A k \in Nat : G(k) \in [N -> V]
    BY <1>7
  <2>2. QED
    BY <1>1, <2>1
<1>9. ASSUME NEW n \in N
      PROVE  f[n] = Value(f, n)
  <2>1. f[n] = Value(G(measure[n]), n)
    BY <1>1, <1>7
  <2>2. CASE n \in ends
    BY <2>1, <2>2
  <2>3. CASE n \notin ends
    <3> DEFINE m == before[n]
    <3>1. m \in N /\ measure[m] < measure[n] /\ measure[m] \in Nat /\ measure[n] \in Nat
      BY <1>1, <2>3
    <3>2. Good(G(measure[n]), measure[m])
      <4>1. Good(G(measure[n]), measure[n])
        BY <1>7, <3>1
      <4>2. \A i \in N : measure[i] <= measure[m] => measure[i] <= measure[n]
        BY <1>1, <3>1
      <4> HIDE DEF m, Value
      <4>3. QED
        BY <4>1, <4>2
    <3>3. Good(G(measure[m]), measure[m]) /\ measure[m] <= measure[m]
      BY <1>7, <3>1
    <3> HIDE DEF Good, m
    <3>4. G(measure[n])[m] = G(measure[m])[m]
      BY <1>6, <3>1, <3>2, <3>3
    <3>5. f[m] = G(measure[m])[m]
      BY <3>1
    <3> HIDE DEF f
    <3>6. QED
      BY <2>1, <2>3, <3>4, <3>5 DEF m
  <2>4. QED
    BY <2>2, <2>3
<1>10. Recurs(f, N, ends, base, before, step)
  <2> HIDE DEF f
  <2>1. QED
    BY <1>9 DEF Recurs
<1>11. QED
  BY <1>8, <1>10

\* A loop makes the same step each time, which stays among the values V.
StaysIn(V, base, step) == base \in V /\ \A x \in V : step[x] \in V

\* Its function over sets of places,
StepsTo(g, n, base, step) ==
    \A T \in SUBSET (1 .. n) : g[T] = IF T = {} THEN base ELSE step[g[T \ {Max(T)}]]

\* which exists too.
LEMMA LoopExists ==
    ASSUME NEW n \in Nat, NEW V, NEW base, NEW step, StaysIn(V, base, step)
    PROVE  \E g \in [SUBSET (1 .. n) -> V] : StepsTo(g, n, base, step)
<1> DEFINE N == SUBSET (1 .. n)
           measure == [T \in N |-> Cardinality(T)]
           bases == [T \in N |-> base]
           before == [T \in N |-> T \ {Max(T)}]
           steps == [T \in N |-> step]
<1>0. base \in V /\ \A x \in V : step[x] \in V
  BY DEF StaysIn
<1>1. \A T \in N : /\ Cardinality(T) \in Nat
                   /\ T # {} => T \ {Max(T)} \in N /\ Cardinality(T \ {Max(T)}) < Cardinality(T)
  <2> TAKE T \in N
  <2>1. /\ Cardinality(T) \in 0 .. n
        /\ T # {} => Cardinality(T \ {Max(T)}) = Cardinality(T) - 1
    BY Highest
  <2>2. T \ {Max(T)} \in N
    OBVIOUS
  <2>3. PICK c \in 0 .. n : c = Cardinality(T)
    BY <2>1
  <2>4. c \in Nat /\ c - 1 < c
    OBVIOUS
  <2>5. QED
    BY ONLY <2>1, <2>2, <2>3, <2>4
<1>2. GoesDown(N, V, measure, {{}}, bases, before, steps)
  <2>1. measure \in [N -> Nat]
    BY <1>1
  <2>2. ASSUME NEW T \in N
        PROVE  IF T \in {{}} THEN bases[T] \in V
               ELSE /\ before[T] \in N /\ measure[before[T]] < measure[T]
                    /\ \A x \in V : steps[T][x] \in V
    <3>1. /\ measure[T] = Cardinality(T) /\ before[T] = T \ {Max(T)}
          /\ steps[T] = step /\ bases[T] = base
      OBVIOUS
    <3>2. T # {} => before[T] \in N /\ measure[before[T]] = Cardinality(T \ {Max(T)})
      BY <1>1
    <3> HIDE DEF N, measure, bases, before, steps
    <3>3. QED
      BY <1>0, <1>1, <3>1, <3>2
  <2> HIDE DEF N, measure, bases, before, steps
  <2>3. QED
    BY <1>0, <2>1, <2>2 DEF GoesDown
<1>3. PICK g \in [N -> V] : Recurs(g, N, {{}}, bases, before, steps)
  <2> HIDE DEF N, measure, bases, before, steps
  <2>1. QED
    BY <1>2, RecursionExists
<1>4. \A T \in N : g[T] = IF T = {} THEN base ELSE step[g[T \ {Max(T)}]]
  <2>1. \A T \in N : bases[T] = base /\ before[T] = T \ {Max(T)} /\ steps[T] = step
    OBVIOUS
  <2> HIDE DEF N, measure, bases, before, steps
  <2>2. QED
    BY <1>3, <2>1 DEF Recurs
<1>5. QED
  BY <1>4 DEF StepsTo

\* The recursion behind a fold, over the sets of its places.
Loops(g, n, base, next) == g = [T \in SUBSET (1 .. n) |-> IF T = {} THEN base ELSE next[T]]

\* Its values for the first k places follow each other.
LEMMA LoopGoes ==
    ASSUME NEW n \in Nat, NEW g, NEW base, NEW next, Loops(g, n, base, next)
    PROVE  /\ g[1 .. 0] = base
           /\ \A k \in 1 .. n : g[1 .. k] = next[1 .. k] /\ (1 .. k) \ {Max(1 .. k)} = 1 .. k - 1
<1>0. g = [T \in SUBSET (1 .. n) |-> IF T = {} THEN base ELSE next[T]]
  BY DEF Loops
<1>1. 1 .. 0 = {} /\ {} \in SUBSET (1 .. n) /\ g[1 .. 0] = base
  BY <1>0
<1>2. ASSUME NEW k \in 1 .. n
      PROVE  g[1 .. k] = next[1 .. k] /\ (1 .. k) \ {Max(1 .. k)} = 1 .. k - 1
  <2>1. 1 .. k # {} /\ 1 .. k \in SUBSET (1 .. n)
    BY ONLY k \in 1 .. n, n \in Nat
  <2>2. g[1 .. k] = next[1 .. k]
    BY <1>0, <2>1
  <2>3. (1 .. k) \ {Max(1 .. k)} = 1 .. k - 1
    BY UpTo
  <2>4. QED
    BY <2>2, <2>3
<1>3. QED
  BY <1>1, <1>2

-----------------------------------------------------------------------------
(* Characters and numbers.                                                 *)

\* The digits.
LEMMA DigitsAre ==
    /\ Digits = {"0", "1", "2", "3", "4", "5", "6", "7", "8", "9"}
    /\ \A d \in 0 .. 9 : Digit[d + 1] \in Digits /\ (d # 0 => Digit[d + 1] # "0")
    /\ \A c, d \in 0 .. 9 : Digit[c + 1] = Digit[d + 1] => c = d
    /\ Digit[1] = "0"
<1>1. DOMAIN Digit = 1 .. 10
  BY DEF Digit
<1>2. Digits = {Digit[i] : i \in 1 .. 10}
  BY <1>1 DEF Digits, Range
<1>3. Digits = {"0", "1", "2", "3", "4", "5", "6", "7", "8", "9"}
  BY <1>2, SMTT(30) DEF Digit
<1>4. \A d \in 0 .. 9 : Digit[d + 1] \in Digits
  BY <1>2
<1>5. \A c, d \in 0 .. 9 : Digit[c + 1] = Digit[d + 1] => c = d
  BY SMTT(30) DEF Digit
<1>6. Digit[1] = "0"
  BY DEF Digit
<1>7. QED
  BY <1>3, <1>4, <1>5, <1>6

\* to_string is defined, with the last digit last,
LEMMA ToStringStep ==
    /\ toString = [n \in Nat |-> toString[n]]
    /\ \A n \in Nat : toString[n] = IF n < 10 THEN <<Digit[n + 1]>>
                                    ELSE Append(toString[n \div 10], Digit[(n % 10) + 1])
<1> DEFINE base == [n \in Nat |-> <<Digit[n + 1]>>]
           before == [n \in Nat |-> n \div 10]
           step == [n \in Nat |-> [x \in Seq(Digits) |-> Append(x, Digit[(n % 10) + 1])]]
           measure == [n \in Nat |-> n]
           ends == 0 .. 9
           Is(f) == f = [n \in Nat |-> IF n < 10 THEN <<Digit[n + 1]>>
                                       ELSE Append(f[n \div 10], Digit[(n % 10) + 1])]
<1>1. GoesDown(Nat, Seq(Digits), measure, ends, base, before, step)
  <2>1. Seq(Digits) # {} /\ measure \in [Nat -> Nat]
    <3>1. <<>> \in Seq(Digits)
      OBVIOUS
    <3>2. measure \in [Nat -> Nat]
      OBVIOUS
    <3>3. QED
      BY ONLY <3>1, <3>2
  <2>2. ASSUME NEW n \in Nat
        PROVE  IF n \in ends THEN base[n] \in Seq(Digits)
               ELSE /\ before[n] \in Nat /\ measure[before[n]] < measure[n]
                    /\ \A x \in Seq(Digits) : step[n][x] \in Seq(Digits)
    <3>1. CASE n \in ends
      <4>1. Digit[n + 1] \in Digits
        BY <3>1, DigitsAre
      <4>2. base[n] = <<Digit[n + 1]>>
        OBVIOUS
      <4>3. QED
        BY <3>1, <4>1, <4>2
    <3>2. CASE n \notin ends
      <4>1. n \div 10 \in Nat /\ n \div 10 < n /\ n % 10 \in 0 .. 9
        BY <3>2
      <4>2. Digit[(n % 10) + 1] \in Digits
        BY <4>1, DigitsAre
      <4>3. \A x \in Seq(Digits) : step[n][x] = Append(x, Digit[(n % 10) + 1])
        OBVIOUS
      <4>4. before[n] = n \div 10 /\ measure[before[n]] = n \div 10 /\ measure[n] = n
        BY <4>1
      <4> HIDE DEF step, before, measure
      <4>5. ASSUME NEW x \in Seq(Digits)
            PROVE  step[n][x] \in Seq(Digits)
        <5> DEFINE d == Digit[(n % 10) + 1]
        <5>1. step[n][x] = Append(x, d) /\ d \in Digits
          BY <4>2, <4>3
        <5> HIDE DEF d
        <5>2. Append(x, d) \in Seq(Digits)
          BY <5>1
        <5>3. QED
          BY <5>1, <5>2
      <4>6. QED
        BY <3>2, <4>1, <4>4, <4>5
    <3>3. QED
      BY <3>1, <3>2
  <2> HIDE DEF measure, ends, base, before, step
  <2>3. QED
    BY <2>1, <2>2 DEF GoesDown
<1>2. PICK f \in [Nat -> Seq(Digits)] : Recurs(f, Nat, ends, base, before, step)
  <2> HIDE DEF measure, ends, base, before, step
  <2>1. QED
    BY <1>1, RecursionExists
<1>3. ASSUME NEW n \in Nat
      PROVE  f[n] = IF n < 10 THEN <<Digit[n + 1]>> ELSE Append(f[n \div 10], Digit[(n % 10) + 1])
  <2>1. f[n] = IF n \in ends THEN base[n] ELSE step[n][f[before[n]]]
    BY <1>2 DEF Recurs
  <2>2. n \in ends <=> n < 10
    OBVIOUS
  <2>3. n \div 10 \in Nat
    OBVIOUS
  <2>4. before[n] = n \div 10 /\ base[n] = <<Digit[n + 1]>>
    OBVIOUS
  <2>5. \A x \in Seq(Digits) : step[n][x] = Append(x, Digit[(n % 10) + 1])
    OBVIOUS
  <2>6. f[n \div 10] \in Seq(Digits)
    BY <2>3
  <2> HIDE DEF ends, base, before, step
  <2>7. QED
    BY <2>1, <2>2, <2>4, <2>5, <2>6
<1>4. Is(f)
  BY <1>3
<1>5. toString = CHOOSE g : Is(g)
  BY DEF toString
<1>6. Is(toString)
  BY <1>4, <1>5
<1>7. \A n \in Nat : toString[n] = IF n < 10 THEN <<Digit[n + 1]>>
                                   ELSE Append(toString[n \div 10], Digit[(n % 10) + 1])
  BY <1>6
<1>8. toString = [n \in Nat |-> toString[n]]
  BY <1>6
<1>9. QED
  BY <1>7, <1>8

\* and is made of digits.
LEMMA ToStringType == toString \in [Nat -> Seq(Digits)]
<1> DEFINE Bad == {n \in Nat : toString[n] \notin Seq(Digits)}
<1>1. Bad = {}
  <2> SUFFICES ASSUME Bad # {}
               PROVE  FALSE
    OBVIOUS
  <2>1. PICK n \in Bad : \A k \in Bad : n <= k
    BY Least
  <2>2. n \in Nat /\ toString[n] \notin Seq(Digits)
    OBVIOUS
  <2>3. \A k \in Nat : k < n => toString[k] \in Seq(Digits)
    BY <2>1
  <2> HIDE DEF Bad
  <2>4. toString[n] = IF n < 10 THEN <<Digit[n + 1]>> ELSE Append(toString[n \div 10], Digit[(n % 10) + 1])
    BY <2>2, ToStringStep
  <2>5. CASE n < 10
    <3>1. n \in 0 .. 9
      BY ONLY <2>2, <2>5
    <3>2. Digit[n + 1] \in Digits
      BY <3>1, DigitsAre
    <3>3. toString[n] = <<Digit[n + 1]>>
      BY ONLY <2>4, <2>5
    <3>4. QED
      BY ONLY <2>2, <3>2, <3>3
  <2>6. CASE n >= 10
    <3> DEFINE d == Digit[(n % 10) + 1]
    <3>1. n \div 10 \in Nat /\ n \div 10 < n /\ n % 10 \in 0 .. 9
      BY ONLY <2>2, <2>6
    <3>2. toString[n] = Append(toString[n \div 10], d)
      BY ONLY <2>2, <2>4, <2>6
    <3>3. d \in Digits
      BY <3>1, DigitsAre
    <3>4. toString[n \div 10] \in Seq(Digits)
      BY ONLY <2>3, <3>1
    <3> HIDE DEF d
    <3>5. QED
      BY ONLY <2>2, <3>2, <3>3, <3>4
  <2>7. QED
    BY ONLY <2>2, <2>5, <2>6
<1>2. toString = [n \in Nat |-> toString[n]]
  BY ToStringStep
<1>3. QED
  BY <1>1, <1>2

\* A number begins with no zero unless it is one.
LEMMA NumberText ==
    ASSUME NEW n \in Nat
    PROVE  /\ toString[n] \in Seq(Digits) /\ Len(toString[n]) >= 1
           /\ IF n = 0 THEN toString[n] = <<"0">> ELSE toString[n][1] # "0"
<1> DEFINE Fine(k) == /\ Len(toString[k]) >= 1
                      /\ IF k = 0 THEN toString[k] = <<"0">> ELSE toString[k][1] # "0"
           Bad == {k \in Nat : ~Fine(k)}
<1>1. Bad = {}
  <2> SUFFICES ASSUME Bad # {}
               PROVE  FALSE
    OBVIOUS
  <2>1. PICK m \in Bad : \A k \in Bad : m <= k
    BY Least
  <2>2. m \in Nat /\ ~Fine(m)
    OBVIOUS
  <2>3. \A k \in Nat : k < m => Fine(k)
    BY <2>1
  <2> HIDE DEF Bad
  <2>4. toString[m] = IF m < 10 THEN <<Digit[m + 1]>> ELSE Append(toString[m \div 10], Digit[(m % 10) + 1])
    BY <2>2, ToStringStep
  <2>5. CASE m < 10
    <3>1. toString[m] = <<Digit[m + 1]>>
      BY ONLY <2>4, <2>5
    <3>2. m \in 0 .. 9
      BY ONLY <2>2, <2>5
    <3>3. (m # 0 => Digit[m + 1] # "0") /\ (m = 0 => Digit[m + 1] = "0")
      BY <3>2, DigitsAre
    <3>4. Fine(m)
      BY <3>1, <3>3
    <3>5. QED
      BY ONLY <2>2, <3>4
  <2>6. CASE m >= 10
    <3> DEFINE d == Digit[(m % 10) + 1]
               t == toString[m \div 10]
    <3>1. m \div 10 \in Nat /\ m \div 10 < m /\ m \div 10 # 0
      BY ONLY <2>2, <2>6
    <3>2. toString[m] = Append(t, d)
      BY ONLY <2>2, <2>4, <2>6
    <3>3. Fine(m \div 10) /\ t \in Seq(Digits)
      BY <2>3, <3>1, ToStringType
    <3>4. Len(t) >= 1 /\ t[1] # "0"
      BY ONLY <3>1, <3>3
    <3> HIDE DEF d, t
    <3>5. Len(Append(t, d)) >= 1 /\ Append(t, d)[1] = t[1]
      BY ONLY <3>3, <3>4
    <3>6. Fine(m)
      BY ONLY <2>2, <2>6, <3>2, <3>4, <3>5
    <3>7. QED
      BY ONLY <2>2, <3>6
  <2>7. QED
    BY ONLY <2>2, <2>5, <2>6
<1>2. Fine(n)
  BY <1>1
<1>3. QED
  BY <1>2, ToStringType

DigitOf(ch) == CHOOSE d \in 0 .. 9 : Digit[d + 1] = ch

\* A digit stands for one number.
LEMMA DigitIs ==
    /\ \A ch \in Digits : DigitOf(ch) \in 0 .. 9
    /\ \A d \in 0 .. 9 : DigitOf(Digit[d + 1]) = d
<1>1. \A d \in 0 .. 9 : DigitOf(Digit[d + 1]) = d
  BY DigitsAre DEF DigitOf
<1>2. \A ch \in Digits : \E d \in 0 .. 9 : Digit[d + 1] = ch
  <2> TAKE ch \in Digits
  <2>1. PICK i \in 1 .. 10 : ch = Digit[i]
    BY DEF Digits, Range, Digit
  <2>2. i - 1 \in 0 .. 9 /\ (i - 1) + 1 = i
    OBVIOUS
  <2>3. QED
    BY <2>1, <2>2
<1>3. QED
  BY <1>1, <1>2 DEF DigitOf

\* What atoi has read after each digit.
ReadsAs(text, v) ==
    /\ v \in [0 .. Len(text) -> Nat] /\ v[0] = 0
    /\ \A p \in 1 .. Len(text) : v[p] = 10 * v[p - 1] + DigitOf(text[p])

\* atoi reads digits to their end.
LEMMA AtoiReads ==
    ASSUME NEW text \in Seq(Digits)
    PROVE  \E v : ReadsAs(text, v) /\ atoi(text) = v[Len(text)]
<1> DEFINE N == 0 .. Len(text)
           base == [p \in N |-> 0]
           before == [p \in N |-> p - 1]
           step == [p \in N |-> [x \in Nat |-> 10 * x + DigitOf(text[p])]]
           measure == [p \in N |-> p]
           Is(f) == f = [p \in N |-> IF p = 0 THEN 0 ELSE 10 * f[p - 1] + DigitOf(text[p])]
<1>1. Len(text) \in Nat /\ \A p \in 1 .. Len(text) : text[p] \in Digits
  OBVIOUS
<1>2. \A p \in 1 .. Len(text) : DigitOf(text[p]) \in 0 .. 9
  BY <1>1, DigitIs
<1>3. GoesDown(N, Nat, measure, {0}, base, before, step)
  <2>1. Nat # {} /\ measure \in [N -> Nat]
    OBVIOUS
  <2>2. ASSUME NEW p \in N
        PROVE  IF p \in {0} THEN base[p] \in Nat
               ELSE /\ before[p] \in N /\ measure[before[p]] < measure[p]
                    /\ \A x \in Nat : step[p][x] \in Nat
    <3>1. base[p] = 0 /\ before[p] = p - 1 /\ measure[p] = p
      OBVIOUS
    <3>2. CASE p # 0
      <4>1. p - 1 \in N /\ p \in 1 .. Len(text) /\ measure[p - 1] = p - 1
        BY <1>1, <3>2
      <4>2. \A x \in Nat : step[p][x] = 10 * x + DigitOf(text[p])
        OBVIOUS
      <4>3. \A x \in Nat : 10 * x + DigitOf(text[p]) \in Nat
        BY <1>2, <4>1
      <4>4. \A x \in Nat : step[p][x] \in Nat
        BY ONLY <4>2, <4>3
      <4>5. before[p] \in N /\ measure[before[p]] < measure[p]
        <5> HIDE DEF N, before, measure, step
        <5>1. QED
          BY <1>1, <3>1, <4>1
      <4> HIDE DEF base, before, step, measure
      <4>6. QED
        BY ONLY <3>2, <4>4, <4>5
    <3>3. QED
      BY <3>1, <3>2
  <2> HIDE DEF N, base, before, step, measure
  <2>3. QED
    BY <2>1, <2>2 DEF GoesDown
<1>4. PICK f \in [N -> Nat] : Recurs(f, N, {0}, base, before, step)
  <2> HIDE DEF N, base, before, step, measure
  <2>1. QED
    BY <1>3, RecursionExists
<1>5. ASSUME NEW p \in N
      PROVE  f[p] = IF p = 0 THEN 0 ELSE 10 * f[p - 1] + DigitOf(text[p])
  <2>1. f[p] = IF p \in {0} THEN base[p] ELSE step[p][f[before[p]]]
    BY <1>4 DEF Recurs
  <2>2. base[p] = 0 /\ before[p] = p - 1 /\ \A x \in Nat : step[p][x] = 10 * x + DigitOf(text[p])
    OBVIOUS
  <2>3. p # 0 => f[p - 1] \in Nat
    <3>1. p # 0 => p - 1 \in N
      BY <1>1
    <3> HIDE DEF N
    <3>2. QED
      BY <1>4, <3>1
  <2> HIDE DEF N, base, before, step
  <2>4. QED
    BY <2>1, <2>2, <2>3
<1>6. Is(f)
  <2> HIDE DEF N
  <2>1. f = [p \in N |-> f[p]]
    BY <1>4
  <2>2. QED
    BY <1>5, <2>1
<1> DEFINE value == CHOOSE g : Is(g)
<1>7. Is(value)
  BY <1>6
<1>8. \A p \in N : value[p] = IF p = 0 THEN 0 ELSE 10 * value[p - 1] + DigitOf(text[p])
  BY <1>7
<1>9. atoi(text) = value[Len(text)]
  <2>1. {p \in DOMAIN text : text[p] \notin Digits} = {}
    BY <1>1
  <2>2. QED
    BY <2>1 DEF atoi, DigitOf
<1>10. value = [p \in N |-> value[p]]
  BY <1>7
<1> HIDE DEF value, Is
<1>11. \A p \in N : value[p] \in Nat
  <2> DEFINE Bad == {p \in N : value[p] \notin Nat}
  <2> SUFFICES ASSUME Bad # {}
               PROVE  FALSE
    OBVIOUS
  <2>1. Bad \in SUBSET Nat
    OBVIOUS
  <2>2. PICK p \in Bad : \A q \in Bad : p <= q
    BY <2>1, Least
  <2>3. p # 0
    BY <1>8
  <2>4. p - 1 \in N /\ p - 1 \notin Bad /\ p \in 1 .. Len(text)
    BY <1>1, <2>2, <2>3
  <2>5. value[p - 1] \in Nat /\ DigitOf(text[p]) \in 0 .. 9
    BY <1>2, <2>4
  <2>6. value[p] = 10 * value[p - 1] + DigitOf(text[p])
    BY <1>8, <2>3, <2>4
  <2>7. value[p] \in Nat
    BY ONLY <2>5, <2>6, SMTT(30)
  <2>8. QED
    BY <2>7
<1>12. ReadsAs(text, value)
  <2>1. value \in [N -> Nat]
    <3> HIDE DEF N
    <3>1. QED
      BY <1>10, <1>11
  <2>2. value[0] = 0
    BY <1>1, <1>8
  <2>3. \A p \in 1 .. Len(text) : p \in N /\ p # 0
    BY <1>1
  <2>4. QED
    BY <1>8, <2>1, <2>2, <2>3 DEF ReadsAs
<1>13. QED
  BY <1>9, <1>12

\* So one digit more counts the others tenfold.
LEMMA AtoiAppend ==
    ASSUME NEW text \in Seq(Digits), NEW d \in 0 .. 9
    PROVE  atoi(text) \in Nat /\ atoi(Append(text, Digit[d + 1])) = 10 * atoi(text) + d
<1> DEFINE n == Len(text)
           ch == Digit[d + 1]
           longer == Append(text, ch)
<1>1. ch \in Digits /\ DigitOf(ch) = d
  BY DigitsAre, DigitIs
<1> HIDE DEF ch
<1>2. /\ longer \in Seq(Digits) /\ Len(longer) = n + 1 /\ longer[n + 1] = ch /\ n \in Nat
      /\ \A p \in 1 .. n : longer[p] = text[p]
  BY <1>1
<1> HIDE DEF longer
<1>3. PICK v : ReadsAs(text, v) /\ atoi(text) = v[n]
  BY AtoiReads
<1>4. PICK w : ReadsAs(longer, w) /\ atoi(longer) = w[n + 1]
  BY <1>2, AtoiReads
<1> HIDE DEF n
<1>5. /\ v[0] = 0 /\ \A p \in 0 .. n : v[p] \in Nat
      /\ \A p \in 1 .. n : v[p] = 10 * v[p - 1] + DigitOf(text[p])
  BY <1>3 DEF ReadsAs, n
<1>6. /\ w[0] = 0 /\ \A p \in 1 .. n + 1 : w[p] = 10 * w[p - 1] + DigitOf(longer[p])
  BY <1>2, <1>4 DEF ReadsAs
<1> DEFINE Apart == {p \in 0 .. n : v[p] # w[p]}
<1>7. Apart = {}
  <2> SUFFICES ASSUME Apart # {}
               PROVE  FALSE
    OBVIOUS
  <2>1. Apart \in SUBSET Nat
    OBVIOUS
  <2>2. PICK p \in Apart : \A q \in Apart : p <= q
    BY <2>1, Least
  <2>3. p # 0
    BY <1>5, <1>6
  <2>4. p \in 1 .. n /\ p \in 1 .. n + 1 /\ p - 1 \in 0 .. n /\ p - 1 \notin Apart
    BY <1>2, <2>2, <2>3
  <2>5. v[p - 1] = w[p - 1] /\ longer[p] = text[p]
    BY <1>2, <2>4
  <2>6. QED
    BY <1>5, <1>6, <2>4, <2>5
<1>8. v[n] = w[n]
  BY <1>2, <1>7
<1>9. w[n + 1] = 10 * w[n] + DigitOf(ch)
  BY <1>2, <1>6
<1>10. v[n] \in Nat
  BY <1>2, <1>5
<1>11. QED
  BY <1>1, <1>3, <1>4, <1>8, <1>9, <1>10 DEF longer, ch

\* No digits, no number.
LEMMA AtoiEmpty == atoi(<<>>) = 0
<1>1. <<>> \in Seq(Digits) /\ Len(<<>>) = 0
  OBVIOUS
<1>2. PICK v : ReadsAs(<<>>, v) /\ atoi(<<>>) = v[Len(<<>>)]
  BY ONLY <1>1, AtoiReads
<1>3. QED
  BY <1>1, <1>2 DEF ReadsAs

\* A number is read as what was written.
THEOREM NumbersRead == ASSUME NEW n \in Nat PROVE atoi(toString[n]) = n
<1> DEFINE Bad == {k \in Nat : atoi(toString[k]) # k}
<1> SUFFICES ASSUME Bad # {}
             PROVE  FALSE
  OBVIOUS
<1>1. PICK m \in Bad : \A k \in Bad : m <= k
  BY Least
<1>2. m \in Nat /\ atoi(toString[m]) # m
  OBVIOUS
<1>3. \A k \in Nat : k < m => atoi(toString[k]) = k
  BY <1>1
<1> HIDE DEF Bad
<1>4. toString[m] = IF m < 10 THEN <<Digit[m + 1]>> ELSE Append(toString[m \div 10], Digit[(m % 10) + 1])
  BY <1>2, ToStringStep
<1>5. CASE m < 10
  <2>1. m \in 0 .. 9 /\ <<>> \in Seq(Digits)
    BY ONLY <1>2, <1>5
  <2>2. toString[m] = Append(<<>>, Digit[m + 1])
    BY ONLY <1>4, <1>5
  <2>3. atoi(Append(<<>>, Digit[m + 1])) = 10 * atoi(<<>>) + m
    BY ONLY <2>1, AtoiAppend
  <2>4. QED
    BY ONLY <1>2, <2>2, <2>3, AtoiEmpty
<1>6. CASE m >= 10
  <2> DEFINE q == m \div 10
             r == m % 10
  <2>1. q \in Nat /\ q < m /\ r \in 0 .. 9 /\ 10 * q + r = m
    BY ONLY <1>2, <1>6
  <2>2. toString[m] = Append(toString[q], Digit[r + 1])
    BY ONLY <1>2, <1>4, <1>6
  <2> HIDE DEF q, r
  <2>3. toString[q] \in Seq(Digits)
    BY <2>1, ToStringType
  <2>4. atoi(Append(toString[q], Digit[r + 1])) = 10 * atoi(toString[q]) + r
    BY ONLY <2>1, <2>3, AtoiAppend
  <2>5. QED
    BY ONLY <1>2, <1>3, <2>1, <2>2, <2>4
<1>7. QED
  BY ONLY <1>2, <1>5, <1>6

-----------------------------------------------------------------------------
(* Cards.                                                                  *)

Char == Digits \cup {"J", "Q", "K", "A"} \cup Colors \cup {"N", "E", "S", "W"}
Text == Seq(Char)

\* The character a rank begins with; a ten goes on with a zero.
Name == <<"2", "3", "4", "5", "6", "7", "8", "9", "1", "J", "Q", "K", "A">>
Width(card) == IF card.val = 10 THEN 3 ELSE 2

\* The characters that begin ranks, one by one.
LEMMA NamesAre ==
    /\ Name[1] = "2" /\ Name[2] = "3" /\ Name[3] = "4" /\ Name[4] = "5" /\ Name[5] = "6"
    /\ Name[6] = "7" /\ Name[7] = "8" /\ Name[8] = "9" /\ Name[9] = "1"
    /\ Name[10] = "J" /\ Name[11] = "Q" /\ Name[12] = "K" /\ Name[13] = "A"
BY DEF Name

\* They are different ones, and no colours.
LEMMA NamesDiffer ==
    /\ \A v \in 2 .. 14 : /\ Name[v - 1] \in Char /\ Name[v - 1] \notin Colors \cup {"0"}
                          /\ Name[v - 1] = "1" <=> v = 10
                          /\ v # 10 => Name[v - 1] \in Ranks
    /\ \A u, v \in 2 .. 14 : Name[u - 1] = Name[v - 1] => u = v
<1>1. \A v \in 2 .. 14 : Name[v - 1] \notin Colors \cup {"0"}
  BY NamesAre DEF Colors
<1>2. \A v \in 2 .. 14 : Name[v - 1] = "1" <=> v = 10
  BY NamesAre
<1>3. \A v \in 2 .. 14 : v # 10 => Name[v - 1] \in Ranks
  BY NamesAre DEF Ranks, Digit
<1>4. \A v \in 2 .. 14 : Name[v - 1] \in Char
  BY NamesAre, DigitsAre DEF Char
<1>5. \A u, v \in 2 .. 14 : Name[u - 1] = Name[v - 1] => u = v
  BY NamesAre
<1>6. QED
  BY <1>1, <1>2, <1>3, <1>4, <1>5

\* Sequences are the same if their elements are.
LEMMA SameSeq ==
    ASSUME NEW S, NEW s \in Seq(S), NEW t \in Seq(S), Len(s) = Len(t), \A i \in 1 .. Len(s) : s[i] = t[i]
    PROVE  s = t
OBVIOUS

\* The text of a rank.
LEMMA RankTextIs ==
    ASSUME NEW v \in 2 .. 14
    PROVE  /\ rankText(v) \in Text /\ rankText(v)[1] = Name[v - 1]
           /\ IF v = 10 THEN Len(rankText(v)) = 2 /\ rankText(v)[2] = "0"
              ELSE Len(rankText(v)) = 1
<1>1. DOMAIN Letter = {11, 12, 13, 14} /\ \A u \in {11, 12, 13, 14} : Letter[u] = <<"J", "Q", "K", "A">>[u - 10]
  BY DEF Letter, Jack, Queen, King, Ace
<1>2. Name[v - 1] \in Char
  BY NamesDiffer
<1>3. CASE v < 10
  <2>2. v \in 2 .. 9 /\ v \in Nat
    BY <1>3
  <2>6. toString[v] = <<Digit[v + 1]>>
    BY ONLY <1>3, <2>2, ToStringStep
  <2>1. toString[v] = <<Digit[v + 1]>> /\ v \notin DOMAIN Letter
    BY <1>1, <2>2, <2>6
  <2>3. Digit[v + 1] = Name[v - 1]
    BY ONLY <2>2 DEF Digit, Name
  <2>4. rankText(v) = <<Name[v - 1]>>
    BY <2>1, <2>3 DEF rankText
  <2>5. QED
    BY <1>2, <1>3, <2>4 DEF Text
<1>4. CASE v = 10
  <2>1. v \notin DOMAIN Letter
    BY <1>1, <1>4
  <2>2. PICK n \in Nat : n = 1
    OBVIOUS
  <2>11. n < 10 /\ n + 1 = 2
    BY <2>2
  <2>12. toString[n] = <<Digit[n + 1]>>
    BY ONLY <2>11, n \in Nat, ToStringStep
  <2>3. toString[n] = <<Digit[n + 1]>> /\ n + 1 = 2
    BY <2>11, <2>12
  <2>4. v \div 10 = n /\ (v % 10) + 1 = 1 /\ v \in Nat /\ ~(v < 10)
    BY ONLY <1>4, <2>2
  <2>5. toString[v] = Append(toString[v \div 10], Digit[(v % 10) + 1])
    BY ONLY <2>4, ToStringStep
  <2>6. toString[v] = Append(<<Digit[2]>>, Digit[1])
    BY ONLY <2>3, <2>4, <2>5
  <2>7. Digit[1] = "0" /\ Digit[2] = "1" /\ Name[9] = "1" /\ v - 1 = 9 /\ "0" \in Char /\ "1" \in Char
    BY ONLY <1>4, NamesAre, DigitsAre DEF Digit, Char
  <2>8. rankText(v) = Append(<<"1">>, "0")
    BY <2>1, <2>6, <2>7 DEF rankText
  <2>9. /\ Append(<<"1">>, "0") \in Text /\ Len(Append(<<"1">>, "0")) = 2
        /\ Append(<<"1">>, "0")[1] = "1" /\ Append(<<"1">>, "0")[2] = "0"
    BY ONLY <2>7 DEF Text
  <2>10. QED
    BY <1>4, <2>7, <2>8, <2>9
<1>5. CASE v > 10
  <2>1. v \in {11, 12, 13, 14}
    BY <1>5
  <2>2. Letter[v] = Name[v - 1]
    BY <1>1, <2>1 DEF Name
  <2>3. rankText(v) = <<Name[v - 1]>>
    BY <1>1, <2>1, <2>2 DEF rankText
  <2>4. QED
    BY <1>2, <1>5, <2>3 DEF Text
<1>6. QED
  BY <1>3, <1>4, <1>5

\* The parts of a card.
LEMMA CardHas ==
    ASSUME NEW card \in Card
    PROVE  /\ card.val \in 2 .. 14 /\ card.col \in Colors /\ card.col \in Char
           /\ card = [val |-> card.val, col |-> card.col]
BY DEF Card, Ace, Char

\* The text of a card: its rank, and its colour at the end.
LEMMA CardTextIs ==
    ASSUME NEW card \in Card
    PROVE  /\ cardText(card) \in Text /\ Len(cardText(card)) = Width(card)
           /\ cardText(card)[1] = Name[card.val - 1]
           /\ card.val = 10 => cardText(card)[2] = "0"
           /\ cardText(card)[Width(card)] = card.col
<1> DEFINE rank == rankText(card.val)
<1>1. card.val \in 2 .. 14 /\ card.col \in Char
  BY CardHas
<1>2. /\ rank \in Text /\ rank[1] = Name[card.val - 1]
      /\ IF card.val = 10 THEN Len(rank) = 2 /\ rank[2] = "0" ELSE Len(rank) = 1
  BY <1>1, RankTextIs
<1>3. cardText(card) = Append(rank, card.col)
  BY DEF cardText
<1> HIDE DEF rank
<1>4. QED
  BY <1>1, <1>2, <1>3 DEF Text, Width

\* A card is read as what was written.
LEMMA CardIsRead ==
    ASSUME NEW card \in Card
    PROVE  fromString(cardText(card)) = card
<1> DEFINE text == cardText(card)
           rank == rankText(card.val)
<1>1. card.val \in 2 .. 14 /\ card.col \in Char
  BY CardHas
<1>2. \A v \in 2 .. 14 : /\ rankText(v) \in Text /\ rankText(v)[1] = Name[v - 1]
  BY RankTextIs
<1>3. Front(text) = rank /\ Last(text) = card.col
  <2>1. rank \in Text /\ text = Append(rank, card.col)
    BY <1>1, <1>2 DEF cardText
  <2> HIDE DEF rank, text
  <2>2. Len(text) = Len(rank) + 1 /\ Len(rank) \in Nat /\ SubSeq(text, 1, Len(rank)) = rank
    BY <1>1, <2>1 DEF Text
  <2>3. text[Len(text)] = card.col /\ Len(text) - 1 = Len(rank)
    BY <1>1, <2>1, <2>2 DEF Text
  <2>4. QED
    BY <2>2, <2>3 DEF Front, Last
<1>4. \A v \in 2 .. 14 : rankText(v) = rank => v = card.val
  BY <1>1, <1>2, NamesDiffer
<1> DEFINE ranks == {v \in 2 .. Ace : rankText(v) = Front(text)}
<1>5. ranks = {card.val}
  <2>1. Ace = 14
    BY DEF Ace
  <2> HIDE DEF text
  <2>2. \A v \in ranks : v = card.val
    BY <1>3, <1>4, <2>1
  <2>3. card.val \in ranks
    BY <1>1, <1>3, <2>1
  <2>4. QED
    BY ONLY <2>2, <2>3
<1>6. fromString(text) = [val |-> card.val, col |-> card.col]
  <2>1. fromString(text) = [val |-> IF ranks = {} THEN NoRank ELSE CHOOSE v \in ranks : TRUE, col |-> Last(text)]
    BY DEF fromString
  <2> HIDE DEF ranks
  <2>2. ranks # {} /\ (CHOOSE v \in ranks : TRUE) = card.val
    BY ONLY <1>5
  <2>3. QED
    BY ONLY <1>3, <2>1, <2>2
<1>7. QED
  BY <1>6, CardHas

-----------------------------------------------------------------------------
(* Texts made of parts.                                                    *)

\* A sequence before another one.
LEMMA Behind ==
    ASSUME NEW S, NEW s \in Seq(S), NEW t \in Seq(S)
    PROVE  /\ s \o t \in Seq(S) /\ Len(s \o t) = Len(s) + Len(t)
           /\ \A i \in 1 .. Len(s) : (s \o t)[i] = s[i]
           /\ \A i \in 1 .. Len(t) : (s \o t)[Len(s) + i] = t[i]
           /\ Len(s) \in Nat /\ Len(t) \in Nat
OBVIOUS

\* Where the parts of a text end: part k goes from e[k - 1] + 1 to e[k].
Parts(text, e, seqs) ==
    /\ e \in [0 .. Len(seqs) -> Nat]
    /\ \A k \in 1 .. Len(seqs) :
         /\ e[k] = e[k - 1] + Len(seqs[k]) /\ e[k] <= Len(text)
         /\ \A i \in 1 .. Len(seqs[k]) : text[e[k - 1] + i] = seqs[k][i]

\* FlattenSeq puts them one after the other.
LEMMA Joined ==
    ASSUME NEW seqs \in Seq(Text)
    PROVE  /\ FlattenSeq(seqs) \in Text
           /\ \E e : /\ Parts(FlattenSeq(seqs), e, seqs)
                     /\ e[0] = 0 /\ e[Len(seqs)] = Len(FlattenSeq(seqs))
<1> DEFINE n == Len(seqs)
<1>1. n \in Nat /\ \A k \in 1 .. n : seqs[k] \in Text /\ Len(seqs[k]) \in Nat
  BY DEF Text
<1>2. CASE n = 0
  <2> DEFINE e == [k \in 0 .. n |-> 0]
  <2>1. FlattenSeq(seqs) = <<>> /\ seqs = <<>>
    BY <1>2 DEF FlattenSeq
  <2>2. e \in [0 .. n -> Nat] /\ e[0] = 0 /\ e[n] = 0
    BY <1>2
  <2>3. <<>> \in Text /\ Len(<<>>) = 0
    BY DEF Text
  <2> HIDE DEF e
  <2>4. Parts(FlattenSeq(seqs), e, seqs)
    BY <1>2, <2>2 DEF Parts
  <2>5. QED
    BY <2>1, <2>2, <2>3, <2>4
<1>3. CASE n # 0
  <2> DEFINE N == 1 .. n
             before == [i \in N |-> i - 1]
             step == [i \in N |-> [x \in Text |-> x \o seqs[i]]]
             measure == [i \in N |-> i]
             Is(f) == f = [i \in N |-> IF i = 1 THEN seqs[i] ELSE f[i - 1] \o seqs[i]]
  <2>1. GoesDown(N, Text, measure, {1}, seqs, before, step)
    <3>1. <<>> \in Text /\ measure \in [N -> Nat]
      BY DEF Text
    <3>2. ASSUME NEW i \in N
          PROVE  IF i \in {1} THEN seqs[i] \in Text
                 ELSE /\ before[i] \in N /\ measure[before[i]] < measure[i]
                      /\ \A x \in Text : step[i][x] \in Text
      <4>1. \A x \in Text : step[i][x] = x \o seqs[i]
        OBVIOUS
      <4>2. seqs[i] \in Text
        BY <1>1
      <4>3. \A x \in Text : x \o seqs[i] \in Text
        BY ONLY <4>2, Behind DEF Text
      <4>4. i # 1 => before[i] \in N /\ before[i] = i - 1 /\ measure[i - 1] = i - 1 /\ measure[i] = i
        BY <1>1
      <4>5. i # 1 => before[i] \in N /\ measure[before[i]] < measure[i]
        BY <4>4
      <4> HIDE DEF N, before, step, measure
      <4>6. QED
        BY <4>1, <4>2, <4>3, <4>5
    <3> HIDE DEF N, before, step, measure
    <3>3. QED
      BY <3>1, <3>2 DEF GoesDown
  <2>2. PICK f \in [N -> Text] : Recurs(f, N, {1}, seqs, before, step)
    <3> HIDE DEF N, before, step, measure
    <3>1. QED
      BY <2>1, RecursionExists
  <2>3. ASSUME NEW i \in N
        PROVE  f[i] = IF i = 1 THEN seqs[i] ELSE f[i - 1] \o seqs[i]
    <3>1. f[i] = IF i \in {1} THEN seqs[i] ELSE step[i][f[before[i]]]
      BY <2>2 DEF Recurs
    <3>2. before[i] = i - 1 /\ \A x \in Text : step[i][x] = x \o seqs[i]
      OBVIOUS
    <3>3. i # 1 => i - 1 \in N
      BY <1>1
    <3> HIDE DEF N, before, step
    <3>4. i # 1 => f[i - 1] \in Text
      BY <2>2, <3>3
    <3>5. QED
      BY <3>1, <3>2, <3>4
  <2>4. Is(f)
    <3> HIDE DEF N
    <3>1. f = [i \in N |-> f[i]]
      BY ONLY f \in [N -> Text]
    <3>2. QED
      BY <2>3, <3>1, Zenon
  <2> DEFINE F == CHOOSE g : Is(g)
  <2>5. Is(F)
    BY <2>4, Zenon
  <2>6. F[1] = seqs[1] /\ \A i \in 2 .. n : F[i] = F[i - 1] \o seqs[i]
    <3>1. \A i \in N : F[i] = IF i = 1 THEN seqs[i] ELSE F[i - 1] \o seqs[i]
      BY <2>5, Zenon
    <3>2. 1 \in N /\ \A i \in 2 .. n : i \in N /\ i # 1
      BY <1>1, <1>3
    <3> HIDE DEF F, N
    <3>3. QED
      BY <3>1, <3>2, Zenon
  <2>7. FlattenSeq(seqs) = F[n]
    BY <1>3, Zenon DEF FlattenSeq
  <2> HIDE DEF F, Is, before, step, measure
  <2> DEFINE e == [k \in 0 .. n |-> IF k = 0 THEN 0 ELSE Len(F[k])]
             Upto(m) == /\ F[m] \in Text
                        /\ \A k \in 1 .. m :
                             /\ e[k] \in Nat /\ e[k] = e[k - 1] + Len(seqs[k]) /\ e[k] <= Len(F[m])
                             /\ \A i \in 1 .. Len(seqs[k]) : F[m][e[k - 1] + i] = seqs[k][i]
             Bad == {m \in 1 .. n : ~Upto(m)}
  <2>8. e[0] = 0 /\ \A k \in 1 .. n : e[k] = Len(F[k])
    BY <1>1
  <2>9. e = [k \in 0 .. n |-> e[k]]
    OBVIOUS
  <2> HIDE DEF e
  <2>10. Upto(1)
    <3>1. F[1] \in Text /\ Len(F[1]) \in Nat /\ F[1] = seqs[1]
      BY <1>1, <1>3, <2>6
    <3>2. e[1] = Len(F[1]) /\ e[1 - 1] = 0 /\ \A k \in 1 .. 1 : k = 1
      BY <1>1, <1>3, <2>8
    <3>3. \A i \in 1 .. Len(seqs[1]) : 0 + i = i
      OBVIOUS
    <3>4. QED
      BY <3>1, <3>2, <3>3
  <2>11. ASSUME NEW m \in 1 .. n, m + 1 \in 1 .. n, Upto(m)
         PROVE  Upto(m + 1)
    <3> DEFINE new == seqs[m + 1]
    <3>1. F[m + 1] = F[m] \o new
      <4>1. m + 1 \in 2 .. n /\ (m + 1) - 1 = m
        BY <2>11
      <4> HIDE DEF new
      <4>2. QED
        BY <2>6, <4>1 DEF new
    <3>2. F[m] \in Text /\ new \in Text
      BY <1>1, <2>11
    <3>3. /\ F[m + 1] \in Text /\ Len(F[m + 1]) = Len(F[m]) + Len(new)
          /\ \A i \in 1 .. Len(F[m]) : F[m + 1][i] = F[m][i]
          /\ \A i \in 1 .. Len(new) : F[m + 1][Len(F[m]) + i] = new[i]
          /\ Len(F[m]) \in Nat /\ Len(new) \in Nat
      <4> HIDE DEF new
      <4>1. F[m] \in Seq(Char) /\ new \in Seq(Char)
        BY <3>2 DEF Text
      <4>2. QED
        BY ONLY <3>1, <4>1, Behind DEF Text
    <3>4. e[m] = Len(F[m]) /\ e[m + 1] = Len(F[m + 1])
      BY <2>8, <2>11
    <3>5. ASSUME NEW k \in 1 .. m
          PROVE  /\ e[k] \in Nat /\ e[k] = e[k - 1] + Len(seqs[k]) /\ e[k] <= Len(F[m + 1])
                 /\ \A i \in 1 .. Len(seqs[k]) : F[m + 1][e[k - 1] + i] = seqs[k][i]
      <4>1. /\ e[k] \in Nat /\ e[k] = e[k - 1] + Len(seqs[k]) /\ e[k] <= Len(F[m])
            /\ \A i \in 1 .. Len(seqs[k]) : F[m][e[k - 1] + i] = seqs[k][i]
        BY <2>11
      <4>2. e[k - 1] \in Nat
        <5>1. k = 1 \/ k - 1 \in 1 .. m
          OBVIOUS
        <5>2. QED
          BY <2>8, <2>11, <5>1
      <4>3. k \in 1 .. n /\ Len(seqs[k]) \in Nat
        BY <1>1
      <4>4. \A i \in 1 .. Len(seqs[k]) : e[k - 1] + i \in 1 .. Len(F[m])
        BY <3>3, <4>1, <4>2, <4>3, SMTT(30)
      <4>5. e[k] <= Len(F[m + 1])
        <5>1. \A a, b, c \in Nat : c <= a => c <= a + b
          OBVIOUS
        <5>2. QED
          BY ONLY <3>3, <4>1, <5>1
      <4>6. QED
        BY <3>3, <4>1, <4>4, <4>5
    <3>6. /\ e[m + 1] \in Nat /\ e[m + 1] = e[(m + 1) - 1] + Len(new) /\ e[m + 1] <= Len(F[m + 1])
          /\ \A i \in 1 .. Len(new) : F[m + 1][e[(m + 1) - 1] + i] = new[i]
      <4>1. (m + 1) - 1 = m
        OBVIOUS
      <4> HIDE DEF new
      <4>2. e[m + 1] \in Nat /\ e[m + 1] = e[m] + Len(new) /\ e[m + 1] <= Len(F[m + 1])
        BY ONLY <3>3, <3>4
      <4>3. QED
        BY ONLY <3>3, <3>4, <4>1, <4>2
    <3>7. \A k \in 1 .. m + 1 : k \in 1 .. m \/ k = m + 1
      OBVIOUS
    <3>8. QED
      BY <3>3, <3>5, <3>6, <3>7
  <2>12. Bad = {}
    <3> SUFFICES ASSUME Bad # {}
                 PROVE  FALSE
      OBVIOUS
    <3> HIDE DEF Upto
    <3>1. Bad \in SUBSET Nat
      OBVIOUS
    <3>2. PICK m \in Bad : \A k \in Bad : m <= k
      BY <3>1, Least
    <3>3. m # 1
      BY <2>10
    <3>4. m - 1 \in 1 .. n /\ (m - 1) + 1 = m /\ m - 1 \notin Bad
      BY <3>2, <3>3
    <3>5. Upto((m - 1) + 1)
      BY <2>11, <3>4
    <3>6. QED
      BY <3>4, <3>5
  <2>13. n \in 1 .. n
    BY <1>1, <1>3
  <2>14. Upto(n)
    <3> HIDE DEF Upto
    <3>1. QED
      BY <2>12, <2>13
  <2>15. \A k \in 1 .. n : e[k] \in Nat
    BY <2>14
  <2>16. e \in [0 .. n -> Nat]
    <3>1. \A k \in 0 .. n : k = 0 \/ k \in 1 .. n
      OBVIOUS
    <3>2. \A k \in 0 .. n : e[k] \in Nat
      BY <2>8, <2>15, <3>1
    <3>3. QED
      BY <2>9, <3>2
  <2>17. Parts(F[n], e, seqs)
    BY <2>14, <2>16 DEF Parts
  <2>18. e[n] = Len(F[n])
    BY <2>8, <2>13
  <2>19. QED
    BY <2>7, <2>8, <2>14, <2>17, <2>18
<1>4. QED
  BY <1>2, <1>3

\* More text before and after moves the parts.
LEMMA PartsMove ==
    ASSUME NEW pre \in Text, NEW text \in Text, NEW post \in Text, NEW seqs \in Seq(Text), NEW e,
           Parts(text, e, seqs)
    PROVE  Parts((pre \o text) \o post, [k \in 0 .. Len(seqs) |-> Len(pre) + e[k]], seqs)
<1> DEFINE n == Len(seqs)
           all == (pre \o text) \o post
           d == [k \in 0 .. n |-> Len(pre) + e[k]]
<1>1. n \in Nat /\ Len(pre) \in Nat /\ Len(text) \in Nat /\ Len(post) \in Nat
  BY DEF Text
<1>2. /\ Len(all) = Len(pre) + Len(text) + Len(post)
      /\ \A i \in 1 .. Len(text) : all[Len(pre) + i] = text[i]
  <2>1. /\ pre \o text \in Text /\ Len(pre \o text) = Len(pre) + Len(text)
        /\ \A i \in 1 .. Len(text) : (pre \o text)[Len(pre) + i] = text[i]
    BY DEF Text
  <2>2. /\ Len(all) = Len(pre \o text) + Len(post)
        /\ \A i \in 1 .. Len(pre \o text) : all[i] = (pre \o text)[i]
    BY <2>1 DEF Text
  <2>3. \A i \in 1 .. Len(text) : Len(pre) + i \in 1 .. Len(pre \o text)
    BY <1>1, <2>1
  <2> HIDE DEF all
  <2>4. QED
    BY <1>1, <2>1, <2>2, <2>3
<1>3. /\ e \in [0 .. n -> Nat]
      /\ \A k \in 1 .. n :
           /\ e[k] = e[k - 1] + Len(seqs[k]) /\ e[k] <= Len(text)
           /\ \A i \in 1 .. Len(seqs[k]) : text[e[k - 1] + i] = seqs[k][i]
  BY DEF Parts
<1> HIDE DEF all, n
<1>4. d \in [0 .. n -> Nat]
  BY <1>1, <1>3
<1>5. ASSUME NEW k \in 1 .. n
      PROVE  /\ d[k] = d[k - 1] + Len(seqs[k]) /\ d[k] <= Len(all)
             /\ \A i \in 1 .. Len(seqs[k]) : all[d[k - 1] + i] = seqs[k][i]
  <2>1. k \in 0 .. n /\ k - 1 \in 0 .. n /\ d[k] = Len(pre) + e[k] /\ d[k - 1] = Len(pre) + e[k - 1]
    BY <1>1
  <2>2. e[k] \in Nat /\ e[k - 1] \in Nat
    BY <1>3, <2>1
  <2>3. /\ e[k] = e[k - 1] + Len(seqs[k]) /\ e[k] <= Len(text)
        /\ \A i \in 1 .. Len(seqs[k]) : text[e[k - 1] + i] = seqs[k][i]
    BY <1>3
  <2>4. Len(seqs[k]) \in Nat
    BY DEF n, Text
  <2>5. d[k] = d[k - 1] + Len(seqs[k]) /\ d[k] <= Len(all)
    BY <1>1, <1>2, <2>1, <2>2, <2>3, <2>4, SMTT(30)
  <2>6. ASSUME NEW i \in 1 .. Len(seqs[k])
        PROVE  all[d[k - 1] + i] = seqs[k][i]
    <3>1. e[k - 1] + i \in 1 .. Len(text) /\ d[k - 1] + i = Len(pre) + (e[k - 1] + i)
      BY <1>1, <2>1, <2>2, <2>3, <2>4, SMTT(30)
    <3>2. all[Len(pre) + (e[k - 1] + i)] = text[e[k - 1] + i]
      BY <1>2, <3>1
    <3>3. QED
      BY <2>3, <3>1, <3>2
  <2>7. QED
    BY <2>5, <2>6
<1> HIDE DEF d
<1>6. Parts(all, d, seqs)
  BY <1>4, <1>5 DEF Parts, n
<1>7. QED
  BY <1>6 DEF all, d, n

-----------------------------------------------------------------------------
(* Cards in a text.                                                        *)

\* A card is written behind place p of a text.
CardAt(text, p, card) ==
    /\ p + Width(card) <= Len(text)
    /\ \A i \in 1 .. Width(card) : text[p + i] = cardText(card)[i]

\* Cards are written one after the other: card k from e[k - 1] + 1 to e[k].
CardsAt(text, e, cards) ==
    /\ e \in [0 .. Len(cards) -> Nat]
    /\ \A k \in 1 .. Len(cards) : /\ e[k] = e[k - 1] + Width(cards[k])
                                  /\ CardAt(text, e[k - 1], cards[k])

\* That is what cardsText does, whatever is written before and after.
LEMMA CardsWritten ==
    ASSUME NEW cards \in Seq(Card), NEW pre \in Text, NEW post \in Text
    PROVE  /\ cardsText(cards) \in Text
           /\ \E e : /\ CardsAt((pre \o cardsText(cards)) \o post, e, cards)
                     /\ e[0] = Len(pre) /\ e[Len(cards)] = Len(pre) + Len(cardsText(cards))
<1> DEFINE seqs == [i \in DOMAIN cards |-> cardText(cards[i])]
           text == cardsText(cards)
           n == Len(cards)
<1>1. n \in Nat /\ \A k \in 1 .. n : cards[k] \in Card
  OBVIOUS
<1>2. \A k \in 1 .. n : seqs[k] \in Text /\ Len(seqs[k]) = Width(cards[k]) /\ seqs[k] = cardText(cards[k])
  BY <1>1, CardTextIs
<1>3. seqs \in Seq(Text) /\ Len(seqs) = n
  <2>1. DOMAIN cards = 1 .. n
    BY <1>1
  <2>2. seqs = [k \in 1 .. n |-> seqs[k]]
    BY <2>1
  <2> HIDE DEF seqs
  <2>3. QED
    BY ONLY <1>1, <1>2, <2>2
<1>4. text = FlattenSeq(seqs)
  BY DEF cardsText
<1> HIDE DEF seqs, text, n
<1>5. PICK e : Parts(text, e, seqs) /\ e[0] = 0 /\ e[n] = Len(text)
  BY <1>3, <1>4, Joined
<1>6. text \in Text
  BY <1>3, <1>4, Joined
<1> DEFINE all == (pre \o text) \o post
           d == [k \in 0 .. n |-> Len(pre) + e[k]]
<1>7. Parts(all, d, seqs)
  BY <1>3, <1>5, <1>6, PartsMove
<1>8. d[0] = Len(pre) /\ d[n] = Len(pre) + Len(text)
  <2>1. Len(pre) \in Nat
    BY DEF Text
  <2>2. d[0] = Len(pre) + e[0] /\ d[n] = Len(pre) + e[n]
    BY <1>1
  <2>3. QED
    BY ONLY <1>5, <2>1, <2>2
<1> HIDE DEF all, d
<1>9. /\ d \in [0 .. n -> Nat]
      /\ \A k \in 1 .. n : /\ d[k] = d[k - 1] + Len(seqs[k]) /\ d[k] <= Len(all)
                           /\ \A i \in 1 .. Len(seqs[k]) : all[d[k - 1] + i] = seqs[k][i]
  BY <1>3, <1>7 DEF Parts
<1>10. CardsAt(all, d, cards)
  BY <1>2, <1>9 DEF CardsAt, CardAt, n
<1>11. QED
  BY <1>6, <1>8, <1>10 DEF all, text, n

\* A card in a text: where it begins and ends, and how its length is found
\* from the left.
LEMMA CardThere ==
    ASSUME NEW text \in Text, NEW p \in Nat, NEW card \in Card, CardAt(text, p, card)
    PROVE  /\ Width(card) \in {2, 3} /\ (Width(card) = 3 <=> card.val = 10)
           /\ p + 1 \in DOMAIN text /\ p + 2 \in DOMAIN text /\ p + Width(card) \in DOMAIN text
           /\ text[p + 1] = Name[card.val - 1] /\ text[p + Width(card)] = card.col
           /\ (card.val = 10 => text[p + 2] = "0")
           /\ SubSeq(text, p + 1, p + Width(card)) = cardText(card)
           /\ CardLen(text, p + 1) = Width(card)
<1> DEFINE w == Width(card)
<1>1. w \in {2, 3} /\ (w = 3 <=> card.val = 10)
  BY DEF Width
<1>2. p + w <= Len(text) /\ \A i \in 1 .. w : text[p + i] = cardText(card)[i]
  BY DEF CardAt
<1>3. /\ cardText(card) \in Text /\ Len(cardText(card)) = w
      /\ cardText(card)[1] = Name[card.val - 1]
      /\ card.val = 10 => cardText(card)[2] = "0"
      /\ cardText(card)[w] = card.col
  BY CardTextIs
<1> HIDE DEF w
<1>4. Len(text) \in Nat /\ DOMAIN text = 1 .. Len(text)
  BY DEF Text
<1>5. 1 \in 1 .. w /\ 2 \in 1 .. w /\ w \in 1 .. w
  BY ONLY <1>1
<1>6. p + 1 \in DOMAIN text /\ p + 2 \in DOMAIN text /\ p + w \in DOMAIN text
  BY <1>1, <1>2, <1>4
<1>7. /\ text[p + 1] = Name[card.val - 1] /\ text[p + w] = card.col
      /\ card.val = 10 => text[p + 2] = "0"
  BY ONLY <1>2, <1>3, <1>5
<1>8. SubSeq(text, p + 1, p + w) = cardText(card)
  <2> DEFINE part == SubSeq(text, p + 1, p + w)
  <2>1. /\ part \in Seq(Char) /\ Len(part) = w
        /\ \A i \in 1 .. w : part[i] = text[p + i]
    <3>1. part \in Seq(Char)
      BY <1>1, <1>2, <1>4, <1>6 DEF Text
    <3>2. Len(part) = w
      BY <1>1, <1>2, <1>4, <1>6 DEF Text
    <3>3. \A i \in 1 .. w : part[i] = text[(p + 1) + i - 1] /\ (p + 1) + i - 1 = p + i
      BY <1>1, <1>2, <1>4, <1>6 DEF Text
    <3>4. QED
      BY ONLY <3>1, <3>2, <3>3
  <2> HIDE DEF part
  <2>2. cardText(card) \in Seq(Char)
    BY <1>3 DEF Text
  <2>3. part = cardText(card)
    BY ONLY <1>2, <1>3, <2>1, <2>2, SameSeq
  <2>4. QED
    BY <2>3 DEF part
<1>9. CardLen(text, p + 1) = w
  BY <1>1, <1>7, CardHas, NamesDiffer DEF CardLen
<1>10. QED
  BY <1>1, <1>6, <1>7, <1>8, <1>9 DEF w

\* A card at the end of a text: its length is found from the right.
LEMMA CardLast ==
    ASSUME NEW text \in Text, NEW p \in Nat, NEW card \in Card, CardAt(text, p, card),
           p + Width(card) = Len(text)
    PROVE  lastCardLen(text) = Width(card)
<1>1. /\ Width(card) \in {2, 3} /\ (Width(card) = 3 <=> card.val = 10)
      /\ text[p + 1] = Name[card.val - 1] /\ (card.val = 10 => text[p + 2] = "0")
  BY CardThere
<1>2. Name[card.val - 1] # "0"
  BY CardHas, NamesDiffer
<1>3. CASE card.val = 10
  <2>1. Len(text) - 1 = p + 2
    BY <1>1, <1>3
  <2>2. QED
    BY <1>1, <1>3, <2>1 DEF lastCardLen
<1>4. CASE card.val # 10
  <2>1. Len(text) - 1 = p + 1 /\ Width(card) = 2
    BY <1>1, <1>4
  <2>2. QED
    BY <1>1, <1>2, <2>1 DEF lastCardLen
<1>5. QED
  BY <1>3, <1>4

\* The pattern of a card gets past it.
LEMMA CardPassed ==
    ASSUME NEW text \in Text, NEW p \in Nat, NEW card \in Card, CardAt(text, p, card),
           NEW places, p \in places
    PROVE  p + Width(card) \in PastCard(text, places)
<1>1. /\ Width(card) \in {2, 3} /\ (Width(card) = 3 <=> card.val = 10)
      /\ p + 1 \in DOMAIN text /\ p + 2 \in DOMAIN text /\ p + Width(card) \in DOMAIN text
      /\ text[p + 1] = Name[card.val - 1] /\ text[p + Width(card)] = card.col
      /\ (card.val = 10 => text[p + 2] = "0")
  BY CardThere
<1>2. card.val \in 2 .. 14 /\ card.col \in Colors
  BY CardHas
<1>3. p + 1 - 1 = p /\ p + 2 - 1 = p + 1 /\ p + 3 - 1 = p + 2
  OBVIOUS
<1>4. CASE card.val = 10
  <2>1. p + 1 \in Past(text, places, {"1"})
    BY <1>1, <1>2, <1>3, <1>4, NamesDiffer DEF Past
  <2>2. p + 2 \in Past(text, Past(text, places, {"1"}), {"0"})
    BY <1>1, <1>3, <1>4, <2>1 DEF Past
  <2>3. Width(card) = 3
    BY <1>1, <1>4
  <2>4. QED
    BY <1>1, <1>2, <1>3, <2>2, <2>3 DEF Past, PastCard
<1>5. CASE card.val # 10
  <2>1. p + 1 \in Past(text, places, Ranks)
    BY <1>1, <1>2, <1>3, <1>5, NamesDiffer DEF Past
  <2>2. Width(card) = 2
    BY <1>1, <1>5
  <2>3. QED
    BY <1>1, <1>2, <1>3, <2>1, <2>2 DEF Past, PastCard
<1>6. QED
  BY <1>4, <1>5

\* Where cards are written in a text: card k and its two ends.
LEMMA CardsThere ==
    ASSUME NEW text \in Text, NEW cards \in Seq(Card), NEW e, CardsAt(text, e, cards)
    PROVE  /\ Len(text) \in Nat /\ Len(cards) \in Nat /\ \A k \in 0 .. Len(cards) : e[k] \in Nat
           /\ \A k \in 1 .. Len(cards) :
                /\ cards[k] \in Card /\ e[k - 1] \in Nat /\ e[k] = e[k - 1] + Width(cards[k])
                /\ e[k] <= Len(text) /\ CardAt(text, e[k - 1], cards[k])
<1>1. Len(text) \in Nat /\ Len(cards) \in Nat /\ e \in [0 .. Len(cards) -> Nat]
  BY DEF Text, CardsAt
<1>2. \A k \in 1 .. Len(cards) : cards[k] \in Card /\ k - 1 \in 0 .. Len(cards)
  OBVIOUS
<1>3. \A k \in 1 .. Len(cards) : e[k] = e[k - 1] + Width(cards[k]) /\ CardAt(text, e[k - 1], cards[k])
  BY DEF CardsAt
<1>4. \A k \in 1 .. Len(cards) : e[k] <= Len(text)
  BY <1>3 DEF CardAt
<1>5. QED
  BY ONLY <1>1, <1>2, <1>3, <1>4

\* The rest of a sequence.
LEMMA RestIs ==
    ASSUME NEW S, NEW s \in Seq(S), NEW k \in 1 .. Len(s)
    PROVE  <<s[k]>> \o SubSeq(s, k + 1, Len(s)) = SubSeq(s, k, Len(s))
OBVIOUS

\* cardsFrom reads the cards that go to the end of a text.
LEMMA CardsFromText ==
    ASSUME NEW text \in Text, NEW cards \in Seq(Card), NEW e, CardsAt(text, e, cards),
           e[Len(cards)] = Len(text)
    PROVE  cardsFrom(text, e[0] + 1) = cards
<1> DEFINE n == Len(cards)
           L == Len(text)
           one(p) == fromString(substr(text, p, CardLen(text, p)))
           A == {one(p) : p \in Nat}
           base == [p \in Nat |-> <<>>]
           ends == {p \in Nat : p > L}
           before == [p \in Nat |-> p + CardLen(text, p)]
           step == [p \in Nat |-> [x \in Seq(A) |-> <<one(p)>> \o x]]
           measure == [p \in Nat |-> IF p > L THEN 0 ELSE L + 1 - p]
           Is(f) == f = [p \in Nat |-> IF p > L THEN <<>> ELSE <<one(p)>> \o f[p + CardLen(text, p)]]
<1>1. /\ L \in Nat /\ n \in Nat /\ \A k \in 0 .. n : e[k] \in Nat
      /\ \A k \in 1 .. n : /\ cards[k] \in Card /\ e[k - 1] \in Nat /\ e[k] = e[k - 1] + Width(cards[k])
                           /\ e[k] <= L /\ CardAt(text, e[k - 1], cards[k])
  BY CardsThere
<1>2. GoesDown(Nat, Seq(A), measure, ends, base, before, step)
  <2>1. measure \in [Nat -> Nat]
    <3>1. \A p \in Nat : p > L \/ L + 1 - p \in Nat
      BY <1>1
    <3> HIDE DEF L
    <3>2. QED
      BY <3>1
  <2>2. ASSUME NEW p \in Nat
        PROVE  IF p \in ends THEN base[p] \in Seq(A)
               ELSE /\ before[p] \in Nat /\ measure[before[p]] < measure[p]
                    /\ \A x \in Seq(A) : step[p][x] \in Seq(A)
    <3>1. CardLen(text, p) \in {2, 3}
      BY DEF CardLen
    <3>2. one(p) \in A
      OBVIOUS
    <3>3. before[p] = p + CardLen(text, p)
      OBVIOUS
    <3>4. base[p] \in Seq(A)
      OBVIOUS
    <3>5. \A x \in Seq(A) : step[p][x] = <<one(p)>> \o x
      OBVIOUS
    <3> HIDE DEF A, one, base, before, step
    <3>6. before[p] \in Nat /\ before[p] > p
      BY ONLY <3>1, <3>3, p \in Nat
    <3>7. p \notin ends => measure[before[p]] < measure[p]
      <4>1. \A q \in Nat : measure[q] = IF q > L THEN 0 ELSE L + 1 - q
        OBVIOUS
      <4>2. p \in ends <=> p > L
        OBVIOUS
      <4> HIDE DEF L, measure, ends
      <4>3. QED
        BY <1>1, <3>6, <4>1, <4>2
    <3>8. \A x \in Seq(A) : <<one(p)>> \o x \in Seq(A)
      BY <3>2
    <3> HIDE DEF ends, measure
    <3>9. QED
      BY ONLY <3>4, <3>5, <3>6, <3>7, <3>8
  <2>3. Seq(A) # {}
    <3>1. <<>> \in Seq(A)
      OBVIOUS
    <3>2. QED
      BY ONLY <3>1
  <2> HIDE DEF A, base, ends, before, step, measure
  <2>4. QED
    BY <2>1, <2>2, <2>3 DEF GoesDown
<1>3. PICK f \in [Nat -> Seq(A)] : Recurs(f, Nat, ends, base, before, step)
  <2> HIDE DEF A, base, ends, before, step, measure
  <2>1. QED
    BY <1>2, RecursionExists
<1>4. ASSUME NEW p \in Nat
      PROVE  f[p] = IF p > L THEN <<>> ELSE <<one(p)>> \o f[p + CardLen(text, p)]
  <2>1. f[p] = IF p \in ends THEN base[p] ELSE step[p][f[before[p]]]
    BY <1>3 DEF Recurs
  <2>2. /\ base[p] = <<>> /\ before[p] = p + CardLen(text, p)
        /\ \A x \in Seq(A) : step[p][x] = <<one(p)>> \o x
        /\ p \in ends <=> p > L
    OBVIOUS
  <2>3. p + CardLen(text, p) \in Nat
    BY DEF CardLen
  <2> HIDE DEF A, base, ends, before, step, one, L
  <2>4. f[p + CardLen(text, p)] \in Seq(A)
    BY <1>3, <2>3
  <2>5. QED
    BY ONLY <2>1, <2>2, <2>4
<1>5. Is(f)
  <2> HIDE DEF A
  <2>1. f = [p \in Nat |-> f[p]]
    BY <1>3, SMTT(30)
  <2> HIDE DEF one, L
  <2>2. QED
    BY <1>4, <2>1, Zenon
<1> DEFINE F == CHOOSE g : Is(g)
<1>6. Is(F)
  BY <1>5
<1>7. cardsFrom(text, e[0] + 1) = F[e[0] + 1]
  BY DEF cardsFrom
<1>8. \A p \in Nat : F[p] = IF p > L THEN <<>> ELSE <<one(p)>> \o F[p + CardLen(text, p)]
  <2> HIDE DEF one, L, F
  <2>1. QED
    BY <1>6
<1> HIDE DEF F, Is, base, before, step, measure, ends, A
<1>9. ASSUME NEW k \in 1 .. n
      PROVE  F[e[k - 1] + 1] = <<cards[k]>> \o F[e[k] + 1]
  <2> DEFINE p == e[k - 1]
             w == Width(cards[k])
  <2>1. cards[k] \in Card /\ p \in Nat /\ e[k] = p + w /\ e[k] <= L /\ CardAt(text, p, cards[k])
    BY <1>1
  <2>2. /\ w \in {2, 3} /\ SubSeq(text, p + 1, p + w) = cardText(cards[k]) /\ CardLen(text, p + 1) = w
    BY <2>1, CardThere
  <2> HIDE DEF p, w, L, one
  <2>3. p + 1 \in Nat /\ ~(p + 1 > L) /\ (p + 1) + w = e[k] + 1 /\ (p + 1) + w - 1 = p + w
    <3>1. p \in Nat /\ e[k] = p + w /\ e[k] <= L
      BY <2>1
    <3>2. L \in Nat /\ w \in {2, 3}
      BY <1>1, <2>2
    <3>3. QED
      BY ONLY <3>1, <3>2
  <2>4. one(p + 1) = cards[k]
    <3>1. substr(text, p + 1, w) = SubSeq(text, p + 1, p + w)
      BY <2>1, <2>3 DEF substr, L
    <3>2. QED
      BY <2>1, <2>2, <3>1, CardIsRead DEF one
  <2>5. F[p + 1] = <<one(p + 1)>> \o F[(p + 1) + CardLen(text, p + 1)]
    BY <1>8, <2>3
  <2>6. F[p + 1] = <<cards[k]>> \o F[e[k] + 1]
    BY ONLY <2>2, <2>3, <2>4, <2>5
  <2>7. QED
    BY <2>6 DEF p
<1> DEFINE Good(j) == F[e[n - j] + 1] = SubSeq(cards, n - j + 1, n)
           Bad == {j \in 0 .. n : ~Good(j)}
<1> HIDE DEF one
<1>10. Good(0)
  <2>1. F[e[n] + 1] = <<>>
    <3>1. e[n] = L /\ e[n] + 1 \in Nat /\ e[n] + 1 > L
      BY <1>1, SMTT(30)
    <3> HIDE DEF L, n
    <3>2. QED
      BY <1>8, <3>1
  <2>2. SubSeq(cards, n - 0 + 1, n) = <<>> /\ n - 0 = n
    BY <1>1
  <2>3. QED
    BY ONLY <2>1, <2>2
<1>11. ASSUME NEW j \in 1 .. n, Good(j - 1)
       PROVE  Good(j)
  <2> DEFINE k == n - j + 1
  <2>1. k \in 1 .. n /\ k - 1 = n - j /\ n - (j - 1) = k /\ n - (j - 1) + 1 = k + 1
    BY <1>1
  <2>2. F[e[k] + 1] = SubSeq(cards, k + 1, n)
    BY <1>11, <2>1
  <2> HIDE DEF k
  <2>3. F[e[k - 1] + 1] = <<cards[k]>> \o SubSeq(cards, k + 1, n)
    BY <1>9, <2>1, <2>2
  <2>4. <<cards[k]>> \o SubSeq(cards, k + 1, n) = SubSeq(cards, k, n)
    BY <2>1, RestIs
  <2>5. QED
    BY <2>1, <2>3, <2>4 DEF k
<1>12. Bad = {}
  <2> SUFFICES ASSUME Bad # {}
               PROVE  FALSE
    OBVIOUS
  <2> HIDE DEF Good
  <2>1. Bad \in SUBSET Nat
    OBVIOUS
  <2>2. PICK j \in Bad : \A i \in Bad : j <= i
    BY <2>1, Least
  <2>3. j # 0
    BY <1>10
  <2>4. j \in 1 .. n /\ j - 1 \in 0 .. n /\ j - 1 \notin Bad
    <3>1. j \in 0 .. n /\ n \in Nat
      BY <1>1
    <3>2. j \in 1 .. n /\ j - 1 \in 0 .. n /\ ~(j <= j - 1)
      BY ONLY <2>3, <3>1
    <3> HIDE DEF Bad
    <3>3. QED
      BY ONLY <2>2, <3>2
  <2>5. Good(j - 1)
    BY <2>4
  <2>6. QED
    BY <1>11, <2>4, <2>5
<1>13. Good(n)
  <2> HIDE DEF Good
  <2>1. n \in 0 .. n
    BY <1>1
  <2>2. QED
    BY <1>12, <2>1
<1>14. SubSeq(cards, n - n + 1, n) = cards /\ n - n = 0
  BY <1>1
<1>15. QED
  BY <1>7, <1>13, <1>14

\* The places the pattern of n cards goes through, card by card.
LEMMA PastCardsGoes ==
    ASSUME NEW text \in Text, NEW places \in SUBSET Nat, NEW n \in Nat
    PROVE  \E h : /\ h[0] = places /\ PastCards(text, places, n) = h[n]
                  /\ \A k \in 1 .. n : h[k] = PastCard(text, h[k - 1])
<1> DEFINE ids == [i \in 1 .. n |-> i]
           Loop(g) == g = [T \in SUBSET (1 .. n) |-> IF T = {} THEN places
                                                     ELSE PastCard(text, g[T \ {Max(T)}])]
           step == [x \in SUBSET Nat |-> PastCard(text, x)]
<1>1. DOMAIN text \in SUBSET Nat /\ DOMAIN ids = 1 .. n
  BY DEF Text
<1>2. \A x \in SUBSET Nat : step[x] = PastCard(text, x) /\ step[x] \in SUBSET Nat
  <2>1. \A x \in SUBSET Nat : PastCard(text, x) \in SUBSET DOMAIN text
    BY DEF PastCard, Past
  <2>2. QED
    BY <1>1, <2>1
<1>3. PastCards(text, places, n) = (CHOOSE g : Loop(g))[1 .. n]
  <2>1. PastCards(text, places, n) = FoldLeft(LAMBDA at, i : PastCard(text, at), places, ids)
    BY DEF PastCards
  <2>2. QED
    BY <1>1, <2>1 DEF FoldLeft, MapThenFoldSet
<1> HIDE DEF step
<1>4. PICK g \in [SUBSET (1 .. n) -> SUBSET Nat] :
         \A T \in SUBSET (1 .. n) : g[T] = IF T = {} THEN places ELSE step[g[T \ {Max(T)}]]
  <2> DEFINE V == SUBSET Nat
  <2>1. StaysIn(V, places, step)
    BY <1>2 DEF StaysIn
  <2> HIDE DEF V
  <2>2. \E g \in [SUBSET (1 .. n) -> V] : StepsTo(g, n, places, step)
    BY <2>1, LoopExists
  <2>3. QED
    BY <2>2 DEF V, StepsTo
<1>5. \A T \in SUBSET (1 .. n) : T \ {Max(T)} \in SUBSET (1 .. n)
  OBVIOUS
<1>6. \A T \in SUBSET (1 .. n) : g[T] = IF T = {} THEN places ELSE PastCard(text, g[T \ {Max(T)}])
  BY <1>2, <1>4, <1>5
<1>7. g = [T \in SUBSET (1 .. n) |-> g[T]]
  BY <1>4
<1>8. Loop(g)
  BY <1>6, <1>7, Zenon
<1>9. PICK G : Loop(G) /\ PastCards(text, places, n) = G[1 .. n]
  BY <1>3, <1>8
<1> DEFINE next == [T \in SUBSET (1 .. n) |-> PastCard(text, G[T \ {Max(T)}])]
           h == [k \in 0 .. n |-> G[1 .. k]]
<1>10. Loops(G, n, places, next)
  BY <1>9 DEF Loops
<1>11. \A k \in 1 .. n : 1 .. k \in SUBSET (1 .. n)
  OBVIOUS
<1>12. \A k \in 1 .. n : next[1 .. k] = PastCard(text, G[(1 .. k) \ {Max(1 .. k)}])
  BY <1>11
<1> HIDE DEF next
<1>13. /\ G[1 .. 0] = places
       /\ \A k \in 1 .. n : G[1 .. k] = next[1 .. k] /\ (1 .. k) \ {Max(1 .. k)} = 1 .. k - 1
  BY <1>10, LoopGoes
<1>14. h[0] = places /\ PastCards(text, places, n) = h[n]
  <2>1. h[0] = G[1 .. 0] /\ h[n] = G[1 .. n]
    OBVIOUS
  <2> HIDE DEF h
  <2>2. QED
    BY <1>9, <1>13, <2>1
<1>15. ASSUME NEW k \in 1 .. n
       PROVE  h[k] = PastCard(text, h[k - 1])
  <2>1. h[k] = G[1 .. k] /\ h[k - 1] = G[1 .. k - 1]
    OBVIOUS
  <2> HIDE DEF h
  <2>2. QED
    BY <1>12, <1>13, <2>1
<1>16. QED
  BY <1>14, <1>15

\* The pattern of n cards gets past n cards.
LEMMA CardsPassed ==
    ASSUME NEW text \in Text, NEW cards \in Seq(Card), NEW e, CardsAt(text, e, cards),
           NEW places \in SUBSET Nat, e[0] \in places
    PROVE  e[Len(cards)] \in PastCards(text, places, Len(cards))
<1> DEFINE n == Len(cards)
<1>1. /\ n \in Nat
      /\ \A k \in 1 .. n : /\ cards[k] \in Card /\ e[k - 1] \in Nat /\ e[k] = e[k - 1] + Width(cards[k])
                           /\ CardAt(text, e[k - 1], cards[k])
  BY CardsThere
<1> HIDE DEF n
<1>2. PICK h : /\ h[0] = places /\ PastCards(text, places, n) = h[n]
               /\ \A k \in 1 .. n : h[k] = PastCard(text, h[k - 1])
  BY <1>1, PastCardsGoes
<1> DEFINE Bad == {k \in 0 .. n : e[k] \notin h[k]}
<1>3. Bad = {}
  <2> SUFFICES ASSUME Bad # {}
               PROVE  FALSE
    OBVIOUS
  <2>1. Bad \in SUBSET Nat
    OBVIOUS
  <2>2. PICK k \in Bad : \A j \in Bad : k <= j
    BY <2>1, Least
  <2>3. k # 0
    BY <1>2
  <2>4. k \in 1 .. n /\ k - 1 \in 0 .. n /\ k - 1 \notin Bad
    BY <1>1, <2>2, <2>3
  <2>5. e[k - 1] \in h[k - 1]
    BY <2>4
  <2>6. e[k] \in PastCard(text, h[k - 1])
    BY <1>1, <2>4, <2>5, CardPassed
  <2>7. QED
    BY <1>2, <2>4, <2>6
<1>4. e[n] \in h[n]
  BY <1>1, <1>3
<1>5. QED
  BY <1>2, <1>4 DEF n

\* What cutCards does with a text and the cards it has: it cuts one more off.
CutOne(r) ==
    LET rest == Len(r.text) - lastCardLen(r.text)
    IN  [text |-> substr(r.text, 1, rest), cards |-> <<fromString(substr(r.text, rest + 1, 3))>> \o r.cards]

\* cutCards does so n times.
LEMMA CutCardsGoes ==
    ASSUME NEW text \in Text, NEW n \in Nat
    PROVE  \E h : /\ h[0] = [text |-> text, cards |-> <<>>] /\ cutCards(text, n) = h[n]
                  /\ \A k \in 1 .. n : h[k] = CutOne(h[k - 1])
<1> DEFINE ids == [i \in 1 .. n |-> i]
           start == [text |-> text, cards |-> <<>>]
           Loop(g) == g = [T \in SUBSET (1 .. n) |-> IF T = {} THEN start ELSE CutOne(g[T \ {Max(T)}])]
           cut(t) == fromString(substr(t, Len(t) - lastCardLen(t) + 1, 3))
           A == {cut(t) : t \in Text}
           V == [text : Text, cards : Seq(A)]
           step == [x \in V |-> CutOne(x)]
<1>1. DOMAIN ids = 1 .. n
  OBVIOUS
<1>2. \A x \in V : CutOne(x) \in V
  <2> TAKE x \in V
  <2>1. x.text \in Text /\ x.cards \in Seq(A) /\ cut(x.text) \in A
    OBVIOUS
  <2> DEFINE rest == Len(x.text) - lastCardLen(x.text)
  <2>2. CutOne(x) = [text |-> substr(x.text, 1, rest), cards |-> <<cut(x.text)>> \o x.cards]
    BY DEF CutOne
  <2>3. rest \in Int /\ rest <= Len(x.text)
    <3>1. lastCardLen(x.text) \in {2, 3}
      BY DEF lastCardLen
    <3>2. Len(x.text) \in Nat
      BY <2>1 DEF Text
    <3>3. QED
      BY <3>1, <3>2
  <2> HIDE DEF rest, A, cut
  <2>4. substr(x.text, 1, rest) \in Text
    <3>1. 1 + rest - 1 = rest
      BY <2>3
    <3>2. substr(x.text, 1, rest) = SubSeq(x.text, 1, rest)
      BY <2>3, <3>1 DEF substr
    <3>3. SubSeq(x.text, 1, rest) \in Seq(Char)
      BY <2>1, <2>3 DEF Text
    <3>4. QED
      BY <3>2, <3>3 DEF Text
  <2>5. <<cut(x.text)>> \o x.cards \in Seq(A)
    BY <2>1
  <2>6. QED
    BY ONLY <2>2, <2>4, <2>5
<1>3. cutCards(text, n) = (CHOOSE g : Loop(g))[1 .. n]
  <2>1. cutCards(text, n) = FoldLeft(LAMBDA r, i : CutOne(r), start, ids)
    BY Zenon DEF cutCards, CutOne
  <2> HIDE DEF start
  <2>2. QED
    BY <1>1, <2>1, Zenon DEF FoldLeft, MapThenFoldSet
<1>4. start \in V
  BY DEF Text
<1>5. \A x \in V : step[x] = CutOne(x)
  OBVIOUS
<1> HIDE DEF V, step, start
<1>6. StaysIn(V, start, step)
  BY <1>2, <1>4, <1>5 DEF StaysIn
<1>7. PICK g \in [SUBSET (1 .. n) -> V] : StepsTo(g, n, start, step)
  BY <1>6, LoopExists
<1>8. \A T \in SUBSET (1 .. n) : g[T] = IF T = {} THEN start ELSE CutOne(g[T \ {Max(T)}])
  <2>1. \A T \in SUBSET (1 .. n) : T \ {Max(T)} \in SUBSET (1 .. n)
    OBVIOUS
  <2>2. QED
    BY <1>5, <1>7, <2>1 DEF StepsTo
<1>9. g = [T \in SUBSET (1 .. n) |-> g[T]]
  BY <1>7
<1>10. Loop(g)
  BY <1>8, <1>9, Zenon
<1>11. PICK G : Loop(G) /\ cutCards(text, n) = G[1 .. n]
  BY <1>3, <1>10
<1> DEFINE next == [T \in SUBSET (1 .. n) |-> CutOne(G[T \ {Max(T)}])]
           h == [k \in 0 .. n |-> G[1 .. k]]
<1>12. Loops(G, n, start, next)
  BY <1>11 DEF Loops
<1>13. \A k \in 1 .. n : next[1 .. k] = CutOne(G[(1 .. k) \ {Max(1 .. k)}])
  <2>1. \A k \in 1 .. n : 1 .. k \in SUBSET (1 .. n)
    OBVIOUS
  <2>2. QED
    BY <2>1
<1> HIDE DEF next
<1>14. /\ G[1 .. 0] = start
       /\ \A k \in 1 .. n : G[1 .. k] = next[1 .. k] /\ (1 .. k) \ {Max(1 .. k)} = 1 .. k - 1
  BY <1>12, LoopGoes
<1>15. h[0] = start /\ cutCards(text, n) = h[n]
  <2>1. h[0] = G[1 .. 0] /\ h[n] = G[1 .. n]
    OBVIOUS
  <2> HIDE DEF h
  <2>2. QED
    BY <1>11, <1>14, <2>1
<1>16. ASSUME NEW k \in 1 .. n
       PROVE  h[k] = CutOne(h[k - 1])
  <2>1. h[k] = G[1 .. k] /\ h[k - 1] = G[1 .. k - 1]
    OBVIOUS
  <2> HIDE DEF h
  <2>2. QED
    BY <1>13, <1>14, <2>1
<1>17. QED
  BY <1>15, <1>16 DEF start

\* A card goes from one place to another one.
CardFromTo(text, p, q, card) ==
    p \in Nat /\ q \in Nat /\ q = p + Width(card) /\ q <= Len(text) /\ CardAt(text, p, card)

\* A card at the end of a text is cut off.
LEMMA OneIsCut ==
    ASSUME NEW text \in Text, NEW card \in Card, NEW p, NEW q, CardFromTo(text, p, q, card), NEW cards
    PROVE  CutOne([text |-> SubSeq(text, 1, q), cards |-> cards])
             = [text |-> SubSeq(text, 1, p), cards |-> <<card>> \o cards]
<1> DEFINE t == SubSeq(text, 1, q)
           w == Width(card)
<1>0. p \in Nat /\ q \in Nat /\ q = p + Width(card) /\ q <= Len(text) /\ CardAt(text, p, card)
  BY DEF CardFromTo
<1>1. w \in {2, 3} /\ q = p + w /\ Len(text) \in Nat /\ p <= q
  BY <1>0, CardThere DEF Text
<1>2. t \in Text /\ Len(t) = q /\ \A i \in 1 .. q : t[i] = text[i]
  BY <1>0 DEF Text
<1>3. SubSeq(t, 1, p) = SubSeq(text, 1, p)
  <2> DEFINE a == SubSeq(t, 1, p)
             b == SubSeq(text, 1, p)
  <2>1. a \in Seq(Char) /\ Len(a) = p /\ \A i \in 1 .. p : a[i] = t[i]
    <3> HIDE DEF t
    <3>1. QED
      BY <1>0, <1>1, <1>2 DEF Text
  <2>2. b \in Seq(Char) /\ Len(b) = p /\ \A i \in 1 .. p : b[i] = text[i]
    BY <1>0, <1>1 DEF Text
  <2>3. \A i \in 1 .. p : i \in 1 .. q
    BY <1>0, <1>1
  <2> HIDE DEF a, b, t
  <2>4. \A i \in 1 .. p : a[i] = b[i]
    BY <1>2, <2>1, <2>2, <2>3
  <2>5. a = b
    BY ONLY <2>1, <2>2, <2>4, SameSeq
  <2>6. QED
    BY <2>5 DEF a, b
<1> HIDE DEF t
<1>4. CardAt(t, p, card)
  <2>1. \A i \in 1 .. w : p + i \in 1 .. q
    BY <1>0, <1>1
  <2>2. \A i \in 1 .. w : text[p + i] = cardText(card)[i]
    BY <1>0 DEF CardAt
  <2>3. \A i \in 1 .. w : t[p + i] = cardText(card)[i]
    BY <1>0, <1>2, <2>1, <2>2
  <2>4. p + w <= Len(t)
    BY <1>0, <1>1, <1>2
  <2>5. QED
    BY <2>3, <2>4 DEF CardAt
<1>5. lastCardLen(t) = w
  BY <1>0, <1>1, <1>2, <1>4, CardLast
<1>6. SubSeq(t, p + 1, p + w) = cardText(card)
  BY <1>0, <1>2, <1>4, CardThere
<1> HIDE DEF w
<1>7. Len(t) - w = p /\ 1 + p - 1 = p /\ p <= Len(t)
  BY <1>0, <1>1, <1>2
<1>8. substr(t, 1, p) = SubSeq(text, 1, p)
  BY <1>3, <1>7 DEF substr
<1>9. substr(t, p + 1, 3) = SubSeq(t, p + 1, p + w)
  <2>1. CASE w = 3
    <3>1. (p + 1) + 3 - 1 = p + w /\ p + w <= Len(t)
      BY <1>0, <1>1, <1>2, <2>1
    <3>2. QED
      BY <3>1 DEF substr
  <2>2. CASE w = 2
    <3>1. ~((p + 1) + 3 - 1 <= Len(t)) /\ Len(t) = p + w
      BY <1>0, <1>1, <1>2, <2>2
    <3>2. QED
      BY <3>1 DEF substr
  <2>3. QED
    BY <1>0, <1>1, <2>1, <2>2
<1>10. fromString(substr(t, p + 1, 3)) = card
  BY <1>6, <1>9, CardIsRead
<1> DEFINE r == [text |-> t, cards |-> cards]
<1>11. r.text = t /\ r.cards = cards
  OBVIOUS
<1> HIDE DEF r
<1>12. CutOne(r) = [text |-> substr(t, 1, p), cards |-> <<fromString(substr(t, p + 1, 3))>> \o cards]
  BY <1>5, <1>7, <1>11 DEF CutOne
<1>13. QED
  BY <1>8, <1>10, <1>12 DEF t, r

\* cutCards finds the cards at the end of a text and what is before them.
LEMMA CardsCut ==
    ASSUME NEW text \in Text, NEW cards \in Seq(Card), NEW e, CardsAt(text, e, cards),
           e[Len(cards)] = Len(text)
    PROVE  cutCards(text, Len(cards)) = [text |-> SubSeq(text, 1, e[0]), cards |-> cards]
<1> DEFINE n == Len(cards)
<1>1. /\ n \in Nat /\ \A k \in 0 .. n : e[k] \in Nat
      /\ \A k \in 1 .. n : /\ cards[k] \in Card /\ e[k - 1] \in Nat /\ e[k] = e[k - 1] + Width(cards[k])
                           /\ e[k] <= Len(text) /\ CardAt(text, e[k - 1], cards[k])
  BY CardsThere
<1> DEFINE left(k) == [text |-> SubSeq(text, 1, e[k]), cards |-> SubSeq(cards, k + 1, n)]
<1>2. left(n) = [text |-> text, cards |-> <<>>]
  <2>1. SubSeq(text, 1, e[n]) = text
    BY DEF Text
  <2>2. SubSeq(cards, n + 1, n) = <<>>
    BY <1>1
  <2>3. QED
    BY ONLY <2>1, <2>2
<1>3. left(0) = [text |-> SubSeq(text, 1, e[0]), cards |-> cards]
  <2>1. SubSeq(cards, 0 + 1, n) = cards
    OBVIOUS
  <2>2. QED
    BY ONLY <2>1
<1>4. ASSUME NEW k \in 1 .. n
      PROVE  CutOne(left(k)) = left(k - 1)
  <2>1. /\ cards[k] \in Card /\ e[k - 1] \in Nat /\ e[k] = e[k - 1] + Width(cards[k])
        /\ e[k] <= Len(text) /\ CardAt(text, e[k - 1], cards[k]) /\ e[k] \in Nat
    BY <1>1
  <2>2. CutOne(left(k)) = [text |-> SubSeq(text, 1, e[k - 1]), cards |-> <<cards[k]>> \o SubSeq(cards, k + 1, n)]
    <3> DEFINE p == e[k - 1]
               q == e[k]
               card == cards[k]
               rest == SubSeq(cards, k + 1, n)
    <3>1. card \in Card /\ CardFromTo(text, p, q, card)
      BY <2>1 DEF CardFromTo
    <3> HIDE DEF p, q, card, rest
    <3>2. CutOne([text |-> SubSeq(text, 1, q), cards |-> rest])
             = [text |-> SubSeq(text, 1, p), cards |-> <<card>> \o rest]
      BY ONLY <3>1, text \in Text, OneIsCut
    <3>3. QED
      BY <3>2 DEF p, q, card, rest
  <2>3. <<cards[k]>> \o SubSeq(cards, k + 1, n) = SubSeq(cards, k, n)
    BY RestIs
  <2>4. (k - 1) + 1 = k
    BY <1>1
  <2>5. QED
    BY ONLY <2>2, <2>3, <2>4
<1> HIDE DEF left, n
<1>5. PICK h : /\ h[0] = [text |-> text, cards |-> <<>>] /\ cutCards(text, n) = h[n]
               /\ \A k \in 1 .. n : h[k] = CutOne(h[k - 1])
  BY <1>1, CutCardsGoes
<1> DEFINE Bad == {j \in 0 .. n : h[j] # left(n - j)}
<1>6. Bad = {}
  <2> SUFFICES ASSUME Bad # {}
               PROVE  FALSE
    OBVIOUS
  <2>1. Bad \in SUBSET Nat
    OBVIOUS
  <2>2. PICK j \in Bad : \A i \in Bad : j <= i
    BY <2>1, Least
  <2>3. j # 0
    <3>1. n - 0 = n
      BY <1>1
    <3>2. QED
      BY <1>2, <1>5, <3>1
  <2>4. j \in 1 .. n /\ j - 1 \in 0 .. n /\ j - 1 \notin Bad
    <3>1. j \in 0 .. n /\ n \in Nat
      BY <1>1
    <3>2. j \in 1 .. n /\ j - 1 \in 0 .. n /\ ~(j <= j - 1)
      BY ONLY <2>3, <3>1
    <3> HIDE DEF Bad
    <3>3. QED
      BY ONLY <2>2, <3>2
  <2>5. h[j - 1] = left(n - (j - 1))
    BY <2>4
  <2> DEFINE k == n - (j - 1)
  <2>6. k \in 1 .. n /\ k - 1 = n - j
    BY <1>1, <2>4
  <2>7. CutOne(left(k)) = left(n - j)
    <3>1. CutOne(left(k)) = left(k - 1)
      BY <1>4, <2>6
    <3> HIDE DEF k
    <3>2. QED
      BY <2>6, <3>1
  <2>8. QED
    BY <1>5, <2>2, <2>4, <2>5, <2>7
<1>7. h[n] = left(0)
  <2>1. n \in 0 .. n /\ n - n = 0
    BY <1>1
  <2>2. QED
    BY <1>6, <2>1
<1>8. QED
  BY <1>3, <1>5, <1>7 DEF n

-----------------------------------------------------------------------------
(* Messages.  The patterns are written for four sides and thirteen tricks. *)

AsWritten == NSides = 4 /\ TricksPerRound = 13

\* A text begins with another one.
Begins(text, part) ==
    Len(part) <= Len(text) /\ \A i \in 1 .. Len(part) : text[i] = part[i]

\* The numbers of tricks, and the one after the last.
LEMMA TrickNumberText ==
    ASSUME NEW n \in 1 .. 14
    PROVE  /\ toString[n] \in Text
           /\ n < 10 => Len(toString[n]) = 1 /\ toString[n][1] \in Digits \ {"0"}
           /\ n >= 10 => /\ Len(toString[n]) = 2 /\ toString[n][1] = "1"
                         /\ toString[n][2] = Digit[n - 9]
<1>1. n \in Nat /\ toString[n] \in Seq(Digits)
  BY ToStringType
<1>2. toString[n] \in Text
  BY <1>1 DEF Text, Char
<1>3. CASE n < 10
  <2>1. n \in 0 .. 9 /\ n # 0
    BY <1>3
  <2>2. toString[n] = <<Digit[n + 1]>>
    BY ONLY <1>1, <1>3, ToStringStep
  <2>3. Digit[n + 1] \in Digits \ {"0"}
    BY <2>1, DigitsAre
  <2>4. QED
    BY <1>2, <1>3, <2>2, <2>3
<1>4. CASE n >= 10
  <2>1. PICK m \in Nat : m = 1
    OBVIOUS
  <2>2. m < 10 /\ m + 1 = 2 /\ n \div 10 = m /\ (n % 10) + 1 = n - 9 /\ ~(n < 10) /\ n - 10 \in 0 .. 9
    BY ONLY <1>4, <2>1, n \in 1 .. 14
  <2>3. toString[m] = <<Digit[m + 1]>>
    BY ONLY <2>2, m \in Nat, ToStringStep
  <2>4. toString[n] = Append(toString[n \div 10], Digit[(n % 10) + 1])
    BY ONLY <1>1, <2>2, ToStringStep
  <2>5. toString[n] = Append(<<Digit[2]>>, Digit[n - 9])
    BY ONLY <2>2, <2>3, <2>4
  <2>6. Digit[2] = "1" /\ "1" \in Digits
    BY DigitsAre DEF Digit
  <2>7. Digit[n - 9] \in Digits
    <3>1. n - 10 \in 0 .. 9 /\ (n - 10) + 1 = n - 9
      BY ONLY <1>4, n \in 1 .. 14
    <3>2. QED
      BY <3>1, DigitsAre
  <2> DEFINE d == Digit[n - 9]
  <2> HIDE DEF d
  <2>8. Append(<<"1">>, d) \in Seq(Digits) /\ Len(Append(<<"1">>, d)) = 2
        /\ Append(<<"1">>, d)[1] = "1" /\ Append(<<"1">>, d)[2] = d
    BY <2>6, <2>7 DEF d
  <2>9. QED
    BY <1>2, <1>4, <2>5, <2>6, <2>8 DEF d
<1>5. QED
  BY <1>2, <1>3, <1>4

\* The pattern of a trick number gets past it.
LEMMA NumberPassed ==
    ASSUME NEW text \in Text, NEW n \in 1 .. 13, Begins(text, toString[n])
    PROVE  Len(toString[n]) \in PastNumber(text, {0})
<1> DEFINE N == toString[n]
<1>1. /\ N \in Text
      /\ n < 10 => Len(N) = 1 /\ N[1] \in Digits \ {"0"}
      /\ n >= 10 => Len(N) = 2 /\ N[1] = "1" /\ N[2] = Digit[n - 9]
  BY TrickNumberText
<1>2. Len(N) <= Len(text) /\ \A i \in 1 .. Len(N) : text[i] = N[i]
  BY DEF Begins
<1>3. DOMAIN text = 1 .. Len(text) /\ Len(text) \in Nat
  BY DEF Text
<1>4. Digit[n - 9] \in {"0", "1", "2", "3"} \/ n < 10
  BY DEF Digit
<1> HIDE DEF N
<1>5. CASE n < 10
  <2>1. 1 \in DOMAIN text /\ text[1] \in Digits \ {"0"} /\ Len(N) = 1 /\ 1 - 1 \in {0}
    <3>1. Len(N) = 1 /\ N[1] \in Digits \ {"0"}
      BY ONLY <1>1, <1>5
    <3>2. 1 \in 1 .. Len(N) /\ 1 \in 1 .. Len(text)
      BY ONLY <1>2, <1>3, <3>1
    <3>3. text[1] = N[1] /\ 1 - 1 = 0
      BY ONLY <1>2, <3>2
    <3>4. QED
      BY ONLY <1>3, <3>1, <3>2, <3>3
  <2>2. 1 \in Past(text, {0}, Digits \ {"0"})
    BY <2>1 DEF Past
  <2>3. QED
    BY <2>1, <2>2 DEF PastNumber, N
<1>6. CASE n >= 10
  <2>1. /\ 1 \in DOMAIN text /\ text[1] = "1" /\ 1 - 1 \in {0} /\ Len(N) = 2
        /\ 2 \in DOMAIN text /\ text[2] = Digit[n - 9] /\ 2 - 1 = 1
    <3>1. Len(N) = 2 /\ N[1] = "1" /\ N[2] = Digit[n - 9]
      BY ONLY <1>1, <1>6
    <3>2. 1 \in 1 .. Len(N) /\ 1 \in 1 .. Len(text) /\ 2 \in 1 .. Len(N) /\ 2 \in 1 .. Len(text)
      BY ONLY <1>2, <1>3, <3>1
    <3>3. text[1] = N[1] /\ text[2] = N[2] /\ 1 - 1 = 0 /\ 2 - 1 = 1
      BY ONLY <1>2, <3>2
    <3>4. QED
      BY ONLY <1>3, <3>1, <3>2, <3>3
  <2>2. 1 \in Past(text, {0}, {"1"})
    BY <2>1 DEF Past
  <2>3. 2 \in Past(text, Past(text, {0}, {"1"}), {"0", "1", "2", "3"})
    BY <1>4, <1>6, <2>1, <2>2 DEF Past
  <2>4. QED
    BY <2>1, <2>3 DEF PastNumber, N
<1>7. QED
  BY <1>5, <1>6

\* What is in the text of a trick number and cards, and something more.
TrickIn(text, number, e, cards) ==
    /\ text \in Text /\ Begins(text, number) /\ SubSeq(text, 1, Len(number)) = number
    /\ CardsAt(text, e, cards) /\ e[0] = Len(number)

\* Such a text has the number at the beginning and the cards behind it.
LEMMA TrickWritten ==
    ASSUME NEW number \in Text, NEW cards \in Seq(Card), NEW post \in Text
    PROVE  /\ number \o cardsText(cards) \in Text
           /\ \E e : /\ TrickIn((number \o cardsText(cards)) \o post, number, e, cards)
                     /\ e[Len(cards)] = Len(number \o cardsText(cards))
<1> DEFINE C == cardsText(cards)
           head == number \o C
           text == head \o post
<1>1. C \in Text /\ \E e : /\ CardsAt(text, e, cards)
                           /\ e[0] = Len(number) /\ e[Len(cards)] = Len(number) + Len(C)
  BY CardsWritten
<1> HIDE DEF C
<1>2. /\ head \in Text /\ Len(head) = Len(number) + Len(C)
      /\ \A i \in 1 .. Len(number) : head[i] = number[i]
      /\ Len(number) \in Nat /\ Len(C) \in Nat
  BY <1>1, Behind DEF Text
<1> HIDE DEF head
<1>3. /\ text \in Text /\ Len(text) = Len(head) + Len(post)
      /\ \A i \in 1 .. Len(head) : text[i] = head[i]
      /\ Len(post) \in Nat
  BY <1>2, Behind DEF Text
<1> HIDE DEF text
<1>4. Len(number) <= Len(text) /\ \A i \in 1 .. Len(number) : i \in 1 .. Len(head)
  BY <1>2, <1>3
<1>5. Begins(text, number)
  BY <1>2, <1>3, <1>4 DEF Begins
<1>6. SubSeq(text, 1, Len(number)) = number
  <2> DEFINE part == SubSeq(text, 1, Len(number))
  <2>1. part \in Seq(Char) /\ Len(part) = Len(number) /\ \A i \in 1 .. Len(number) : part[i] = text[i]
    BY <1>2, <1>3, <1>4 DEF Text
  <2> HIDE DEF part
  <2>2. \A i \in 1 .. Len(number) : part[i] = number[i]
    BY <1>5, <2>1 DEF Begins
  <2>3. part = number
    BY <2>1, <2>2, SameSeq DEF Text
  <2>4. QED
    BY <2>3 DEF part
<1>7. QED
  BY <1>1, <1>2, <1>3, <1>5, <1>6 DEF TrickIn, C, head, text

\* The length of the number is found by the third character.
LEMMA NumberLenIs ==
    ASSUME NEW text, NEW number \in Text, NEW cards \in Seq(Card), NEW e, TrickIn(text, number, e, cards),
           Len(number) \in {1, 2}, e[Len(cards)] = Len(text)
    PROVE  numberLen(text) = Len(number)
<1>1. text \in Text /\ CardsAt(text, e, cards) /\ e[0] = Len(number)
  BY DEF TrickIn
<1>2. Len(text) \in Nat /\ Len(cards) \in Nat
  BY <1>1 DEF Text
<1>3. CASE Len(cards) = 0
  <2>1. Len(text) = Len(number) /\ Len(text) <= 2
    <3>1. Len(text) = Len(number)
      BY ONLY <1>1, <1>3, e[Len(cards)] = Len(text)
    <3>2. PICK m \in {1, 2} : Len(number) = m
      OBVIOUS
    <3>3. m <= 2
      OBVIOUS
    <3>4. QED
      BY ONLY <3>1, <3>2, <3>3
  <2>2. QED
    BY <2>1 DEF numberLen
<1>4. CASE Len(cards) # 0
  <2>1. 1 \in 1 .. Len(cards) /\ 1 - 1 = 0
    BY <1>2, <1>4
  <2>2. cards[1] \in Card /\ e[0] \in Nat /\ CardAt(text, e[0], cards[1])
    BY <1>1, <2>1, CardsThere
  <2> DEFINE p == e[0]
             card == cards[1]
  <2> HIDE DEF p, card
  <2>3. p \in {1, 2} /\ p = Len(number) /\ card \in Card /\ CardAt(text, p, card) /\ p \in Nat
    BY <1>1, <2>2 DEF p, card
  <2>4. /\ Width(card) \in {2, 3} /\ (Width(card) = 3 <=> card.val = 10)
        /\ p + Width(card) \in DOMAIN text
        /\ text[p + 1] = Name[card.val - 1] /\ text[p + Width(card)] = card.col
        /\ (card.val = 10 => text[p + 2] = "0")
    BY <1>1, <2>3, CardThere
  <2>5. ~(Len(text) <= 2)
    <3>1. DOMAIN text = 1 .. Len(text)
      BY <1>1 DEF Text
    <3>2. p + Width(card) >= 3 /\ p + Width(card) <= Len(text)
      BY <1>2, <2>3, <2>4, <3>1
    <3>3. QED
      BY <1>2, <2>3, <2>4, <3>2
  <2>6. card.val \in 2 .. 14 /\ card.col \in Colors
    BY <2>3, CardHas
  <2>7. CASE p = 1
    <3>1. text[3] \in Colors \cup {"0"}
      <4>1. CASE card.val = 10
        BY <2>4, <2>7, <4>1
      <4>2. CASE card.val # 10
        <5>1. Width(card) = 2 /\ p + Width(card) = 3
          BY <2>4, <2>7, <4>2
        <5>2. QED
          BY <2>4, <2>6, <5>1
      <4>3. QED
        BY <4>1, <4>2
    <3>2. QED
      BY <2>3, <2>5, <2>7, <3>1 DEF numberLen
  <2>8. CASE p = 2
    <3>1. p + 1 = 3
      BY <2>8
    <3>2. text[3] = Name[card.val - 1]
      BY <2>4, <3>1
    <3>3. text[3] \notin Colors \cup {"0"}
      BY <2>6, <3>2, NamesDiffer
    <3>4. QED
      BY <2>3, <2>5, <2>8, <3>3 DEF numberLen
  <2>9. QED
    BY <2>3, <2>7, <2>8
<1>5. QED
  BY <1>3, <1>4

\* The trick numbers of the patterns, as texts.
LEMMA TrickNumbers ==
    ASSUME NEW n \in 1 .. 13
    PROVE  /\ n \in Nat /\ toString[n] \in Text /\ Len(toString[n]) \in {1, 2}
           /\ atoi(toString[n]) = n
<1>1. n \in Nat
  OBVIOUS
<1>2. n < 10 \/ n >= 10
  OBVIOUS
<1>3. Len(toString[n]) \in {1, 2}
  BY <1>2, TrickNumberText
<1>4. QED
  BY <1>1, <1>3, TrickNumberText, NumbersRead

\* A text without more behind it.
LEMMA NothingBehind == ASSUME NEW text \in Text PROVE text \o <<>> = text /\ <<>> \in Text
BY DEF Text

\* What a prompt has in it: its number and cards to its end.
LEMMA TrickTextHas ==
    ASSUME NEW n \in Nat, toString[n] \in Text, NEW cards \in Seq(Card)
    PROVE  \E e : /\ TrickIn(genTrick(cards, n), toString[n], e, cards)
                  /\ e[Len(cards)] = Len(genTrick(cards, n))
<1>1. genTrick(cards, n) = toString[n] \o cardsText(cards)
  BY DEF genTrick
<1>2. /\ toString[n] \o cardsText(cards) \in Text
      /\ \E e : /\ TrickIn((toString[n] \o cardsText(cards)) \o <<>>, toString[n], e, cards)
                /\ e[Len(cards)] = Len(toString[n] \o cardsText(cards))
  BY TrickWritten, NothingBehind
<1>3. QED
  BY <1>1, <1>2, NothingBehind

\* A prompt is read as the number and the cards it was written with.
THEOREM TrickSRead ==
    ASSUME AsWritten, NEW n \in 1 .. 13, NEW cards \in Seq(Card), Len(cards) < NSides
    PROVE  readTrickS(genTrick(cards, n)) = [no |-> n, cards |-> cards]
<1> DEFINE text == genTrick(cards, n)
           N == toString[n]
<1>1. n \in Nat /\ N \in Text /\ Len(N) \in {1, 2} /\ atoi(N) = n
  BY TrickNumbers
<1>2. PICK e : TrickIn(text, N, e, cards) /\ e[Len(cards)] = Len(text)
  BY <1>1, TrickTextHas
<1> HIDE DEF text
<1>3. /\ text \in Text /\ Begins(text, N) /\ SubSeq(text, 1, Len(N)) = N
      /\ CardsAt(text, e, cards) /\ e[0] = Len(N)
  BY <1>2 DEF TrickIn
<1>4. Len(N) \in PastNumber(text, {0})
  BY <1>3, NumberPassed
<1>5. numberLen(text) = Len(N)
  BY <1>1, <1>2, NumberLenIs
<1> HIDE DEF N
<1>6. isTrickS(text)
  <2>1. Len(cards) \in 0 .. NSides - 1
    <3>1. PICK c \in Nat : c = Len(cards)
      OBVIOUS
    <3>2. c < NSides /\ NSides = 4
      BY <3>1 DEF AsWritten
    <3>3. c \in 0 .. NSides - 1
      BY ONLY <3>2, c \in Nat
    <3>4. QED
      BY <3>1, <3>3
  <2>2. PastNumber(text, {0}) \in SUBSET Nat
    BY <1>3 DEF PastNumber, Past, Text
  <2>3. Len(text) \in PastCards(text, PastNumber(text, {0}), Len(cards))
    BY <1>2, <1>3, <1>4, <2>2, CardsPassed
  <2>4. QED
    BY <2>1, <2>3 DEF isTrickS
<1>7. substr(text, 1, Len(N)) = N
  <2>1. 1 + Len(N) - 1 = Len(N) /\ Len(N) <= Len(text)
    BY <1>1, <1>3 DEF Begins
  <2>2. QED
    BY <1>3, <2>1 DEF substr
<1>8. cardsFrom(text, Len(N) + 1) = cards
  BY <1>2, <1>3, CardsFromText
<1>9. QED
  BY <1>1, <1>5, <1>6, <1>7, <1>8 DEF readTrickS, text

\* So is a card that is laid, which is read from its end.
THEOREM TrickCRead ==
    ASSUME NEW n \in 1 .. 13, NEW cards \in Seq(Card), Len(cards) = 1
    PROVE  readTrickC(genTrick(cards, n)) = [no |-> n, cards |-> cards]
<1> DEFINE text == genTrick(cards, n)
           N == toString[n]
<1>1. n \in Nat /\ N \in Text /\ Len(N) \in {1, 2} /\ atoi(N) = n
  BY TrickNumbers
<1>2. PICK e : TrickIn(text, N, e, cards) /\ e[Len(cards)] = Len(text)
  BY <1>1, TrickTextHas
<1> HIDE DEF text
<1>3. /\ text \in Text /\ Begins(text, N) /\ SubSeq(text, 1, Len(N)) = N
      /\ CardsAt(text, e, cards) /\ e[0] = Len(N)
  BY <1>2 DEF TrickIn
<1>4. Len(N) \in PastNumber(text, {0})
  BY <1>3, NumberPassed
<1> HIDE DEF N
<1>5. isTrickC(text)
  <2>1. 1 \in 1 .. Len(cards) /\ 1 - 1 = 0
    OBVIOUS
  <2>2. /\ cards[1] \in Card /\ e[0] \in Nat /\ e[1] = e[0] + Width(cards[1])
        /\ CardAt(text, e[0], cards[1])
    <3>1. \A k \in 1 .. Len(cards) :
             /\ cards[k] \in Card /\ e[k - 1] \in Nat /\ e[k] = e[k - 1] + Width(cards[k])
             /\ CardAt(text, e[k - 1], cards[k])
      BY ONLY <1>3, CardsThere, cards \in Seq(Card)
    <3>2. QED
      BY ONLY <2>1, <3>1
  <2> DEFINE p == e[0]
             card == cards[1]
  <2> HIDE DEF p, card
  <2>3. card \in Card /\ p \in Nat /\ CardAt(text, p, card) /\ p \in PastNumber(text, {0})
    BY <1>3, <1>4, <2>2 DEF p, card
  <2>4. p + Width(card) \in PastCard(text, PastNumber(text, {0}))
    BY <1>3, <2>3, CardPassed
  <2>5. p + Width(card) = Len(text)
    BY <1>2, <2>2 DEF p, card
  <2>6. QED
    BY <2>4, <2>5 DEF isTrickC
<1>6. cutCards(text, 1) = [text |-> N, cards |-> cards]
  <2>1. cutCards(text, Len(cards)) = [text |-> SubSeq(text, 1, e[0]), cards |-> cards]
    BY ONLY <1>2, <1>3, CardsCut, cards \in Seq(Card)
  <2>2. QED
    BY <1>3, <2>1
<1>7. QED
  BY <1>1, <1>5, <1>6 DEF readTrickC, text

\* A trick after the last one matches no pattern.
THEOREM NoTrickAfterLast ==
    ASSUME AsWritten, NEW cards \in Seq(Card)
    PROVE  readTrickS(genTrick(cards, TricksPerRound + 1)) = Nothing
<1> DEFINE N == toString[14]
           text == genTrick(cards, 14)
<1>1. N \in Text /\ Len(N) = 2 /\ N[1] = "1" /\ N[2] = "4"
  <2>1. PICK n \in 1 .. 14 : n = 14
    OBVIOUS
  <2>2. n >= 10 /\ n - 9 = 5
    BY <2>1
  <2>3. toString[n] \in Text /\ Len(toString[n]) = 2 /\ toString[n][1] = "1" /\ toString[n][2] = Digit[n - 9]
    BY <2>2, TrickNumberText
  <2>4. Digit[5] = "4"
    BY DEF Digit
  <2>5. QED
    BY <2>1, <2>2, <2>3, <2>4
<1>2. PICK e : TrickIn(text, N, e, cards) /\ e[Len(cards)] = Len(text)
  BY <1>1, TrickTextHas
<1> HIDE DEF text
<1>3. /\ text \in Text /\ Begins(text, N) /\ CardsAt(text, e, cards) /\ e[0] = 2
  BY <1>1, <1>2 DEF TrickIn
<1>4. /\ Len(text) \in Nat /\ DOMAIN text = 1 .. Len(text) /\ 2 <= Len(text)
      /\ text[1] = "1" /\ text[2] = "4"
  BY <1>1, <1>3 DEF Text, Begins
<1>5. 3 \in DOMAIN text => text[3] \notin Colors
  <2>1. CASE Len(cards) = 0
    BY <1>2, <1>3, <1>4, <2>1
  <2>2. CASE Len(cards) # 0
    <3>1. 1 \in 1 .. Len(cards) /\ 1 - 1 = 0
      BY <2>2
    <3>2. cards[1] \in Card /\ CardAt(text, e[0], cards[1]) /\ e[0] \in Nat
      BY <1>3, <3>1, CardsThere
    <3>3. text[e[0] + 1] = Name[cards[1].val - 1] /\ e[0] + 1 = 3
      BY <1>3, <3>2, CardThere
    <3>4. QED
      BY <3>2, <3>3, CardHas, NamesDiffer
  <2>3. QED
    BY <2>1, <2>2
<1> DEFINE P == PastNumber(text, {0})
<1>6. P \subseteq {1}
  <2>1. \A chars : Past(text, {0}, chars) \subseteq {1}
    BY <1>4 DEF Past
  <2>2. Past(text, Past(text, {0}, {"1"}), {"0", "1", "2", "3"}) = {}
    <3>1. \A p \in DOMAIN text : p - 1 \in {1} => p = 2
      BY <1>4
    <3>2. QED
      BY <1>4, <2>1, <3>1 DEF Past
  <2>3. QED
    BY <2>1, <2>2 DEF PastNumber
<1>7. PastCard(text, P) = {}
  <2>1. \A p \in DOMAIN text : (p - 1 \in {1} => p = 2) /\ (p - 1 \in {2} => p = 3)
    BY <1>4
  <2>2. Past(text, P, Ranks) \subseteq {2}
    BY <1>6, <2>1 DEF Past
  <2>3. Past(text, P, {"1"}) = {}
    BY <1>4, <1>6, <2>1 DEF Past
  <2>4. Past(text, Past(text, P, {"1"}), {"0"}) = {}
    BY <2>3 DEF Past
  <2>5. QED
    BY <1>5, <2>1, <2>2, <2>4 DEF PastCard, Past
<1>8. PastCard(text, {}) = {}
  BY DEF PastCard, Past
<1>9. ASSUME NEW n \in 0 .. NSides - 1
      PROVE  Len(text) \notin PastCards(text, P, n)
  <2>1. n \in Nat /\ P \in SUBSET Nat
    BY <1>6, RulesAssumption
  <2> HIDE DEF P
  <2>2. PICK h : /\ h[0] = P /\ PastCards(text, P, n) = h[n]
                 /\ \A k \in 1 .. n : h[k] = PastCard(text, h[k - 1])
    BY <1>3, <2>1, PastCardsGoes
  <2> DEFINE Bad == {k \in 0 .. n : h[k] # IF k = 0 THEN P ELSE {}}
  <2>3. Bad = {}
    <3> SUFFICES ASSUME Bad # {}
                 PROVE  FALSE
      OBVIOUS
    <3>1. Bad \in SUBSET Nat
      OBVIOUS
    <3>2. PICK k \in Bad : \A j \in Bad : k <= j
      BY <3>1, Least
    <3>3. k # 0
      BY <2>2
    <3>4. k \in 1 .. n /\ k - 1 \in 0 .. n /\ k - 1 \notin Bad
      BY <2>1, <3>2, <3>3
    <3>5. h[k - 1] = P \/ h[k - 1] = {}
      BY <3>4
    <3>6. QED
      BY <1>7, <1>8, <2>2, <3>2, <3>3, <3>4, <3>5 DEF P
  <2>4. h[n] \subseteq {1}
    BY <1>6, <2>1, <2>3 DEF P
  <2>5. QED
    BY <1>4, <2>2, <2>4
<1>10. ~isTrickS(text)
  BY <1>9 DEF isTrickS
<1>11. QED
  BY <1>10 DEF readTrickS, text, AsWritten

\* A refusal is read as its number.
THEOREM WrongRead ==
    ASSUME NEW n \in 1 .. 13
    PROVE  readWrong(genWrong(n)) = n
<1>1. n \in Nat /\ toString[n] \in Text /\ Len(toString[n]) \in {1, 2} /\ atoi(toString[n]) = n
  BY TrickNumbers
<1>2. Begins(toString[n], toString[n])
  BY <1>1 DEF Begins
<1>3. isWrong(toString[n])
  BY <1>1, <1>2, NumberPassed DEF isWrong
<1>4. QED
  BY <1>1, <1>3 DEF readWrong, genWrong

\* The sides have one letter each.
LEMMA SideIs ==
    ASSUME AsWritten, NEW s \in Sides
    PROVE  /\ s \in 0 .. 3 /\ sideText(s) = <<SideName[s + 1]>> /\ sideText(s) \in Text
           /\ SideName[s + 1] \in Range(SideName) /\ SideName[s + 1] \notin Digits
           /\ sideOf(SideName[s + 1]) = s
<1>1. Sides = 0 .. 3
  BY DEF Sides, AsWritten
<1>2. SideName[1] = "N" /\ SideName[2] = "E" /\ SideName[3] = "S" /\ SideName[4] = "W" /\ DOMAIN SideName = 1 .. 4
  BY DEF SideName
<1>3. \A t \in 0 .. 3 : /\ t + 1 \in DOMAIN SideName /\ SideName[t + 1] \in Char
                        /\ SideName[t + 1] \notin Digits
  BY <1>2, DigitsAre DEF Char
<1>4. \A t, u \in 0 .. 3 : SideName[t + 1] = SideName[u + 1] => t = u
  BY <1>2
<1>5. s \in 0 .. 3 /\ SideName[s + 1] \in Range(SideName)
  BY <1>1, <1>3 DEF Range
<1>6. sideOf(SideName[s + 1]) = s
  BY <1>1, <1>4, <1>5 DEF sideOf
<1>7. sideText(s) = <<SideName[s + 1]>>
  BY DEF sideText
<1>8. QED
  BY <1>3, <1>5, <1>6, <1>7 DEF Text

\* A trick that was taken is read from its end: the side, the cards, and the
\* number that is left.
THEOREM TakenRead ==
    ASSUME AsWritten, NEW n \in 1 .. 13, NEW cards \in Seq(Card), Len(cards) = NSides, NEW s \in Sides
    PROVE  readTaken(genTaken(cards, s, n)) = [no |-> n, cards |-> cards, side |-> s]
<1> DEFINE text == genTaken(cards, s, n)
           head == genTrick(cards, n)
           N == toString[n]
           ch == SideName[s + 1]
<1>1. n \in Nat /\ N \in Text /\ Len(N) \in {1, 2} /\ atoi(N) = n
  BY TrickNumbers
<1>2. /\ sideText(s) = <<ch>> /\ sideText(s) \in Text /\ ch \in Range(SideName) /\ sideOf(ch) = s
  BY SideIs
<1>3. head = N \o cardsText(cards) /\ text = head \o sideText(s)
  BY DEF genTrick, genTaken
<1>4. PICK e : TrickIn(text, N, e, cards) /\ e[Len(cards)] = Len(head)
  <2>1. /\ N \o cardsText(cards) \in Text
        /\ \E e : /\ TrickIn((N \o cardsText(cards)) \o sideText(s), N, e, cards)
                  /\ e[Len(cards)] = Len(N \o cardsText(cards))
    BY <1>1, <1>2, TrickWritten
  <2> HIDE DEF text, head, N
  <2>2. QED
    BY ONLY <1>3, <2>1
<1>5. PICK d : TrickIn(head, N, d, cards) /\ d[Len(cards)] = Len(head)
  BY <1>1, TrickTextHas
<1> HIDE DEF text, head, ch
<1>6. /\ text \in Text /\ Begins(text, N) /\ CardsAt(text, e, cards) /\ e[0] = Len(N)
  BY <1>4 DEF TrickIn
<1>7. /\ head \in Text /\ SubSeq(head, 1, Len(N)) = N /\ CardsAt(head, d, cards) /\ d[0] = Len(N)
  BY <1>5 DEF TrickIn
<1>8. Len(text) = Len(head) + 1 /\ text[Len(head) + 1] = ch /\ Len(head) \in Nat /\ SubSeq(text, 1, Len(head)) = head
  <2>1. head \in Seq(Char) /\ ch \in Char /\ text = head \o <<ch>>
    BY <1>2, <1>3, <1>7 DEF Text
  <2>2. QED
    BY ONLY <2>1
<1>9. Len(text) - 1 = Len(head)
  BY <1>8
<1>10. Front(text) = head /\ Last(text) = ch
  BY <1>8, <1>9 DEF Front, Last
<1>11. isTaken(text)
  <2>1. Len(N) \in PastNumber(text, {0})
    BY <1>6, NumberPassed
  <2>2. PastNumber(text, {0}) \in SUBSET Nat
    BY <1>6 DEF PastNumber, Past, Text
  <2> DEFINE places == PastNumber(text, {0})
  <2> HIDE DEF N, places
  <2>3. e[Len(cards)] \in PastCards(text, places, Len(cards))
    BY <1>6, <2>1, <2>2, CardsPassed DEF places
  <2>4. Len(head) \in PastCards(text, places, NSides)
    BY <1>4, <2>3
  <2>5. Len(text) \in DOMAIN text
    BY <1>6, <1>8 DEF Text
  <2>6. Len(text) \in PastSide(text, PastCards(text, places, NSides))
    BY <1>2, <1>8, <1>9, <2>4, <2>5 DEF PastSide, Past
  <2>7. QED
    BY <2>6 DEF isTaken, places
<1> HIDE DEF N
<1>12. cutCards(head, Len(cards)) = [text |-> SubSeq(head, 1, d[0]), cards |-> cards]
  BY ONLY <1>5, <1>7, CardsCut, cards \in Seq(Card)
<1>13. cutCards(head, NSides) = [text |-> N, cards |-> cards]
  BY <1>7, <1>12
<1>14. QED
  BY <1>1, <1>2, <1>10, <1>11, <1>13 DEF readTaken, text

\* Sides written one after the other are read as they were written,
THEOREM BusyRead ==
    ASSUME AsWritten, NEW order \in Seq(Sides)
    PROVE  readSides(genBusy(order)) = order
<1> DEFINE n == Len(order)
           seqs == [i \in DOMAIN order |-> sideText(order[i])]
           text == genBusy(order)
<1>1. n \in Nat /\ DOMAIN order = 1 .. n /\ \A k \in 1 .. n : order[k] \in Sides
  OBVIOUS
<1>2. \A k \in 1 .. n : /\ seqs[k] = <<SideName[order[k] + 1]>> /\ seqs[k] \in Text
                        /\ sideOf(SideName[order[k] + 1]) = order[k]
  BY <1>1, SideIs
<1>3. seqs \in Seq(Text) /\ Len(seqs) = n
  <2>1. seqs = [k \in 1 .. n |-> seqs[k]]
    BY <1>1
  <2> HIDE DEF seqs
  <2>2. QED
    BY ONLY <1>1, <1>2, <2>1
<1>4. text = FlattenSeq(seqs)
  BY DEF genBusy
<1> HIDE DEF seqs, text, n
<1>5. PICK e : Parts(text, e, seqs) /\ e[0] = 0 /\ e[n] = Len(text)
  BY <1>3, <1>4, Joined
<1>6. text \in Text
  BY <1>3, <1>4, Joined
<1>7. \A k \in 1 .. n : Len(seqs[k]) = 1 /\ seqs[k][1] = SideName[order[k] + 1]
  <2>1. \A ch : Len(<<ch>>) = 1 /\ <<ch>>[1] = ch
    OBVIOUS
  <2>2. QED
    BY ONLY <1>2, <2>1
<1>8. \A k \in 1 .. n : e[k] = e[k - 1] + 1 /\ text[e[k - 1] + 1] = SideName[order[k] + 1]
  <2>1. \A k \in 1 .. n : /\ e[k] = e[k - 1] + Len(seqs[k])
                          /\ \A i \in 1 .. Len(seqs[k]) : text[e[k - 1] + i] = seqs[k][i]
    BY ONLY <1>3, <1>5 DEF Parts
  <2>2. 1 \in 1 .. 1
    OBVIOUS
  <2> TAKE k \in 1 .. n
  <2>3. Len(seqs[k]) = 1 /\ seqs[k][1] = SideName[order[k] + 1]
    BY <1>7
  <2>4. text[e[k - 1] + 1] = seqs[k][1] /\ e[k] = e[k - 1] + 1
    BY ONLY <2>1, <2>2, <2>3, k \in 1 .. n
  <2>5. QED
    BY ONLY <2>3, <2>4
<1> DEFINE Bad == {k \in 0 .. n : e[k] # k}
<1>9. Bad = {}
  <2> SUFFICES ASSUME Bad # {}
               PROVE  FALSE
    OBVIOUS
  <2>1. Bad \in SUBSET Nat
    OBVIOUS
  <2>2. PICK k \in Bad : \A j \in Bad : k <= j
    BY <2>1, Least
  <2>3. k # 0
    BY <1>5
  <2>4. k \in 1 .. n /\ k - 1 \in 0 .. n /\ k - 1 \notin Bad
    BY <1>1, <2>2, <2>3
  <2>5. e[k - 1] = k - 1
    BY <2>4
  <2>6. QED
    BY <1>8, <2>4, <2>5
<1>10. DOMAIN text = 1 .. n
  <2>1. Len(text) = n
    BY <1>1, <1>5, <1>9
  <2>2. QED
    BY <1>6, <2>1 DEF Text
<1>11. ASSUME NEW k \in 1 .. n
       PROVE  sideOf(text[k]) = order[k]
  <2>1. k - 1 \in 0 .. n /\ (k - 1) + 1 = k
    BY <1>1
  <2>2. e[k - 1] = k - 1
    BY <1>9, <2>1
  <2>3. QED
    BY <1>2, <1>8, <2>1, <2>2
<1>12. readSides(text) = [k \in 1 .. n |-> order[k]]
  BY <1>10, <1>11 DEF readSides
<1>13. QED
  BY <1>1, <1>12 DEF text

\* one side among them.
LEMMA IntroRead ==
    ASSUME AsWritten, NEW s \in Sides
    PROVE  readSides(genIntro(s)) = <<s>>
<1> DEFINE ch == SideName[s + 1]
<1>1. genIntro(s) = <<ch>> /\ sideOf(ch) = s
  BY SideIs DEF genIntro
<1> HIDE DEF ch
<1>2. DOMAIN <<ch>> = {1} /\ <<ch>>[1] = ch
  OBVIOUS
<1>3. readSides(<<ch>>) = [i \in {1} |-> s]
  BY <1>1, <1>2 DEF readSides
<1>4. [i \in {1} |-> s] = <<s>>
  OBVIOUS
<1>5. QED
  BY <1>1, <1>3, <1>4

-----------------------------------------------------------------------------
(* Scores.                                                                 *)

\* Scores, and how one of them is written.
Score == [side : Sides, score : Nat]
scoreText(s) == sideText(s.side) \o toString[s.score]

\* A score is written behind place p of a text and goes to place q: a side, a
\* number, and no digit behind it.
ScoreAt(text, p, q, s) ==
    /\ p \in Nat /\ q \in Nat /\ q = p + 1 + Len(toString[s.score]) /\ q <= Len(text)
    /\ text[p + 1] = SideName[s.side + 1]
    /\ \A i \in 1 .. Len(toString[s.score]) : text[p + 1 + i] = toString[s.score][i]
    /\ q = Len(text) \/ text[q + 1] \notin Digits

\* The text of scores has them one after the other.
LEMMA ScoresWritten ==
    ASSUME AsWritten, NEW scores \in Seq(Score)
    PROVE  /\ genScore(scores) \in Text
           /\ \E e : /\ e[0] = 0 /\ e[Len(scores)] = Len(genScore(scores))
                     /\ \A k \in 1 .. Len(scores) : ScoreAt(genScore(scores), e[k - 1], e[k], scores[k])
<1> DEFINE n == Len(scores)
           seqs == [i \in DOMAIN scores |-> scoreText(scores[i])]
           text == genScore(scores)
           number(k) == toString[scores[k].score]
           ch(k) == SideName[scores[k].side + 1]
<1>1. n \in Nat /\ DOMAIN scores = 1 .. n /\ \A k \in 1 .. n : scores[k].side \in Sides /\ scores[k].score \in Nat
  <2>1. \A s \in Score : s.side \in Sides /\ s.score \in Nat
    BY DEF Score
  <2>2. n \in Nat /\ DOMAIN scores = 1 .. n /\ \A k \in 1 .. n : scores[k] \in Score
    OBVIOUS
  <2>3. QED
    BY ONLY <2>1, <2>2
<1>2. \A k \in 1 .. n : /\ number(k) \in Text /\ Len(number(k)) \in Nat /\ ch(k) \notin Digits
                        /\ seqs[k] = <<ch(k)>> \o number(k) /\ <<ch(k)>> \in Text
  <2> TAKE k \in 1 .. n
  <2>1. number(k) \in Seq(Digits)
    BY <1>1, NumberText
  <2>2. number(k) \in Text /\ Len(number(k)) \in Nat
    <3> HIDE DEF number
    <3>1. QED
      BY <2>1 DEF Text, Char
  <2>3. /\ sideText(scores[k].side) = <<ch(k)>> /\ sideText(scores[k].side) \in Text
        /\ ch(k) \notin Digits
    BY <1>1, SideIs
  <2>4. seqs[k] = sideText(scores[k].side) \o number(k)
    BY <1>1 DEF scoreText
  <2> HIDE DEF seqs, number, ch
  <2>5. QED
    BY <2>2, <2>3, <2>4
<1>3. text = FlattenSeq(seqs)
  BY DEF genScore, scoreText
<1>4. seqs = [k \in 1 .. n |-> seqs[k]]
  BY <1>1
<1> HIDE DEF seqs, text, n, number, ch
<1>5. ASSUME NEW k \in 1 .. n
      PROVE  /\ seqs[k] \in Text /\ Len(seqs[k]) = 1 + Len(number(k)) /\ seqs[k][1] = ch(k)
             /\ \A i \in 1 .. Len(number(k)) : seqs[k][1 + i] = number(k)[i]
  <2> DEFINE s == <<ch(k)>>
             t == number(k)
  <2>1. s \in Seq(Char) /\ t \in Seq(Char) /\ seqs[k] = s \o t /\ Len(s) = 1 /\ s[1] = ch(k)
    BY <1>2 DEF Text
  <2> HIDE DEF s, t
  <2>2. /\ s \o t \in Seq(Char) /\ Len(s \o t) = Len(s) + Len(t)
        /\ \A i \in 1 .. Len(s) : (s \o t)[i] = s[i]
        /\ \A i \in 1 .. Len(t) : (s \o t)[Len(s) + i] = t[i]
    <3>1. s \in Seq(Char) /\ t \in Seq(Char)
      BY <2>1
    <3>2. QED
      BY ONLY <3>1, Behind
  <2>3. 1 \in 1 .. Len(s)
    BY <2>1
  <2>4. QED
    BY <2>1, <2>2, <2>3 DEF t, Text
<1>6. seqs \in Seq(Text) /\ Len(seqs) = n
  BY <1>1, <1>4, <1>5
<1>7. PICK e : Parts(text, e, seqs) /\ e[0] = 0 /\ e[n] = Len(text)
  BY <1>3, <1>6, Joined
<1>8. text \in Text
  BY <1>3, <1>6, Joined
<1>9. /\ e \in [0 .. n -> Nat]
      /\ \A k \in 1 .. n : /\ e[k] = e[k - 1] + Len(seqs[k]) /\ e[k] <= Len(text)
                           /\ \A i \in 1 .. Len(seqs[k]) : text[e[k - 1] + i] = seqs[k][i]
  BY <1>6, <1>7 DEF Parts
<1>10. ASSUME NEW k \in 1 .. n
       PROVE  text[e[k - 1] + 1] = ch(k) /\ e[k] = e[k - 1] + 1 + Len(number(k))
  <2>1. Len(seqs[k]) = 1 + Len(number(k)) /\ seqs[k][1] = ch(k) /\ Len(number(k)) \in Nat
    BY <1>2, <1>5
  <2>2. 1 \in 1 .. 1 + Len(number(k))
    BY ONLY <2>1
  <2>3. e[k - 1] \in Nat
    BY <1>1, <1>9
  <2>4. text[e[k - 1] + 1] = seqs[k][1] /\ e[k] = e[k - 1] + (1 + Len(number(k)))
    BY ONLY <1>9, <2>1, <2>2, k \in 1 .. n
  <2>5. PICK m \in Nat : m = Len(number(k))
    BY <2>1
  <2>6. \A a \in Nat : a + (1 + m) = a + 1 + m
    OBVIOUS
  <2>7. QED
    BY ONLY <2>1, <2>3, <2>4, <2>5, <2>6
<1>11. ASSUME NEW k \in 1 .. n
       PROVE  ScoreAt(text, e[k - 1], e[k], scores[k])
  <2>1. e[k - 1] \in Nat /\ e[k] \in Nat /\ e[k] <= Len(text)
    BY <1>1, <1>9
  <2>2. ASSUME NEW i \in 1 .. Len(number(k))
        PROVE  text[e[k - 1] + 1 + i] = number(k)[i]
    <3>1. Len(seqs[k]) = 1 + Len(number(k)) /\ seqs[k][1 + i] = number(k)[i] /\ Len(number(k)) \in Nat
      BY <1>2, <1>5
    <3>2. 1 + i \in 1 .. 1 + Len(number(k)) /\ e[k - 1] + (1 + i) = e[k - 1] + 1 + i
      <4>1. PICK m \in Nat : m = Len(number(k))
        BY <3>1
      <4>2. PICK a \in Nat : a = e[k - 1]
        BY <2>1
      <4>3. i \in 1 .. m
        BY <4>1
      <4>4. 1 + i \in 1 .. 1 + m /\ a + (1 + i) = a + 1 + i
        BY ONLY <4>3, m \in Nat, a \in Nat
      <4>5. QED
        BY ONLY <4>1, <4>2, <4>4
    <3>3. 1 + i \in 1 .. Len(seqs[k])
      BY ONLY <3>1, <3>2
    <3>4. text[e[k - 1] + (1 + i)] = seqs[k][1 + i]
      BY ONLY <1>9, <3>3, k \in 1 .. n
    <3>5. QED
      BY ONLY <3>1, <3>2, <3>4
  <2>3. e[k] = Len(text) \/ text[e[k] + 1] \notin Digits
    <3>1. CASE k = n
      BY <1>7, <3>1
    <3>2. CASE k # n
      <4> DEFINE j == k + 1
      <4>1. j \in 1 .. n /\ j - 1 = k
        BY <1>1, <3>2
      <4> HIDE DEF j
      <4>2. text[e[k] + 1] = ch(j) /\ ch(j) \notin Digits
        BY <1>2, <1>10, <4>1
      <4>3. QED
        BY <4>2
    <3>3. QED
      BY <3>1, <3>2
  <2>4. QED
    BY <1>10, <2>1, <2>2, <2>3 DEF ScoreAt, number, ch
<1>12. QED
  BY <1>7, <1>8, <1>11 DEF text, n

\* What is in a score: a number of one digit or more, which is zero or does
\* not begin with one.
LEMMA ScoreThere ==
    ASSUME NEW text \in Text, NEW p, NEW q, NEW s \in Score, ScoreAt(text, p, q, s)
    PROVE  /\ p \in Nat /\ q \in Nat /\ p + 1 \in DOMAIN text /\ p + 2 \in DOMAIN text /\ q \in DOMAIN text
           /\ p + 2 <= q /\ \A i \in p + 2 .. q : text[i] \in Digits
           /\ IF s.score = 0 THEN q = p + 2 /\ text[p + 2] = "0" ELSE text[p + 2] # "0"
           /\ SubSeq(text, p + 2, q) = toString[s.score]
<1> DEFINE N == toString[s.score]
           w == Len(N)
<1>1. /\ p \in Nat /\ q \in Nat /\ q = p + 1 + w /\ q <= Len(text)
      /\ \A i \in 1 .. w : text[p + 1 + i] = N[i]
  BY DEF ScoreAt
<1>2. /\ s.score \in Nat /\ N \in Seq(Digits) /\ w >= 1 /\ w \in Nat
      /\ IF s.score = 0 THEN N = <<"0">> ELSE N[1] # "0"
  <2>1. s.score \in Nat
    BY DEF Score
  <2>2. QED
    BY <2>1, NumberText
<1> HIDE DEF N
<1>3. \A i \in 1 .. w : N[i] \in Digits
  BY <1>2
<1>4. DOMAIN text = 1 .. Len(text) /\ Len(text) \in Nat
  BY DEF Text
<1>5. s.score = 0 => w = 1 /\ N[1] = "0"
  BY <1>2
<1>6. SubSeq(text, p + 2, q) = N
  <2> DEFINE part == SubSeq(text, p + 2, q)
  <2> HIDE DEF w
  <2>1. /\ p + 2 \in 1 .. Len(text) /\ q \in 1 .. Len(text) /\ q - (p + 2) + 1 = w
        /\ \A i \in 1 .. w : (p + 2) + i - 1 = p + 1 + i
    BY <1>1, <1>2, <1>4
  <2>2. /\ part \in Seq(Char) /\ Len(part) = w
        /\ \A i \in 1 .. w : part[i] = text[(p + 2) + i - 1]
    <3>1. part \in Seq(Char)
      BY <1>1, <1>4, <2>1 DEF Text
    <3>2. Len(part) = q - (p + 2) + 1
      BY <1>1, <1>2, <1>4, <2>1 DEF Text
    <3>3. \A i \in 1 .. q - (p + 2) + 1 : part[i] = text[(p + 2) + i - 1]
      BY <1>1, <1>4, <2>1 DEF Text
    <3>4. QED
      BY ONLY <2>1, <3>1, <3>2, <3>3
  <2> HIDE DEF part
  <2>3. \A i \in 1 .. w : part[i] = N[i]
    BY ONLY <1>1, <2>1, <2>2
  <2>4. N \in Seq(Char) /\ Len(N) = w
    BY <1>2 DEF Char, w
  <2>5. part = N
    BY ONLY <2>2, <2>3, <2>4, SameSeq
  <2>6. QED
    BY <2>5 DEF part
<1> HIDE DEF w
<1>7. /\ p + 2 <= q /\ p + 1 \in 1 .. Len(text) /\ p + 2 \in 1 .. Len(text) /\ q \in 1 .. Len(text)
      /\ w = 1 => q = p + 2
  BY ONLY <1>1, <1>2, <1>4
<1>8. ASSUME NEW i \in p + 2 .. q
      PROVE  text[i] \in Digits
  <2>1. i - (p + 1) \in 1 .. w /\ p + 1 + (i - (p + 1)) = i
    BY ONLY <1>1, <1>2, i \in p + 2 .. q
  <2>2. text[p + 1 + (i - (p + 1))] = N[i - (p + 1)]
    BY ONLY <1>1, <2>1
  <2>3. QED
    BY ONLY <1>3, <2>1, <2>2
<1>9. text[p + 2] = N[1]
  <2>1. 1 \in 1 .. w /\ p + 1 + 1 = p + 2
    BY ONLY <1>1, <1>2
  <2>2. text[p + 1 + 1] = N[1]
    BY ONLY <1>1, <2>1
  <2>3. QED
    BY ONLY <2>1, <2>2
<1>10. IF s.score = 0 THEN q = p + 2 /\ text[p + 2] = "0" ELSE text[p + 2] # "0"
  BY ONLY <1>2, <1>5, <1>7, <1>9
<1>11. QED
  BY <1>1, <1>4, <1>6, <1>7, <1>8, <1>10 DEF N

\* The pattern of a side and a score gets past them.
LEMMA ScorePassed ==
    ASSUME AsWritten, NEW text \in Text, NEW p, NEW q, NEW s \in Score, ScoreAt(text, p, q, s),
           NEW places, p \in places
    PROVE  q \in PastScore(text, PastSide(text, places))
<1>1. /\ p \in Nat /\ q \in Nat /\ p + 1 \in DOMAIN text /\ p + 2 \in DOMAIN text /\ q \in DOMAIN text
      /\ p + 2 <= q /\ \A i \in p + 2 .. q : text[i] \in Digits
      /\ IF s.score = 0 THEN q = p + 2 /\ text[p + 2] = "0" ELSE text[p + 2] # "0"
  BY ScoreThere
<1>2. text[p + 1] \in Range(SideName)
  <2>1. s.side \in Sides
    BY DEF Score
  <2>2. QED
    BY <2>1, SideIs DEF ScoreAt
<1>3. p + 1 - 1 = p /\ p + 2 - 1 = p + 1
  BY <1>1
<1> DEFINE sides == PastSide(text, places)
<1>4. p + 1 \in sides
  BY <1>1, <1>2, <1>3 DEF PastSide, Past
<1> HIDE DEF sides
<1>5. CASE s.score = 0
  <2>1. q \in Past(text, sides, {"0"})
    BY <1>1, <1>3, <1>4, <1>5 DEF Past
  <2>2. QED
    BY <2>1 DEF PastScore, sides
<1>6. CASE s.score # 0
  <2>1. p + 2 \in p + 2 .. q
    BY <1>1
  <2>2. text[p + 2] \in Digits \ {"0"}
    BY <1>1, <1>6, <2>1
  <2>3. p + 2 \in Past(text, sides, Digits \ {"0"})
    BY <1>1, <1>3, <1>4, <2>2 DEF Past
  <2>4. QED
    BY <1>1, <2>3 DEF PastScore, sides
<1>7. QED
  BY <1>5, <1>6

\* The places the pattern of all scores goes through, score by score.
LEMMA PastScoresGoes ==
    ASSUME AsWritten, NEW text \in Text
    PROVE  \E h : /\ h[0] = {0} /\ PastScores(text) = h[NSides]
                  /\ \A k \in 1 .. NSides : h[k] = PastScore(text, PastSide(text, h[k - 1]))
<1> DEFINE n == NSides
           After(at) == PastScore(text, PastSide(text, at))
           ids == [i \in 1 .. n |-> i]
           Loop(g) == g = [T \in SUBSET (1 .. n) |-> IF T = {} THEN {0} ELSE After(g[T \ {Max(T)}])]
           V == SUBSET Nat
           step == [x \in V |-> After(x)]
<1>1. DOMAIN text \in SUBSET Nat /\ DOMAIN ids = 1 .. n /\ n \in Nat
  BY DEF Text, AsWritten
<1>2. \A x \in V : step[x] = After(x) /\ step[x] \in V
  <2>1. \A x : After(x) \in SUBSET DOMAIN text
    BY DEF PastScore, Past
  <2> HIDE DEF After
  <2>2. QED
    BY <1>1, <2>1
<1>3. PastScores(text) = (CHOOSE g : Loop(g))[1 .. n]
  <2>1. PastScores(text) = FoldLeft(LAMBDA at, i : After(at), {0}, ids)
    BY DEF PastScores
  <2> HIDE DEF After
  <2>2. QED
    BY <1>1, <2>1, Zenon DEF FoldLeft, MapThenFoldSet
<1>4. {0} \in V
  OBVIOUS
<1> HIDE DEF step, V, After, n
<1>5. StaysIn(V, {0}, step)
  BY <1>2, <1>4 DEF StaysIn
<1>6. PICK g \in [SUBSET (1 .. n) -> V] : StepsTo(g, n, {0}, step)
  BY <1>1, <1>5, LoopExists
<1>7. \A T \in SUBSET (1 .. n) : g[T] = IF T = {} THEN {0} ELSE After(g[T \ {Max(T)}])
  <2>1. \A T \in SUBSET (1 .. n) : T \ {Max(T)} \in SUBSET (1 .. n)
    OBVIOUS
  <2>2. QED
    BY <1>2, <1>6, <2>1 DEF StepsTo
<1>8. g = [T \in SUBSET (1 .. n) |-> g[T]]
  BY <1>6
<1>9. Loop(g)
  BY <1>7, <1>8, Zenon
<1>10. PICK G : Loop(G) /\ PastScores(text) = G[1 .. n]
  BY <1>3, <1>9
<1> DEFINE next == [T \in SUBSET (1 .. n) |-> After(G[T \ {Max(T)}])]
           h == [k \in 0 .. n |-> G[1 .. k]]
<1>11. Loops(G, n, {0}, next)
  BY <1>10 DEF Loops
<1>12. \A k \in 1 .. n : next[1 .. k] = After(G[(1 .. k) \ {Max(1 .. k)}])
  <2>1. \A k \in 1 .. n : 1 .. k \in SUBSET (1 .. n)
    BY <1>1
  <2>2. QED
    BY <2>1
<1> HIDE DEF next
<1>13. /\ G[1 .. 0] = {0}
       /\ \A k \in 1 .. n : G[1 .. k] = next[1 .. k] /\ (1 .. k) \ {Max(1 .. k)} = 1 .. k - 1
  BY <1>1, <1>11, LoopGoes
<1>14. h[0] = {0} /\ PastScores(text) = h[n]
  <2>1. h[0] = G[1 .. 0] /\ h[n] = G[1 .. n]
    BY <1>1
  <2> HIDE DEF h
  <2>2. QED
    BY <1>10, <1>13, <2>1
<1>15. ASSUME NEW k \in 1 .. n
       PROVE  h[k] = After(h[k - 1])
  <2>1. h[k] = G[1 .. k] /\ h[k - 1] = G[1 .. k - 1]
    BY <1>1
  <2> HIDE DEF h
  <2>2. QED
    BY <1>12, <1>13, <2>1
<1>16. QED
  BY <1>14, <1>15 DEF After, n

\* The last digit of those that follow each other from a place on.
LastDigit(text) ==
    CHOOSE f : f = [p \in Nat |-> IF p < Len(text) /\ text[p + 1] \in Digits THEN f[p + 1] ELSE p]

\* It goes from digit to digit,
LEMMA LastDigitGoes ==
    ASSUME NEW text \in Text
    PROVE  /\ LastDigit(text) \in [Nat -> Nat]
           /\ \A p \in Nat : LastDigit(text)[p] = IF p < Len(text) /\ text[p + 1] \in Digits
                                                  THEN LastDigit(text)[p + 1] ELSE p
<1> DEFINE L == Len(text)
           More(p) == p < L /\ text[p + 1] \in Digits
           base == [p \in Nat |-> p]
           ends == {p \in Nat : ~More(p)}
           before == [p \in Nat |-> p + 1]
           step == [p \in Nat |-> [x \in Nat |-> x]]
           measure == [p \in Nat |-> IF p >= L THEN 0 ELSE L - p]
           Is(f) == f = [p \in Nat |-> IF More(p) THEN f[p + 1] ELSE p]
<1>1. L \in Nat
  BY DEF Text
<1> HIDE DEF L
<1>2. \A p \in Nat : p \in ends <=> ~More(p)
  OBVIOUS
<1>3. \A p \in Nat : p \notin ends => p < L
  OBVIOUS
<1>4. GoesDown(Nat, Nat, measure, ends, base, before, step)
  <2>1. \A p \in Nat : measure[p] = IF p >= L THEN 0 ELSE L - p
    OBVIOUS
  <2>2. measure \in [Nat -> Nat]
    <3>1. \A p \in Nat : p >= L \/ L - p \in Nat
      BY <1>1
    <3>2. QED
      BY <3>1
  <2>3. \A p \in Nat : base[p] = p /\ before[p] = p + 1 /\ \A x \in Nat : step[p][x] = x
    OBVIOUS
  <2> HIDE DEF ends, base, before, step, measure
  <2>4. ASSUME NEW p \in Nat, p \notin ends
        PROVE  before[p] \in Nat /\ measure[before[p]] < measure[p]
    <3>1. p < L /\ p + 1 \in Nat /\ before[p] = p + 1
      BY <1>3, <2>3, <2>4
    <3>2. measure[p] = L - p /\ (measure[p + 1] = 0 \/ measure[p + 1] = L - (p + 1))
      BY <1>1, <2>1, <3>1
    <3>3. QED
      BY <1>1, <3>1, <3>2
  <2>5. QED
    BY <2>2, <2>3, <2>4 DEF GoesDown
<1>5. PICK f \in [Nat -> Nat] : Recurs(f, Nat, ends, base, before, step)
  <2> HIDE DEF ends, base, before, step, measure
  <2>1. QED
    BY <1>4, RecursionExists
<1>6. ASSUME NEW p \in Nat
      PROVE  f[p] = IF More(p) THEN f[p + 1] ELSE p
  <2>1. f[p] = IF p \in ends THEN base[p] ELSE step[p][f[before[p]]]
    BY <1>5 DEF Recurs
  <2>2. base[p] = p /\ before[p] = p + 1 /\ \A x \in Nat : step[p][x] = x
    OBVIOUS
  <2>3. f[p + 1] \in Nat
    OBVIOUS
  <2> HIDE DEF ends, base, before, step, More
  <2>4. QED
    BY <1>2, <2>1, <2>2, <2>3
<1>7. f = [p \in Nat |-> f[p]]
  BY <1>5
<1> HIDE DEF ends, base, before, step, measure, More
<1>8. Is(f)
  BY <1>6, <1>7, Zenon
<1> DEFINE F == LastDigit(text)
<1>9. Is(F)
  BY <1>8 DEF LastDigit, L, More
<1> HIDE DEF F
<1>10. \A p \in Nat : F[p] = IF More(p) THEN F[p + 1] ELSE p
  BY <1>9
<1>11. F = [p \in Nat |-> F[p]]
  BY <1>9
<1> HIDE DEF Is
<1>12. \A p \in Nat : F[p] \in Nat
  <2> DEFINE Bad == {m \in Nat : \E p \in Nat : F[p] \notin Nat /\ m = (IF p >= L THEN 0 ELSE L - p)}
  <2> SUFFICES ASSUME NEW q \in Nat, F[q] \notin Nat
               PROVE  FALSE
    OBVIOUS
  <2>1. Bad # {}
    <3>1. (IF q >= L THEN 0 ELSE L - q) \in Nat
      BY <1>1
    <3>2. QED
      BY <3>1
  <2>2. PICK m \in Bad : \A k \in Bad : m <= k
    <3>1. Bad \in SUBSET Nat
      OBVIOUS
    <3>2. QED
      BY <2>1, <3>1, Least
  <2>3. PICK p \in Nat : F[p] \notin Nat /\ m = (IF p >= L THEN 0 ELSE L - p)
    BY <2>2
  <2>4. More(p) /\ F[p] = F[p + 1] /\ p < L
    BY <1>10, <2>3 DEF More
  <2> DEFINE d == IF p + 1 >= L THEN 0 ELSE L - (p + 1)
  <2>5. d \in Nat /\ p + 1 \in Nat /\ d < m
    BY <1>1, <2>3, <2>4
  <2>6. d \in Bad
    BY <2>3, <2>4, <2>5
  <2> HIDE DEF Bad, d
  <2>7. m \in Nat
    BY <1>1, <2>3
  <2>8. QED
    BY <2>2, <2>5, <2>6, <2>7
<1>13. F \in [Nat -> Nat]
  BY <1>11, <1>12
<1>14. QED
  BY <1>10, <1>13 DEF F, More, L

\* and stops behind the last one.
LEMMA LastDigitFound ==
    ASSUME NEW text \in Text, NEW a \in Nat, NEW b \in Nat, a <= b, b <= Len(text),
           \A i \in a .. b : text[i] \in Digits,
           b = Len(text) \/ text[b + 1] \notin Digits
    PROVE  LastDigit(text)[a] = b
<1> DEFINE F == LastDigit(text)
           L == Len(text)
           Good(j) == F[b - j] = b
           Bad == {j \in 0 .. b - a : ~Good(j)}
<1>1. L \in Nat /\ b <= L
  BY DEF Text
<1>2. \A p \in Nat : F[p] = IF p < L /\ text[p + 1] \in Digits THEN F[p + 1] ELSE p
  BY LastDigitGoes
<1>3. b = L \/ text[b + 1] \notin Digits
  OBVIOUS
<1> HIDE DEF F, L
<1>4. Good(0)
  <2>1. ~(b < L /\ text[b + 1] \in Digits)
    BY <1>1, <1>3
  <2>2. F[b] = b /\ b - 0 = b
    BY <1>2, <2>1
  <2>3. QED
    BY ONLY <2>2
<1>5. ASSUME NEW j \in 1 .. b - a, Good(j - 1)
      PROVE  Good(j)
  <2> DEFINE p == b - j
  <2>1. p \in Nat /\ p + 1 = b - (j - 1) /\ p < L /\ p + 1 \in a .. b
    BY <1>1
  <2> HIDE DEF p
  <2>2. text[p + 1] \in Digits
    BY <2>1
  <2>3. F[p] = F[p + 1]
    BY <1>2, <2>1, <2>2
  <2>4. F[p + 1] = b
    BY <1>5, <2>1
  <2>5. QED
    BY <2>3, <2>4 DEF p
<1>6. Bad = {}
  <2> SUFFICES ASSUME Bad # {}
               PROVE  FALSE
    OBVIOUS
  <2> HIDE DEF Good
  <2>1. Bad \in SUBSET Nat
    OBVIOUS
  <2>2. PICK j \in Bad : \A i \in Bad : j <= i
    BY <2>1, Least
  <2>3. j # 0
    BY <1>4
  <2>4. j \in 1 .. b - a /\ j - 1 \in 0 .. b - a /\ ~(j <= j - 1)
    BY <2>3
  <2>5. j - 1 \notin Bad
    BY ONLY <2>2, <2>4
  <2>6. Good(j - 1)
    BY <2>4, <2>5
  <2>7. QED
    BY <1>5, <2>4, <2>6
<1>7. b - a \in 0 .. b - a /\ b - (b - a) = a
  OBVIOUS
<1>8. Good(b - a)
  <2> HIDE DEF Good
  <2>1. QED
    BY <1>6, <1>7
<1>9. QED
  BY <1>7, <1>8 DEF F

\* What readScore does with a place and the scores it has: it reads one more.
ScoreStep(text, r) ==
    LET end == LastDigit(text)[r.at + 1]
    IN  [at |-> end + 1,
         read |-> Append(r.read, [side |-> sideOf(text[r.at]),
                                  score |-> atoi(substr(text, r.at + 1, end - r.at))])]

\* readScore does so for each side.
LEMMA ReadScoreGoes ==
    ASSUME AsWritten, NEW text \in Text, isScore(text)
    PROVE  \E h : /\ h[0] = [at |-> 1, read |-> <<>>] /\ readScore(text) = h[NSides].read
                  /\ \A k \in 1 .. NSides : h[k] = ScoreStep(text, h[k - 1])
<1> DEFINE n == NSides
           start == [at |-> 1, read |-> <<>>]
           ids == [i \in 1 .. n |-> i]
           Loop(g) == g = [T \in SUBSET (1 .. n) |-> IF T = {} THEN start
                                                     ELSE ScoreStep(text, g[T \ {Max(T)}])]
           one(a) == [side |-> sideOf(text[a]),
                      score |-> atoi(substr(text, a + 1, LastDigit(text)[a + 1] - a))]
           A == {one(a) : a \in Nat}
           V == [at : Nat, read : Seq(A)]
           step == [x \in V |-> ScoreStep(text, x)]
<1>1. DOMAIN ids = 1 .. n /\ n \in Nat
  BY DEF AsWritten
<1>2. \A x \in V : ScoreStep(text, x) \in V
  <2> TAKE x \in V
  <2>1. x.at \in Nat /\ x.read \in Seq(A) /\ one(x.at) \in A
    OBVIOUS
  <2>2. ScoreStep(text, x) = [at |-> LastDigit(text)[x.at + 1] + 1, read |-> Append(x.read, one(x.at))]
    BY DEF ScoreStep
  <2> HIDE DEF A, one
  <2>3. x.at + 1 \in Nat
    BY <2>1
  <2>4. LastDigit(text)[x.at + 1] \in Nat
    BY <2>3, LastDigitGoes
  <2>5. LastDigit(text)[x.at + 1] + 1 \in Nat
    BY ONLY <2>4
  <2>6. Append(x.read, one(x.at)) \in Seq(A)
    BY ONLY <2>1
  <2>7. QED
    BY ONLY <2>2, <2>5, <2>6
<1>3. readScore(text) = ((CHOOSE g : Loop(g))[1 .. n]).read
  <2>1. readScore(text) = FoldLeft(LAMBDA r, i : ScoreStep(text, r), start, ids).read
    BY Zenon DEF readScore, ScoreStep, LastDigit
  <2> HIDE DEF start
  <2>2. QED
    BY <1>1, <2>1, Zenon DEF FoldLeft, MapThenFoldSet
<1>4. start \in V
  <2>1. <<>> \in Seq(A)
    OBVIOUS
  <2> HIDE DEF A
  <2>2. QED
    BY <2>1
<1>5. \A x \in V : step[x] = ScoreStep(text, x)
  OBVIOUS
<1> HIDE DEF V, step, start, n
<1>6. StaysIn(V, start, step)
  BY <1>2, <1>4, <1>5 DEF StaysIn
<1>7. PICK g \in [SUBSET (1 .. n) -> V] : StepsTo(g, n, start, step)
  BY <1>1, <1>6, LoopExists
<1>8. \A T \in SUBSET (1 .. n) : g[T] = IF T = {} THEN start ELSE ScoreStep(text, g[T \ {Max(T)}])
  <2>1. \A T \in SUBSET (1 .. n) : T \ {Max(T)} \in SUBSET (1 .. n)
    OBVIOUS
  <2>2. QED
    BY <1>5, <1>7, <2>1 DEF StepsTo
<1>9. g = [T \in SUBSET (1 .. n) |-> g[T]]
  BY <1>7
<1>10. Loop(g)
  BY <1>8, <1>9, Zenon
<1>11. PICK G : Loop(G) /\ readScore(text) = G[1 .. n].read
  BY <1>3, <1>10
<1> DEFINE next == [T \in SUBSET (1 .. n) |-> ScoreStep(text, G[T \ {Max(T)}])]
           h == [k \in 0 .. n |-> G[1 .. k]]
<1>12. Loops(G, n, start, next)
  BY <1>11 DEF Loops
<1>13. \A k \in 1 .. n : next[1 .. k] = ScoreStep(text, G[(1 .. k) \ {Max(1 .. k)}])
  <2>1. \A k \in 1 .. n : 1 .. k \in SUBSET (1 .. n)
    BY <1>1
  <2>2. QED
    BY <2>1
<1> HIDE DEF next
<1>14. /\ G[1 .. 0] = start
       /\ \A k \in 1 .. n : G[1 .. k] = next[1 .. k] /\ (1 .. k) \ {Max(1 .. k)} = 1 .. k - 1
  BY <1>1, <1>12, LoopGoes
<1>15. h[0] = start /\ readScore(text) = h[n].read
  <2>1. h[0] = G[1 .. 0] /\ h[n] = G[1 .. n]
    BY <1>1
  <2> HIDE DEF h
  <2>2. QED
    BY <1>11, <1>14, <2>1
<1>16. ASSUME NEW k \in 1 .. n
       PROVE  h[k] = ScoreStep(text, h[k - 1])
  <2>1. h[k] = G[1 .. k] /\ h[k - 1] = G[1 .. k - 1]
    BY <1>1
  <2> HIDE DEF h
  <2>2. QED
    BY <1>13, <1>14, <2>1
<1>17. QED
  BY <1>15, <1>16 DEF start, n

\* The scores of all sides are read as they were written, in the order of the
\* table that held them.
THEOREM ScoreRead ==
    ASSUME AsWritten, NEW scores \in Seq(Score), Len(scores) = NSides
    PROVE  readScore(genScore(scores)) = scores
<1> DEFINE n == NSides
           text == genScore(scores)
<1>1. n \in Nat /\ \A k \in 1 .. n : scores[k] \in Score
  BY DEF AsWritten
<1>2. text \in Text /\ \E e : /\ e[0] = 0 /\ e[Len(scores)] = Len(text)
                              /\ \A k \in 1 .. Len(scores) : ScoreAt(text, e[k - 1], e[k], scores[k])
  BY ScoresWritten
<1>3. PICK e : /\ e[0] = 0 /\ e[n] = Len(text)
               /\ \A k \in 1 .. n : ScoreAt(text, e[k - 1], e[k], scores[k])
  <2> HIDE DEF text
  <2>1. QED
    BY <1>2
<1> HIDE DEF n, text
<1>4. isScore(text)
  <2>1. PICK h : /\ h[0] = {0} /\ PastScores(text) = h[n]
                 /\ \A k \in 1 .. n : h[k] = PastScore(text, PastSide(text, h[k - 1]))
    BY <1>2, PastScoresGoes DEF n
  <2> DEFINE Bad == {k \in 0 .. n : e[k] \notin h[k]}
  <2>2. Bad = {}
    <3> SUFFICES ASSUME Bad # {}
                 PROVE  FALSE
      OBVIOUS
    <3>1. Bad \in SUBSET Nat
      OBVIOUS
    <3>2. PICK k \in Bad : \A j \in Bad : k <= j
      BY <3>1, Least
    <3>3. k # 0
      BY <1>3, <2>1
    <3>4. k \in 1 .. n /\ k - 1 \in 0 .. n /\ k - 1 \notin Bad
      BY <1>1, <3>2, <3>3
    <3>5. e[k - 1] \in h[k - 1]
      BY <3>4
    <3>6. scores[k] \in Score /\ ScoreAt(text, e[k - 1], e[k], scores[k])
      BY <1>1, <1>3, <3>4
    <3>7. e[k] \in PastScore(text, PastSide(text, h[k - 1]))
      BY <1>2, <3>5, <3>6, ScorePassed
    <3>8. QED
      BY <2>1, <3>4, <3>7
  <2>3. e[n] \in h[n]
    BY <1>1, <2>2
  <2>4. QED
    BY <1>3, <2>1, <2>3 DEF isScore
<1>5. PICK h : /\ h[0] = [at |-> 1, read |-> <<>>] /\ readScore(text) = h[n].read
               /\ \A k \in 1 .. n : h[k] = ScoreStep(text, h[k - 1])
  BY <1>2, <1>4, ReadScoreGoes DEF n
<1> DEFINE got(k) == [at |-> e[k] + 1, read |-> SubSeq(scores, 1, k)]
<1>6. ASSUME NEW k \in 1 .. n
      PROVE  ScoreStep(text, got(k - 1)) = got(k)
  <2> DEFINE p == e[k - 1]
             q == e[k]
             s == scores[k]
             r == got(k - 1)
  <2>1. s \in Score /\ ScoreAt(text, p, q, s)
    BY <1>1, <1>3
  <2>2. r.at = p + 1 /\ r.read = SubSeq(scores, 1, k - 1)
    OBVIOUS
  <2>3. Append(SubSeq(scores, 1, k - 1), s) = SubSeq(scores, 1, k)
    BY <1>1 DEF n
  <2> HIDE DEF p, q, s, r
  <2>4. /\ p \in Nat /\ q \in Nat /\ q \in DOMAIN text
        /\ p + 2 <= q /\ \A i \in p + 2 .. q : text[i] \in Digits
        /\ SubSeq(text, p + 2, q) = toString[s.score]
    BY <1>2, <2>1, ScoreThere
  <2>5. /\ q <= Len(text) /\ text[p + 1] = SideName[s.side + 1]
        /\ q = Len(text) \/ text[q + 1] \notin Digits
    BY <2>1 DEF ScoreAt
  <2>6. p + 2 \in Nat /\ (p + 1) + 1 = p + 2 /\ (p + 2) + (q - (p + 1)) - 1 = q
    BY ONLY <2>4
  <2>7. LastDigit(text)[p + 2] = q
    BY <1>2, <2>4, <2>5, <2>6, LastDigitFound
  <2>8. substr(text, p + 2, q - (p + 1)) = toString[s.score]
    BY <2>4, <2>5, <2>6 DEF substr
  <2>9. s.side \in Sides /\ s.score \in Nat /\ s = [side |-> s.side, score |-> s.score]
    BY <2>1 DEF Score
  <2>10. sideOf(text[p + 1]) = s.side /\ atoi(toString[s.score]) = s.score
    BY <2>5, <2>9, SideIs, NumbersRead
  <2>11. ScoreStep(text, r)
           = [at |-> q + 1, read |-> Append(r.read, [side |-> sideOf(text[p + 1]), score |-> atoi(toString[s.score])])]
    BY <2>2, <2>6, <2>7, <2>8 DEF ScoreStep
  <2>12. ScoreStep(text, r) = [at |-> q + 1, read |-> SubSeq(scores, 1, k)]
    BY ONLY <2>2, <2>3, <2>9, <2>10, <2>11
  <2>13. QED
    BY <2>12 DEF r, q
<1>7. got(0) = [at |-> 1, read |-> <<>>]
  <2>1. e[0] + 1 = 1 /\ SubSeq(scores, 1, 0) = <<>>
    BY <1>3
  <2>2. QED
    BY ONLY <2>1
<1>8. got(n).read = scores
  BY DEF n
<1> HIDE DEF got
<1> DEFINE Bad == {k \in 0 .. n : h[k] # got(k)}
<1>9. Bad = {}
  <2> SUFFICES ASSUME Bad # {}
               PROVE  FALSE
    OBVIOUS
  <2>1. Bad \in SUBSET Nat
    OBVIOUS
  <2>2. PICK k \in Bad : \A j \in Bad : k <= j
    BY <2>1, Least
  <2>3. k # 0
    BY <1>5, <1>7
  <2>4. k \in 1 .. n /\ k - 1 \in 0 .. n /\ k - 1 \notin Bad
    BY <1>1, <2>2, <2>3
  <2>5. h[k - 1] = got(k - 1)
    BY <2>4
  <2>6. QED
    BY <1>5, <1>6, <2>4, <2>5
<1>10. h[n] = got(n)
  BY <1>1, <1>9
<1>11. QED
  BY <1>5, <1>8, <1>10 DEF text

-----------------------------------------------------------------------------
(* Hands and rounds.                                                       *)

\* The first element of a sequence.
LEMMA FirstIs ==
    ASSUME NEW S, NEW s \in Seq(S), Len(s) >= 1
    PROVE  SubSeq(s, 1, 1) = <<s[1]>>
<1> DEFINE a == SubSeq(s, 1, 1)
           b == <<s[1]>>
<1>1. s[1] \in S /\ b \in Seq(S) /\ Len(b) = 1 /\ b[1] = s[1]
  OBVIOUS
<1>2. a \in Seq(S)
  OBVIOUS
<1>3. Len(a) = 1
  OBVIOUS
<1>4. a[1] = s[1]
  OBVIOUS
<1> HIDE DEF a, b
<1>5. \A i \in 1 .. 1 : i = 1
  OBVIOUS
<1>6. a = b
  BY ONLY <1>1, <1>2, <1>3, <1>4, <1>5, SameSeq
<1>7. QED
  BY <1>6 DEF a, b

\* The kind of a round and its first player, in a DEAL and in the file.
dealHead(kind, start) == toString[kind] \o sideText(start)

\* Both have one character.
LEMMA DealHeadIs ==
    ASSUME AsWritten, NEW kind \in RoundTypes, NEW start \in Sides
    PROVE  /\ dealHead(kind, start) \in Text /\ Len(dealHead(kind, start)) = 2
           /\ dealHead(kind, start)[1] \in {Digit[i] : i \in 2 .. 8}
           /\ dealHead(kind, start)[2] \in Range(SideName)
           /\ <<dealHead(kind, start)[1]>> = toString[kind]
           /\ atoi(toString[kind]) = kind /\ sideOf(dealHead(kind, start)[2]) = start
<1> DEFINE d == Digit[kind + 1]
           ch == SideName[start + 1]
           head == dealHead(kind, start)
<1>1. kind \in Nat /\ kind < 10 /\ kind + 1 \in 2 .. 8 /\ kind \in 0 .. 9
  BY DEF RoundTypes
<1>2. toString[kind] = <<d>> /\ atoi(toString[kind]) = kind
  BY ONLY <1>1, ToStringStep, NumbersRead
<1>3. d \in {Digit[i] : i \in 2 .. 8} /\ d \in Digits
  BY <1>1, DigitsAre
<1>4. sideText(start) = <<ch>> /\ sideText(start) \in Text /\ ch \in Range(SideName) /\ sideOf(ch) = start
  BY SideIs
<1>5. head = <<d>> \o <<ch>>
  BY <1>2, <1>4 DEF dealHead
<1> HIDE DEF d, ch, head
<1>6. d \in Char /\ ch \in Char
  <2>1. <<ch>> \in Seq(Char)
    BY <1>4 DEF Text
  <2>2. ch \in Char
    BY ONLY <2>1
  <2>3. QED
    BY <1>3, <2>2 DEF Char
<1>7. head \in Seq(Char) /\ Len(head) = 2 /\ head[1] = d /\ head[2] = ch
  BY ONLY <1>5, <1>6
<1>8. QED
  BY <1>2, <1>3, <1>4, <1>7 DEF head, Text

\* A DEAL is read as the kind, the first player and the cards it was written
\* with.
THEOREM DealRead ==
    ASSUME AsWritten, NEW kind \in RoundTypes, NEW start \in Sides,
           NEW cards \in Seq(Card), Len(cards) = TricksPerRound
    PROVE  readDeal(genDeal(kind, start, cards)) = [mode |-> kind, start |-> start, cards |-> cards]
<1> DEFINE head == dealHead(kind, start)
           text == genDeal(kind, start, cards)
<1>1. /\ head \in Text /\ Len(head) = 2 /\ head[1] \in {Digit[i] : i \in 2 .. 8}
      /\ head[2] \in Range(SideName) /\ <<head[1]>> = toString[kind]
      /\ atoi(toString[kind]) = kind /\ sideOf(head[2]) = start
  BY DealHeadIs
<1>2. text = head \o cardsText(cards)
  BY DEF genDeal, dealHead
<1> HIDE DEF head, text
<1>3. PICK e : TrickIn(text, head, e, cards) /\ e[Len(cards)] = Len(text)
  <2>1. /\ head \o cardsText(cards) \in Text
        /\ \E e : /\ TrickIn((head \o cardsText(cards)) \o <<>>, head, e, cards)
                  /\ e[Len(cards)] = Len(head \o cardsText(cards))
    BY <1>1, TrickWritten, NothingBehind
  <2>2. (head \o cardsText(cards)) \o <<>> = head \o cardsText(cards)
    BY <2>1, NothingBehind
  <2>3. QED
    BY ONLY <1>2, <2>1, <2>2
<1>4. text \in Text /\ Begins(text, head) /\ CardsAt(text, e, cards) /\ e[0] = 2
  BY <1>1, <1>3 DEF TrickIn
<1>5. /\ Len(text) \in Nat /\ DOMAIN text = 1 .. Len(text) /\ 2 <= Len(text)
      /\ text[1] = head[1] /\ text[2] = head[2]
  <2>1. Len(text) \in Nat /\ DOMAIN text = 1 .. Len(text)
    BY <1>4 DEF Text
  <2>2. 2 <= Len(text) /\ \A i \in 1 .. 2 : text[i] = head[i]
    BY <1>1, <1>4 DEF Begins
  <2>3. 1 \in 1 .. 2 /\ 2 \in 1 .. 2
    OBVIOUS
  <2>4. QED
    BY ONLY <2>1, <2>2, <2>3
<1> DEFINE first == Past(text, {0}, {Digit[i] : i \in 2 .. 8})
           places == PastSide(text, first)
<1>6. 2 \in places /\ places \in SUBSET Nat
  <2>1. 1 \in DOMAIN text /\ 2 \in DOMAIN text /\ 1 - 1 \in {0} /\ 2 - 1 = 1
    BY <1>5
  <2>2. 1 \in first
    BY <1>1, <1>5, <2>1 DEF Past
  <2> HIDE DEF first
  <2>3. 2 \in places
    BY <1>1, <1>5, <2>1, <2>2 DEF PastSide, Past
  <2>4. places \in SUBSET Nat
    BY <1>5 DEF PastSide, Past
  <2>5. QED
    BY <2>3, <2>4
<1>7. isDeal(text)
  <2> HIDE DEF first, places
  <2>1. e[0] \in places
    BY <1>4, <1>6
  <2>2. e[Len(cards)] \in PastCards(text, places, Len(cards))
    BY ONLY <1>4, <1>6, <2>1, CardsPassed, cards \in Seq(Card)
  <2>3. Len(text) \in PastCards(text, places, TricksPerRound)
    BY <1>3, <2>2
  <2>4. QED
    BY <2>3 DEF isDeal, places, first
<1>8. substr(text, 1, 1) = toString[kind]
  <2>1. 1 + 1 - 1 <= Len(text) /\ 1 + 1 - 1 = 1
    BY <1>5
  <2>2. SubSeq(text, 1, 1) = <<text[1]>>
    <3>1. text \in Seq(Char) /\ Len(text) >= 1
      BY <1>4, <1>5 DEF Text
    <3>2. QED
      BY ONLY <3>1, FirstIs
  <2>3. QED
    BY <1>1, <1>5, <2>1, <2>2 DEF substr
<1>9. cardsFrom(text, 3) = cards
  <2>1. cardsFrom(text, e[0] + 1) = cards
    BY <1>3, <1>4, CardsFromText
  <2>2. e[0] + 1 = 3
    BY <1>4
  <2>3. QED
    BY ONLY <2>1, <2>2
<1>10. QED
  BY <1>1, <1>5, <1>7, <1>8, <1>9 DEF readDeal, text

\* A line of cards is read as the cards.
LEMMA LineRead ==
    ASSUME NEW cards \in Seq(Card)
    PROVE  cardsFrom(cardsText(cards), 1) = cards
<1> DEFINE C == cardsText(cards)
<1>1. /\ C \in Text
      /\ \E e : /\ CardsAt((<<>> \o C) \o <<>>, e, cards)
                /\ e[0] = Len(<<>>) /\ e[Len(cards)] = Len(<<>>) + Len(C)
  <2>1. <<>> \in Text
    BY DEF Text
  <2>2. QED
    BY <2>1, CardsWritten
<1> HIDE DEF C
<1>2. (<<>> \o C) \o <<>> = C /\ Len(<<>>) = 0 /\ 0 + Len(C) = Len(C)
  BY <1>1 DEF Text
<1>3. PICK e : CardsAt(C, e, cards) /\ e[0] = 0 /\ e[Len(cards)] = Len(C)
  BY ONLY <1>1, <1>2
<1>4. cardsFrom(C, e[0] + 1) = cards
  BY <1>1, <1>3, CardsFromText
<1>5. e[0] + 1 = 1
  BY <1>3
<1>6. QED
  BY ONLY <1>4, <1>5 DEF C

\* A round of the scenario file.
FileRound == [mode : RoundTypes, start : Sides, hands : [Sides -> Seq(Card)]]

\* The lines of a round.
LEMMA WrittenIs ==
    ASSUME AsWritten, NEW r
    PROVE  /\ Written(r)[1] = dealHead(r.mode, r.start)
           /\ \A i \in 1 .. 4 : Written(r)[i + 1] = cardsText(r.hands[fileOrder[i]])
<1> DEFINE head == dealHead(r.mode, r.start)
           hand == [i \in 1 .. 4 |-> cardsText(r.hands[fileOrder[i]])]
           S == {head} \cup {hand[i] : i \in 1 .. 4}
<1>1. Written(r) = <<head>> \o hand
  BY DEF Written, dealHead, fileOrder, AsWritten
<1>2. hand \in Seq(S) /\ Len(hand) = 4 /\ <<head>> \in Seq(S)
  <2>1. hand = [i \in 1 .. 4 |-> hand[i]] /\ \A i \in 1 .. 4 : hand[i] \in S
    OBVIOUS
  <2>2. head \in S
    OBVIOUS
  <2> HIDE DEF hand, S, head
  <2>3. QED
    BY ONLY <2>1, <2>2
<1>3. \A i \in 1 .. 4 : hand[i] = cardsText(r.hands[fileOrder[i]])
  OBVIOUS
<1> HIDE DEF hand, head, S
<1>4. (<<head>> \o hand)[1] = head /\ \A i \in 1 .. 4 : (<<head>> \o hand)[1 + i] = hand[i]
  <2> DEFINE s == <<head>>
  <2>1. s \in Seq(S) /\ Len(s) = 1 /\ s[1] = head /\ 1 \in 1 .. 1
    BY ONLY <1>2
  <2> HIDE DEF s
  <2>2. /\ \A i \in 1 .. Len(s) : (s \o hand)[i] = s[i]
        /\ \A i \in 1 .. Len(hand) : (s \o hand)[Len(s) + i] = hand[i]
    <3>1. s \in Seq(S) /\ hand \in Seq(S)
      BY ONLY <1>2, <2>1
    <3>2. QED
      BY ONLY <3>1, Behind
  <2>3. (s \o hand)[1] = head /\ \A i \in 1 .. 4 : (s \o hand)[1 + i] = hand[i]
    BY ONLY <1>2, <2>1, <2>2
  <2>4. QED
    BY <2>3 DEF s
<1>5. \A i \in 1 .. 4 : i + 1 = 1 + i
  OBVIOUS
<1>6. QED
  BY <1>1, <1>3, <1>4, <1>5 DEF head

\* A round is read as what was written, each hand from the line of its side.
LEMMA RoundRead ==
    ASSUME AsWritten, NEW r \in FileRound, NEW lines,
           \A i \in 1 .. 4 : lines[i] = Written(r)[i + 1], DOMAIN lines = 1 .. 4
    PROVE  parseRound(Written(r)[1], lines) = r
<1> DEFINE head == dealHead(r.mode, r.start)
           line(s) == CHOOSE i \in DOMAIN fileOrder : fileOrder[i] = s
<1>1. /\ r.mode \in RoundTypes /\ r.start \in Sides /\ r.hands \in [Sides -> Seq(Card)]
      /\ r = [mode |-> r.mode, start |-> r.start, hands |-> r.hands]
  BY DEF FileRound
<1>2. /\ head \in Text /\ Len(head) = 2 /\ <<head[1]>> = toString[r.mode]
      /\ atoi(toString[r.mode]) = r.mode /\ sideOf(head[2]) = r.start
  BY <1>1, DealHeadIs
<1> HIDE DEF head
<1>3. substr(head, 1, 1) = toString[r.mode]
  <2>1. 1 + 1 - 1 <= Len(head) /\ 1 + 1 - 1 = 1
    BY <1>2
  <2>2. SubSeq(head, 1, 1) = <<head[1]>>
    <3>1. head \in Seq(Char) /\ Len(head) >= 1
      BY <1>2 DEF Text
    <3>2. QED
      BY ONLY <3>1, FirstIs
  <2>3. QED
    BY <1>2, <2>1, <2>2 DEF substr
<1>4. \A s \in Sides : line(s) \in 1 .. 4 /\ fileOrder[line(s)] = s
  <2>1. Sides = {0, 1, 2, 3}
    BY DEF Sides, AsWritten
  <2>2. /\ DOMAIN fileOrder = 1 .. 4 /\ fileOrder[1] = 0 /\ fileOrder[2] = 2
        /\ fileOrder[3] = 3 /\ fileOrder[4] = 1
    BY DEF fileOrder
  <2>3. \A s \in Sides : \E i \in 1 .. 4 : fileOrder[i] = s
    BY ONLY <2>1, <2>2
  <2>4. QED
    BY ONLY <2>2, <2>3
<1>5. ASSUME NEW s \in Sides
      PROVE  cardsFrom(lines[line(s)], 1) = r.hands[s]
  <2> DEFINE i == line(s)
  <2>1. i \in 1 .. 4 /\ fileOrder[i] = s
    BY <1>4
  <2> HIDE DEF i
  <2>2. lines[i] = cardsText(r.hands[s])
    BY <2>1, WrittenIs
  <2>3. r.hands[s] \in Seq(Card)
    BY <1>1
  <2>4. QED
    BY <2>2, <2>3, LineRead DEF i
<1>6. [s \in Sides |-> cardsFrom(lines[line(s)], 1)] = r.hands
  <2>1. r.hands = [s \in Sides |-> r.hands[s]]
    BY <1>1
  <2> HIDE DEF line
  <2>2. QED
    BY ONLY <1>5, <2>1
<1>7. parseRound(head, lines) = [mode |-> r.mode, start |-> r.start, hands |-> r.hands]
  BY <1>2, <1>3, <1>6 DEF parseRound
<1>8. Written(r)[1] = head
  BY WrittenIs DEF head
<1>9. QED
  BY <1>1, <1>7, <1>8

\* So is a file of rounds.
THEOREM ScenarioRead ==
    ASSUME AsWritten, NEW rounds \in Seq(FileRound), NEW S, NEW lines \in Seq(S),
           Len(lines) = 5 * Len(rounds),
           \A r \in 1 .. Len(rounds) : \A i \in 1 .. 5 : lines[(r - 1) * 5 + i] = Written(rounds[r])[i]
    PROVE  parseScenario(lines) = rounds
<1> DEFINE n == Len(rounds)
<1>1. n \in Nat /\ \A r \in 1 .. n : rounds[r] \in FileRound
  OBVIOUS
<1>2. NSides + 1 = 5 /\ NSides = 4
  BY DEF AsWritten
<1>3. Len(lines) \div 5 = n
  <2>1. PICK m \in Nat : m = n
    BY <1>1
  <2>2. (5 * m) \div 5 = m
    OBVIOUS
  <2>3. QED
    BY <2>1, <2>2
<1> HIDE DEF n
<1>4. ASSUME NEW r \in 1 .. n
      PROVE  parseRound(lines[(r - 1) * 5 + 1],
                        SubSeq(lines, ((r - 1) * 5 + 1) + 1, ((r - 1) * 5 + 1) + 4)) = rounds[r]
  <2> DEFINE first == (r - 1) * 5 + 1
             own == SubSeq(lines, first + 1, first + 4)
  <2>1. /\ first \in Nat /\ first >= 1 /\ first + 4 <= 5 * n
        /\ \A i \in 1 .. 4 : first + i = (r - 1) * 5 + (i + 1)
    BY <1>1
  <2>2. Len(lines) = 5 * n /\ Len(lines) \in Nat
    BY <1>1 DEF n
  <2>3. \A i \in 1 .. 5 : lines[(r - 1) * 5 + i] = Written(rounds[r])[i]
    BY DEF n
  <2>4. lines[first] = Written(rounds[r])[1]
    BY <2>3
  <2>5. \A i \in 1 .. 4 : i + 1 \in 1 .. 5
    OBVIOUS
  <2>6. \A i \in 1 .. 4 : lines[first + i] = Written(rounds[r])[i + 1]
    BY ONLY <2>1, <2>3, <2>5
  <2> HIDE DEF first
  <2>7. DOMAIN own = 1 .. 4 /\ \A i \in 1 .. 4 : own[i] = lines[first + i]
    <3>1. PICK m \in Nat : m = Len(lines) /\ first + 4 <= m
      BY <2>1, <2>2
    <3>2. (first + 4) - (first + 1) + 1 = 4
      BY ONLY <2>1
    <3>3. \A i \in 1 .. 4 : (first + 1) + i - 1 = first + i
      BY ONLY <2>1
    <3>4. QED
      BY ONLY <2>1, <3>2, <3>3
  <2> HIDE DEF own
  <2>8. \A i \in 1 .. 4 : own[i] = Written(rounds[r])[i + 1]
    BY ONLY <2>6, <2>7
  <2>9. rounds[r] \in FileRound
    BY <1>1
  <2>10. parseRound(Written(rounds[r])[1], own) = rounds[r]
    BY <2>7, <2>8, <2>9, RoundRead
  <2>11. QED
    BY <2>4, <2>10 DEF own, first
<1>5. parseScenario(lines)
        = [r \in 1 .. n |-> parseRound(lines[(r - 1) * 5 + 1],
                                       SubSeq(lines, ((r - 1) * 5 + 1) + 1, ((r - 1) * 5 + 1) + 4))]
  BY <1>2, <1>3 DEF parseScenario
<1>6. parseScenario(lines) = [r \in 1 .. n |-> rounds[r]]
  BY <1>4, <1>5
<1>7. QED
  BY <1>6 DEF n

-----------------------------------------------------------------------------
(* The runs: what the tables that are laid are written as, and read.       *)

\* What lies on the table are cards, and its number is one of a trick.
LEMMA CardsLaidOut ==
    ASSUME AsWritten, LaidOut
    PROVE  /\ tab \in Seq(Card) /\ Len(tab) \in 0 .. 4
           /\ no \in {1, 7, 10, 13} /\ no \in 1 .. 13
<1>1. tab \in Seq(Card) /\ Len(tab) \in Nat
  BY DeckOfCards DEF LaidOut
<1>2. Len(tab) <= 4 /\ no \in {1, 7, 10, 13}
  BY DEF LaidOut, AsWritten
<1>3. Len(tab) \in 0 .. 4
  <2>1. PICK m \in Nat : m = Len(tab)
    BY <1>1
  <2>2. m <= 4
    BY ONLY <1>2, <2>1
  <2>3. QED
    BY ONLY <2>1, <2>2
<1>4. no \in 1 .. 13
  BY ONLY <1>2
<1>5. QED
  BY ONLY <1>1, <1>2, <1>3, <1>4

\* Prompts, cards, refusals and introductions are read as what was sent, with
\* four sides and thirteen tricks as in the code.
THEOREM PromptsAreRead == ASSUME AsWritten PROVE Spec => []PromptsRead
<1>1. LaidOut => PromptsRead
  <2> SUFFICES ASSUME LaidOut
               PROVE  PromptsRead
    OBVIOUS
  <2>1. tab \in Seq(Card) /\ no \in 1 .. 13
    BY CardsLaidOut
  <2>2. Len(tab) < NSides => readTrickS(genTrick(tab, no)) = Asked
    BY <2>1, TrickSRead DEF Asked
  <2>3. Len(tab) < NSides => readTrickS(genTrick(tab, TricksPerRound + 1)) = Nothing
    BY <2>1, NoTrickAfterLast
  <2>4. Len(tab) = 1 => readTrickC(genTrick(tab, no)) = Asked
    BY <2>1, TrickCRead DEF Asked
  <2>5. readWrong(genWrong(no)) = no
    BY <2>1, WrongRead
  <2>6. \A s \in Sides : readSides(genIntro(s)) = <<s>>
    BY IntroRead
  <2>7. QED
    BY <2>2, <2>3, <2>4, <2>5, <2>6 DEF PromptsRead
<1>2. QED
  BY <1>1, TricksLaidOut, PTL

\* The scores made of the cards on the table are scores.
LEMMA ScoresMade ==
    ASSUME AsWritten, tab \in Seq(Card), Len(tab) = 4, NEW order \in Seq(Sides), Len(order) = 4
    PROVE  Scores(order) \in Seq(Score) /\ Len(Scores(order)) = NSides
<1> DEFINE entry(i) == [side |-> order[i], score |-> ScoreOf(tab[i])]
<1>1. ASSUME NEW i \in 1 .. 4
      PROVE  entry(i) \in Score
  <2>1. order[i] \in Sides /\ tab[i] \in Card
    <3>1. i \in 1 .. Len(order) /\ i \in 1 .. Len(tab)
      OBVIOUS
    <3>2. order[i] \in Sides
      BY ONLY <3>1, order \in Seq(Sides)
    <3>3. tab[i] \in Card
      BY ONLY <3>1, tab \in Seq(Card)
    <3>4. QED
      BY ONLY <3>2, <3>3
  <2>2. tab[i].val \in 2 .. 14
    BY <2>1 DEF Card, Ace
  <2>3. ScoreOf(tab[i]) \in Nat
    BY <2>2, SMTT(30) DEF ScoreOf
  <2>4. QED
    BY <2>1, <2>3 DEF Score
<1>2. Scores(order) = [i \in 1 .. 4 |-> entry(i)] /\ NSides = 4
  BY DEF Scores, AsWritten
<1> HIDE DEF entry
<1>3. QED
  BY <1>1, <1>2

\* Tricks that were taken, scores and BUSY are read as what was sent.
THEOREM ResultsAreRead == ASSUME AsWritten PROVE Spec => []ResultsRead
<1>1. LaidOut => ResultsRead
  <2> SUFFICES ASSUME LaidOut, Len(tab) = NSides
               PROVE  /\ \A s \in Sides :
                           readTaken(genTaken(tab, s, no)) = [no |-> no, cards |-> tab, side |-> s]
                      /\ \A order \in {<<0, 1, 2, 3>>, <<2, 0, 3, 1>>} :
                           /\ readScore(genScore(Scores(order))) = Scores(order)
                           /\ readSides(genBusy(order)) = order
    BY DEF ResultsRead
  <2>1. tab \in Seq(Card) /\ no \in 1 .. 13
    BY CardsLaidOut
  <2>2. \A s \in Sides : readTaken(genTaken(tab, s, no)) = [no |-> no, cards |-> tab, side |-> s]
    BY <2>1, TakenRead
  <2>3. ASSUME NEW order \in {<<0, 1, 2, 3>>, <<2, 0, 3, 1>>}
        PROVE  /\ readScore(genScore(Scores(order))) = Scores(order)
               /\ readSides(genBusy(order)) = order
    <3>1. order \in Seq(Sides) /\ Len(order) = 4
      <4>1. 0 \in Sides /\ 1 \in Sides /\ 2 \in Sides /\ 3 \in Sides
        BY DEF Sides, AsWritten
      <4>2. CASE order = <<0, 1, 2, 3>>
        BY ONLY <4>1, <4>2
      <4>3. CASE order = <<2, 0, 3, 1>>
        BY ONLY <4>1, <4>3
      <4>4. QED
        BY <4>2, <4>3
    <3>2. Len(tab) = 4
      BY DEF AsWritten
    <3>3. Scores(order) \in Seq(Score) /\ Len(Scores(order)) = NSides
      BY <2>1, <3>1, <3>2, ScoresMade
    <3>4. QED
      BY <3>1, <3>3, ScoreRead, BusyRead
  <2>4. QED
    BY <2>2, <2>3
<1>2. QED
  BY <1>1, TricksLaidOut, PTL

\* The hands made of the cards on the table are hands of a round.
LEMMA HandMade ==
    ASSUME AsWritten, tab \in Seq(Card), Len(tab) \in 1 .. 4, NEW s \in Sides
    PROVE  HandOf(s) \in Seq(Card) /\ Len(HandOf(s)) = TricksPerRound
<1>1. s \in 0 .. 3 /\ TricksPerRound = 13
  BY SideIs DEF AsWritten
<1>2. PICK m \in 1 .. 4 : m = Len(tab)
  OBVIOUS
<1>3. ASSUME NEW i \in 1 .. 13
      PROVE  tab[((i + s) % Len(tab)) + 1] \in Card
  <2>1. (i + s) \in Nat
    BY <1>1
  <2>2. (i + s) % m \in 0 .. m - 1
    <3>1. PICK k \in Nat : k = i + s
      BY <2>1
    <3>2. m \in {1, 2, 3, 4}
      BY <1>2
    <3>3. k % m \in 0 .. m - 1
      BY ONLY <3>2
    <3>4. QED
      BY <3>1, <3>3
  <2>3. ((i + s) % m) + 1 \in 1 .. m
    BY <2>2
  <2>4. QED
    BY <1>2, <2>3
<1>4. HandOf(s) = [i \in 1 .. 13 |-> tab[((i + s) % Len(tab)) + 1]]
  BY <1>1 DEF HandOf
<1>5. QED
  BY ONLY <1>1, <1>3, <1>4

\* So the rounds made of them are rounds of the scenario file.
LEMMA RoundMade ==
    ASSUME AsWritten, tab \in Seq(Card), Len(tab) \in 1 .. 4, no \in 1 .. 13, NEW start \in Sides
    PROVE  RoundIn(start) \in FileRound
<1>1. (no % 7) + 1 \in RoundTypes
  BY DEF RoundTypes
<1>2. [s \in Sides |-> HandOf(s)] \in [Sides -> Seq(Card)]
  BY HandMade
<1>3. QED
  BY <1>1, <1>2 DEF RoundIn, FileRound

\* A round has five lines.
LEMMA FiveLines ==
    ASSUME AsWritten, NEW r
    PROVE  Written(r) \in Seq(Range(Written(r))) /\ Len(Written(r)) = 5
<1> DEFINE head == toString[r.mode] \o sideText(r.start)
           line(i) == cardsText(r.hands[<<0, 2, 3, 1>>[i]])
           hand == [i \in 1 .. 4 |-> line(i)]
           S == {head} \cup {line(i) : i \in 1 .. 4}
           w == Written(r)
<1>1. w = <<head>> \o hand
  BY DEF Written, AsWritten
<1>2. head \in S /\ \A i \in 1 .. 4 : line(i) \in S
  OBVIOUS
<1> HIDE DEF head, line, S, w
<1>3. hand \in Seq(S) /\ Len(hand) = 4 /\ <<head>> \in Seq(S) /\ Len(<<head>>) = 1
  BY ONLY <1>2
<1> HIDE DEF hand
<1>4. w \in Seq(S) /\ Len(w) = 5
  <2>1. <<head>> \in Seq(S) /\ hand \in Seq(S)
    BY ONLY <1>3
  <2>2. <<head>> \o hand \in Seq(S) /\ Len(<<head>> \o hand) = Len(<<head>>) + Len(hand)
    BY ONLY <2>1, Behind
  <2>3. QED
    BY ONLY <1>1, <1>3, <2>2
<1>5. w \in Seq(Range(w))
  <2>1. DOMAIN w = 1 .. 5 /\ w = [i \in 1 .. 5 |-> w[i]]
    BY ONLY <1>4
  <2>2. \A i \in 1 .. 5 : w[i] \in Range(w)
    BY ONLY <2>1 DEF Range
  <2> DEFINE R == Range(w)
  <2> HIDE DEF R
  <2>3. \A i \in 1 .. 5 : w[i] \in R
    BY <2>2 DEF R
  <2>4. w \in Seq(R)
    BY ONLY <2>1, <2>3
  <2>5. QED
    BY <2>4 DEF R
<1>6. QED
  BY <1>4, <1>5 DEF w

\* Two rounds, one behind the other, are a file of two rounds.
LEMMA TwoRoundsRead ==
    ASSUME AsWritten, NEW one \in FileRound, NEW two \in FileRound
    PROVE  parseScenario(Written(one) \o Written(two)) = <<one, two>>
<1> DEFINE rounds == <<one, two>>
           a == Written(one)
           b == Written(two)
           S == Range(a) \cup Range(b)
<1>1. a \in Seq(S) /\ Len(a) = 5 /\ b \in Seq(S) /\ Len(b) = 5
  BY FiveLines
<1>2. rounds \in Seq(FileRound) /\ Len(rounds) = 2 /\ rounds[1] = one /\ rounds[2] = two
  OBVIOUS
<1> HIDE DEF rounds, a, b, S
<1>3. /\ a \o b \in Seq(S) /\ Len(a \o b) = Len(a) + Len(b)
      /\ \A i \in 1 .. Len(a) : (a \o b)[i] = a[i]
      /\ \A i \in 1 .. Len(b) : (a \o b)[Len(a) + i] = b[i]
  <2>1. a \in Seq(S) /\ b \in Seq(S)
    BY ONLY <1>1
  <2>2. QED
    BY ONLY <2>1, Behind
<1>4. a \o b \in Seq(S) /\ Len(a \o b) = 5 * Len(rounds)
  BY ONLY <1>1, <1>2, <1>3
<1>5. \A i \in 1 .. 5 : (a \o b)[(1 - 1) * 5 + i] = a[i] /\ (a \o b)[(2 - 1) * 5 + i] = b[i]
  BY ONLY <1>1, <1>3
<1>6. \A r \in 1 .. Len(rounds) : \A i \in 1 .. 5 : (a \o b)[(r - 1) * 5 + i] = Written(rounds[r])[i]
  <2>1. \A r \in 1 .. Len(rounds) : r = 1 \/ r = 2
    BY ONLY <1>2
  <2>2. Written(rounds[1]) = a /\ Written(rounds[2]) = b
    BY <1>2 DEF a, b
  <2>3. QED
    BY ONLY <1>5, <2>1, <2>2
<1>7. parseScenario(a \o b) = rounds
  BY <1>2, <1>4, <1>6, ScenarioRead
<1>8. QED
  BY <1>7 DEF rounds, a, b

\* The hands of the scenario file reach the clients as they were written.
THEOREM HandsDoArrive == ASSUME AsWritten PROVE Spec => []HandsArrive
<1>1. LaidOut => HandsArrive
  <2> DEFINE one == RoundIn(0)
             two == RoundIn(3)
  <2> SUFFICES ASSUME LaidOut, tab # <<>>
               PROVE  /\ parseScenario(Written(one) \o Written(two)) = <<one, two>>
                      /\ \A s \in Sides : readDeal(genDeal(one.mode, s, HandOf(s)))
                                            = [mode |-> one.mode, start |-> s, cards |-> HandOf(s)]
    BY DEF HandsArrive
  <2>1. tab \in Seq(Card) /\ Len(tab) \in 1 .. 4 /\ no \in 1 .. 13
    <3>1. tab \in Seq(Card) /\ Len(tab) \in 0 .. 4 /\ no \in 1 .. 13
      BY CardsLaidOut
    <3>2. Len(tab) # 0
      BY <3>1
    <3>3. QED
      BY <3>1, <3>2
  <2>2. 0 \in Sides /\ 3 \in Sides
    BY DEF Sides, AsWritten
  <2>3. one \in FileRound /\ two \in FileRound
    BY <2>1, <2>2, RoundMade
  <2>4. \A s \in Sides : readDeal(genDeal(one.mode, s, HandOf(s)))
                           = [mode |-> one.mode, start |-> s, cards |-> HandOf(s)]
    <3>1. one.mode \in RoundTypes
      BY <2>3 DEF FileRound
    <3>2. \A s \in Sides : HandOf(s) \in Seq(Card) /\ Len(HandOf(s)) = TricksPerRound
      BY <2>1, HandMade
    <3> HIDE DEF one
    <3>3. QED
      BY <3>1, <3>2, DealRead
  <2> HIDE DEF one, two
  <2>5. parseScenario(Written(one) \o Written(two)) = <<one, two>>
    BY <2>3, TwoRoundsRead
  <2>6. QED
    BY <2>4, <2>5
<1>2. QED
  BY <1>1, TricksLaidOut, PTL
=============================================================================
