------------------------------ MODULE GameRules ------------------------------
(***************************************************************************)
(* The rules of kierki as server/game_rules.cpp applies them: which card a *)
(* side may play, who takes a full trick and what the trick costs.         *)
(*                                                                         *)
(* The four sides N, E, S, W of the code become 0 .. NSides - 1 in the     *)
(* order nxtSide walks them, so that small instances can be checked and    *)
(* the theorems hold for any number of sides.  A card keeps its rank and   *)
(* its colour; Card::operator> compares ranks only (card.cpp:61-71).       *)
(***************************************************************************)
EXTENDS Integers, Sequences, FiniteSets

CONSTANTS
    NSides,          \* 4 in the code: the size of sides_ and of a full table
    TricksPerRound   \* TRICKS_PER_ROUND, 13 in the code

ASSUME RulesAssumption ==
    /\ NSides \in Nat \ {0}
    /\ TricksPerRound \in Nat \ {0}

Sides == 0 .. NSides - 1
Colors == {"C", "D", "H", "S"}

\* card.cpp:11-25: ranks 2 .. 10, then J, Q, K, A.
Jack == 11
Queen == 12
King == 13
Ace == 14

Card == [val : 2 .. Ace, col : Colors]
RoundTypes == 1 .. 7

\* The side after s, clockwise (utils.cpp).
nxtSideUnwrapped(s) == s + 1                     \* broken variant
nxtSide(s) == IF s = NSides - 1 THEN 0 ELSE s + 1

\* The side i places after s: nxtSide applied i times, 0 <= i < NSides.
SideAfter(s, i) == IF s + i < NSides THEN s + i ELSE s + i - NSides

\* A card is legal when the hand holds it and either it follows the first
\* card of the table or the hand has nothing of that colour.
isMoveHeld(hand, card, table) == card \in hand   \* broken variant: need not follow

isMoveFollowing(hand, card, table) ==            \* broken variant: must follow always
    /\ card \in hand
    /\ table # <<>> => card.col = table[1].col

isMoveLegal(hand, card, table) ==
    /\ card \in hand
    /\ table # <<>> =>
         \/ card.col = table[1].col
         \/ \A c \in hand : c.col # table[1].col

\* The place in the table of the taking card: the highest of the lead colour,
\* the first of them if several have its rank.
Beats(table, i, j) ==
    /\ table[i].col = table[1].col
    /\ table[j].col = table[1].col =>
         \/ table[i].val > table[j].val
         \/ table[i].val = table[j].val /\ i <= j

\* Broken variant: a higher card of another colour takes the trick.
TakerIxAnyColour(table) ==
    CHOOSE i \in DOMAIN table : \A j \in DOMAIN table : table[j].val <= table[i].val

TakerIx(table) == CHOOSE i \in DOMAIN table : \A j \in DOMAIN table : Beats(table, i, j)

\* What a trick costs its taker in each of the seven kinds of round.
OnTable(table, cards) == Cardinality({i \in DOMAIN table : table[i] \in cards})

Hearts == {c \in Card : c.col = "H"}
Queens == {c \in Card : c.val = Queen}
KingsJacks == {c \in Card : c.val \in {King, Jack}}
HeartKing == {[val |-> King, col |-> "H"]}

lateTrickSeventh(trickNo) == IF trickNo = 7 THEN 10 ELSE 0   \* broken variant

lateTrick(trickNo) == IF trickNo \in {7, TricksPerRound} THEN 10 ELSE 0

penalty(table, roundMode, trickNo) ==
    LET hearts == OnTable(table, Hearts)
        queens == 5 * OnTable(table, Queens)
        kingsJacks == 2 * OnTable(table, KingsJacks)
        heartKing == 18 * OnTable(table, HeartKing)
        late == lateTrick(trickNo)
        all == 1 + late + hearts + queens + kingsJacks + heartKing
    IN  <<1, hearts, queens, kingsJacks, heartKing, late, all>>[roundMode]

whoTakes(startingSide, table, roundMode, trickNo) ==
    [side |-> SideAfter(startingSide, TakerIx(table) - 1),
     pen  |-> penalty(table, roundMode, trickNo)]
=============================================================================
