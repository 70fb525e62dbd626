-------------------------------- MODULE Game --------------------------------
(***************************************************************************)
(* The state of one game and the only steps that change it: a card played  *)
(* by the side to move (the second half of Server::playerTricked).  The    *)
(* connections that carry those cards are in module Server, which extends  *)
(* this one and uses the same operators.                                   *)
(***************************************************************************)
EXTENDS GameRules

CONSTANT Scenario   \* the rounds read by parseScenario: mode, hands, first side

ASSUME ScenarioAssumption ==
    /\ Scenario \in Seq([mode : RoundTypes, hands : [Sides -> SUBSET Card], start : Sides])
    /\ Scenario # <<>>
    /\ \A r \in DOMAIN Scenario : \A s \in Sides :
         /\ IsFiniteSet(Scenario[r].hands[s])
         /\ Cardinality(Scenario[r].hands[s]) = TricksPerRound
         /\ \A t \in Sides \ {s} : Scenario[r].hands[s] \cap Scenario[r].hands[t] = {}

VARIABLES
    roundNumber,     \* rounds finished; the current one is Scenario[roundNumber + 1]
    roundMode,       \* its kind
    hands,           \* side -> cards it still holds
    nextMove,        \* the side to move
    trickNo,         \* 1 .. TricksPerRound, one more when the game is over
    table,           \* cards of the current trick, in the order played
    penalties,       \* side -> penalty of the finished rounds
    penaltiesRound,  \* side -> penalty of the current round
    takenInRound     \* the TAKEN messages of the current round, oldest first

gameVars == <<roundNumber, roundMode, hands, nextMove, trickNo, table,
              penalties, penaltiesRound, takenInRound>>

NoPenalty == [s \in Sides |-> 0]

Taken(tab, taker, no) ==
    [type |-> "TAKEN", table |-> tab, taker |-> taker, trickNo |-> no]

Messages == [type : {"TAKEN"}, table : Seq(Card), taker : Sides, trickNo : Nat]

GameOver == roundNumber = Len(Scenario)

-----------------------------------------------------------------------------
\* Round r + 1 of the scenario is laid out.  (In the broken variant the
\* tricks of the round before are not forgotten.)
prepareRoundKeepingTricks(r) ==
    /\ roundMode' = Scenario[r + 1].mode
    /\ hands' = Scenario[r + 1].hands
    /\ nextMove' = Scenario[r + 1].start
    /\ trickNo' = 1
    /\ UNCHANGED takenInRound

prepareRound(r) ==
    /\ roundMode' = Scenario[r + 1].mode
    /\ hands' = Scenario[r + 1].hands
    /\ nextMove' = Scenario[r + 1].start
    /\ trickNo' = 1
    /\ takenInRound' = <<>>

GameInit ==
    /\ roundNumber = 0
    /\ roundMode = Scenario[1].mode
    /\ hands = Scenario[1].hands
    /\ nextMove = Scenario[1].start
    /\ trickNo = 1
    /\ takenInRound = <<>>
    /\ table = <<>>
    /\ penalties = NoPenalty
    /\ penaltiesRound = NoPenalty

HandsWithNothingTaken(side, card) == hands       \* broken variant
HandsWithout(side, card) == [hands EXCEPT ![side] = @ \ {card}]

\* The card does not fill the table.
addCard(side, card) ==
    /\ Len(table) + 1 < NSides
    /\ table' = Append(table, card)
    /\ hands' = HandsWithout(side, card)
    /\ nextMove' = nxtSide(nextMove)
    /\ UNCHANGED <<roundNumber, roundMode, trickNo, penalties, penaltiesRound, takenInRound>>

\* The trick the card completes: nextMove has come round to its first side.
Full(card) == Append(table, card)
TakeOneTrickLate(card) == whoTakes(nxtSide(nextMove), Full(card), roundMode, trickNo + 1)  \* broken variant
TakeFromLastSide(card) == whoTakes(nextMove, Full(card), roundMode, trickNo)               \* broken variant
Take(card) == whoTakes(nxtSide(nextMove), Full(card), roundMode, trickNo)
TakenMsg(card) == Taken(Full(card), Take(card).side, trickNo)
RoundScore(card) == [penaltiesRound EXCEPT ![Take(card).side] = @ + Take(card).pen]

\* A trick that is not the last of its round.
closeTrick(side, card) ==
    /\ Len(table) + 1 = NSides
    /\ trickNo < TricksPerRound
    /\ hands' = HandsWithout(side, card)
    /\ nextMove' = Take(card).side
    /\ penaltiesRound' = RoundScore(card)
    /\ trickNo' = trickNo + 1
    /\ table' = <<>>
    /\ takenInRound' = Append(takenInRound, TakenMsg(card))
    /\ UNCHANGED <<roundNumber, roundMode, penalties>>

\* updatePenalties and clearTmpPenalties at the end of a round.
NewTotals(card) == [s \in Sides |-> penalties[s] + RoundScore(card)[s]]

settleRoundLeavingTable(card) ==                 \* broken variant
    /\ penalties' = NewTotals(card)
    /\ penaltiesRound' = NoPenalty
    /\ roundNumber' = roundNumber + 1
    /\ table' = Full(card)

settleRound(card) ==
    /\ penalties' = NewTotals(card)
    /\ penaltiesRound' = NoPenalty
    /\ roundNumber' = roundNumber + 1
    /\ table' = <<>>

\* The last trick of a round, with another round to come.
closeRound(side, card) ==
    /\ Len(table) + 1 = NSides
    /\ trickNo = TricksPerRound
    /\ roundNumber + 1 < Len(Scenario)
    /\ settleRound(card)
    /\ prepareRound(roundNumber + 1)

\* The last trick of the game: nothing new is laid out.
closeGame(side, card) ==
    /\ Len(table) + 1 = NSides
    /\ trickNo = TricksPerRound
    /\ roundNumber + 1 = Len(Scenario)
    /\ settleRound(card)
    /\ hands' = HandsWithout(side, card)
    /\ nextMove' = Take(card).side
    /\ trickNo' = trickNo + 1
    /\ takenInRound' = Append(takenInRound, TakenMsg(card))
    /\ UNCHANGED roundMode

mayPlayAnytime(side, card) == isMoveLegal(hands[side], card, table)   \* broken variant

mayPlay(side, card) ==
    /\ nextMove = side
    /\ isMoveLegal(hands[side], card, table)

playCard(side, card) ==
    \/ addCard(side, card)
    \/ closeTrick(side, card)
    \/ closeRound(side, card)
    \/ closeGame(side, card)

Play(side, card) == mayPlay(side, card) /\ playCard(side, card)

GameNext == \E side \in Sides : \E card \in hands[side] : Play(side, card)

GameSpec == GameInit /\ [][GameNext]_gameVars

-----------------------------------------------------------------------------
\* Every variable of the game has its type.
GameTypeOK ==
    /\ roundNumber \in 0 .. Len(Scenario)
    /\ roundMode \in RoundTypes
    /\ hands \in [Sides -> SUBSET Card]
    /\ nextMove \in Sides
    /\ trickNo \in 1 .. TricksPerRound + 1
    /\ table \in Seq(Card)
    /\ penalties \in [Sides -> Nat]
    /\ penaltiesRound \in [Sides -> Nat]
    /\ takenInRound \in Seq(Messages)

-----------------------------------------------------------------------------
(* Whose cards are on the table.                                           *)

Leader(k) == IF k = 1 THEN Scenario[roundNumber + 1].start ELSE takenInRound[k - 1].taker

\* How many moves ago s was to move, 1 .. NSides.
Ago(s) == IF s < nextMove THEN nextMove - s ELSE nextMove + NSides - s

HasPlayed(s) == Ago(s) <= Len(table)

\* Every side holds one card per trick still to be played, one less once it
\* has played to the current trick: playerTricked takes exactly one card per
\* turn and nobody is skipped or asked twice.
HandsInStep ==
    \A s \in Sides :
        /\ IsFiniteSet(hands[s])
        /\ Cardinality(hands[s]) = TricksPerRound + 1 - trickNo - (IF HasPlayed(s) THEN 1 ELSE 0)

\* The trick counter, the round counter and the table agree: the table is
\* never left full, trick 14 exists only after the last round and then the
\* table is empty.
CountersAgree ==
    /\ Len(table) < NSides
    /\ GameOver => table = <<>>
    /\ GameOver <=> trickNo = TricksPerRound + 1
=============================================================================
