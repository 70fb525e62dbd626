----------------------------- MODULE GameProofs -----------------------------
(***************************************************************************)
(* What is proved of a game, for any number of sides, tricks and rounds:   *)
(* every variable keeps its type, hands, counters and table stay in step,  *)
(* the side to move can always move, every card of a round is in one       *)
(* place, and nobody revokes.  The game implements the contract of module  *)
(* Kierki, points and all, and what it charges in all is what the deals    *)
(* are worth.                                                              *)
(***************************************************************************)
EXTENDS GameProps, RulesProofs

-----------------------------------------------------------------------------
(* Types.                                                                  *)

\* A round of the scenario has its type.
LEMMA RoundType ==
    ASSUME NEW r \in DOMAIN Scenario
    PROVE  /\ Scenario[r].mode \in RoundTypes
           /\ Scenario[r].hands \in [Sides -> SUBSET Card]
           /\ Scenario[r].start \in Sides
<1> DEFINE Round == [mode : RoundTypes, hands : [Sides -> SUBSET Card], start : Sides]
<1>1. \A T : Scenario \in Seq(T) => Scenario[r] \in T
  OBVIOUS
<1>2. Scenario \in Seq(Round)
  BY ScenarioAssumption
<1>3. Scenario[r] \in Round
  BY ONLY <1>1, <1>2
<1>4. QED
  BY ONLY <1>3

\* The scenario is a sequence with at least one round.
LEMMA ScenarioLength == Len(Scenario) \in Nat \ {0} /\ DOMAIN Scenario = 1 .. Len(Scenario)
BY ScenarioAssumption

\* The trick a card completes is taken by a side, its message has its type
\* and the penalties of the round stay numbers.
LEMMA TakeType ==
    ASSUME GameTypeOK, NEW card \in Card, Len(table) + 1 = NSides
    PROVE  /\ Take(card).side \in Sides
           /\ TakenMsg(card) \in Messages
           /\ RoundScore(card) \in [Sides -> Nat]
           /\ NewTotals(card) \in [Sides -> Nat]
<1>1. Full(card) \in Seq(Card) /\ Len(Full(card)) = NSides
  BY DEF Full, GameTypeOK
<1>2. trickNo \in Nat
  BY DEF GameTypeOK
<1>3. Take(card).side \in Sides /\ Take(card).pen \in Nat
  BY <1>1, <1>2, NxtSideType, WhoTakesType DEF Take, GameTypeOK
<1>4. TakenMsg(card) \in Messages
  BY <1>1, <1>2, <1>3 DEF TakenMsg, Taken, Messages
<1>5. \A a, b \in Nat : a + b \in Nat
  OBVIOUS
<1>6. RoundScore(card) \in [Sides -> Nat]
  BY <1>3, <1>5 DEF RoundScore, GameTypeOK
<1>7. NewTotals(card) \in [Sides -> Nat]
  BY <1>5, <1>6 DEF NewTotals, GameTypeOK
<1>8. QED
  BY <1>3, <1>4, <1>6, <1>7

\* The initial state has its type.
LEMMA GameInitType == GameInit => GameTypeOK
BY RoundType, ScenarioLength, RulesAssumption DEF GameInit, GameTypeOK, NoPenalty

\* A card leaves the other cards of its hand a hand.
LEMMA HandsWithoutType ==
    ASSUME GameTypeOK, NEW side \in Sides, NEW card
    PROVE  HandsWithout(side, card) \in [Sides -> SUBSET Card]
BY DEF GameTypeOK, HandsWithout

\* Each of the four ways to play a card keeps the types.
LEMMA PlayType ==
    ASSUME GameTypeOK, NEW side \in Sides, NEW card \in hands[side], Play(side, card)
    PROVE  GameTypeOK'
<1>1. card \in Card
  BY DEF GameTypeOK
<1>2. HandsWithout(side, card) \in [Sides -> SUBSET Card]
  BY HandsWithoutType
<1>3. CASE addCard(side, card)
  <2>1. table' \in Seq(Card) /\ nextMove' \in Sides /\ hands' \in [Sides -> SUBSET Card]
    BY <1>1, <1>2, <1>3, NxtSideType DEF addCard, GameTypeOK
  <2>2. QED
    BY <1>3, <2>1 DEF addCard, GameTypeOK
<1>4. CASE closeTrick(side, card)
  <2>1. /\ Take(card).side \in Sides
        /\ TakenMsg(card) \in Messages
        /\ RoundScore(card) \in [Sides -> Nat]
    BY <1>1, <1>4, TakeType DEF closeTrick
  <2>2. trickNo' \in 1 .. TricksPerRound + 1
    BY <1>4, RulesAssumption DEF closeTrick, GameTypeOK
  <2>3. table' \in Seq(Card) /\ takenInRound' \in Seq(Messages)
    BY <1>4, <2>1 DEF closeTrick, GameTypeOK
  <2>4. QED
    BY <1>2, <1>4, <2>1, <2>2, <2>3 DEF closeTrick, GameTypeOK
<1>5. CASE closeRound(side, card)
  <2>1. NewTotals(card) \in [Sides -> Nat]
    BY <1>1, <1>5, TakeType DEF closeRound
  <2>2. roundNumber + 2 \in DOMAIN Scenario /\ roundNumber' \in 0 .. Len(Scenario)
    BY <1>5, ScenarioLength DEF closeRound, settleRound, GameTypeOK
  <2>3. roundMode' \in RoundTypes /\ hands' \in [Sides -> SUBSET Card] /\ nextMove' \in Sides
    BY <1>5, <2>2, RoundType, SMTT(60) DEF closeRound, prepareRound, GameTypeOK
  <2>4. trickNo' \in 1 .. TricksPerRound + 1
    BY <1>5, RulesAssumption DEF closeRound, prepareRound
  <2>5. table' \in Seq(Card) /\ takenInRound' \in Seq(Messages)
    BY <1>5 DEF closeRound, settleRound, prepareRound
  <2>6. penalties' \in [Sides -> Nat] /\ penaltiesRound' \in [Sides -> Nat]
    BY <1>5, <2>1 DEF closeRound, settleRound, NoPenalty
  <2>7. QED
    BY ONLY <2>2, <2>3, <2>4, <2>5, <2>6 DEF GameTypeOK
<1>6. CASE closeGame(side, card)
  <2>1. /\ Take(card).side \in Sides
        /\ TakenMsg(card) \in Messages
        /\ NewTotals(card) \in [Sides -> Nat]
    BY <1>1, <1>6, TakeType DEF closeGame
  <2>2. roundNumber' \in 0 .. Len(Scenario) /\ trickNo' \in 1 .. TricksPerRound + 1
    BY <1>6, ScenarioLength, RulesAssumption DEF closeGame, settleRound, GameTypeOK
  <2>3. table' \in Seq(Card) /\ takenInRound' \in Seq(Messages)
    BY <1>6, <2>1 DEF closeGame, settleRound, GameTypeOK
  <2>4. penalties' \in [Sides -> Nat] /\ penaltiesRound' \in [Sides -> Nat]
    BY <1>6, <2>1 DEF closeGame, settleRound, NoPenalty
  <2>5. nextMove' \in Sides /\ hands' \in [Sides -> SUBSET Card] /\ roundMode' \in RoundTypes
    BY <1>2, <1>6, <2>1 DEF closeGame, GameTypeOK
  <2>6. QED
    BY ONLY <2>2, <2>3, <2>4, <2>5 DEF GameTypeOK
<1>7. QED
  BY <1>3, <1>4, <1>5, <1>6 DEF Play, playCard

\* A step that changes nothing keeps the types.
LEMMA TypeUnchanged == GameTypeOK /\ UNCHANGED gameVars => GameTypeOK'
BY DEF gameVars, GameTypeOK

\* The type invariant is inductive.
THEOREM TypeCorrect == GameSpec => []GameTypeOK
<1>1. GameInit => GameTypeOK
  BY GameInitType
<1>2. GameTypeOK /\ [GameNext]_gameVars => GameTypeOK'
  <2> SUFFICES ASSUME GameTypeOK, [GameNext]_gameVars
               PROVE  GameTypeOK'
    OBVIOUS
  <2>1. CASE GameNext
    BY <2>1, PlayType DEF GameNext
  <2>2. CASE UNCHANGED gameVars
    BY <2>2, TypeUnchanged
  <2>3. QED
    BY <2>1, <2>2
<1>3. QED
  BY <1>1, <1>2, PTL DEF GameSpec

-----------------------------------------------------------------------------
(* Hands, counters and table stay in step.                                 *)

\* Neither of the two invariants is inductive by itself: a finished game
\* stays finished because nobody holds a card any more, and a hand shrinks
\* with the table because the table is never full.
InStep == GameTypeOK /\ HandsInStep /\ CountersAgree

\* The moves since s was last to move, before and after the turn passes on.
LEMMA AgoType ==
    ASSUME nextMove \in Sides, NEW s \in Sides
    PROVE  Ago(s) \in 1 .. NSides /\ (Ago(s) = NSides <=> s = nextMove)
BY RulesAssumption DEF Ago, Sides

\* The same bound for the side to move after a step.
LEMMA AgoTypeNext ==
    ASSUME nextMove' \in Sides, NEW s \in Sides
    PROVE  Ago(s)' \in 1 .. NSides
<1>1. \A n, t \in Sides : (IF t < n THEN n - t ELSE n + NSides - t) \in 1 .. NSides
  BY RulesAssumption DEF Sides
<1>2. QED
  BY <1>1 DEF Ago

\* When the turn passes on, the side that moved is one move away and every
\* other side one move further.
LEMMA AgoNext ==
    ASSUME nextMove \in Sides, nextMove' = nxtSide(nextMove), NEW s \in Sides
    PROVE  Ago(s)' = IF s = nextMove THEN 1 ELSE Ago(s) + 1
BY RulesAssumption DEF Ago, Sides, nxtSide

\* A hand that gives one card away is one card smaller; the others are not.
LEMMA HandShrinks ==
    ASSUME GameTypeOK, HandsInStep, NEW side \in Sides, NEW card \in hands[side],
           hands' = HandsWithout(side, card), NEW s \in Sides
    PROVE  /\ IsFiniteSet(hands'[s])
           /\ Cardinality(hands'[s]) = Cardinality(hands[s]) - (IF s = side THEN 1 ELSE 0)
           /\ Cardinality(hands[s]) \in Nat
<1>1. IsFiniteSet(hands[s]) /\ Cardinality(hands[s]) \in Nat
  BY FS_CardinalityType DEF HandsInStep
<1>2. CASE s = side
  <2>1. hands'[s] = hands[s] \ {card}
    BY <1>2 DEF HandsWithout, GameTypeOK
  <2>2. QED
    BY <1>1, <1>2, <2>1, FS_RemoveElement
<1>3. CASE s # side
  <2>1. hands'[s] = hands[s]
    BY <1>3 DEF HandsWithout, GameTypeOK
  <2>2. QED
    BY <1>1, <1>3, <2>1
<1>4. QED
  BY <1>2, <1>3

\* The hands a round is laid out with are full and nobody has played.
LEMMA FreshHands ==
    ASSUME NEW r \in DOMAIN Scenario, NEW s \in Sides
    PROVE  /\ IsFiniteSet(Scenario[r].hands[s])
           /\ Cardinality(Scenario[r].hands[s]) = TricksPerRound
BY ScenarioAssumption

\* The first round is laid out in step: full hands, an empty table.
LEMMA InitInStep == GameInit => InStep
<1> SUFFICES ASSUME GameInit PROVE InStep
  OBVIOUS
<1>1. GameTypeOK
  BY GameInitType
<1>2. HandsInStep
  <2>1. ASSUME NEW s \in Sides PROVE ~HasPlayed(s)
    BY <1>1, AgoType DEF HasPlayed, GameInit, GameTypeOK
  <2>2. QED
    BY <2>1, FreshHands, ScenarioLength, RulesAssumption DEF HandsInStep, GameInit
<1>3. CountersAgree
  BY ScenarioLength, RulesAssumption DEF CountersAgree, GameOver, GameInit
<1>4. QED
  BY <1>1, <1>2, <1>3 DEF InStep

\* A finished game makes no step: nobody holds a card.
LEMMA NobodyPlaysOn ==
    ASSUME InStep, NEW side \in Sides, NEW card \in hands[side], Play(side, card)
    PROVE  ~GameOver /\ trickNo <= TricksPerRound /\ side = nextMove /\ ~HasPlayed(side)
<1>1. side = nextMove
  BY DEF Play, mayPlay
<1>2. ~HasPlayed(side)
  BY <1>1, AgoType, RulesAssumption DEF HasPlayed, InStep, CountersAgree, GameTypeOK
<1>3. IsFiniteSet(hands[side]) /\ Cardinality(hands[side]) = TricksPerRound + 1 - trickNo
  BY <1>2, RulesAssumption DEF InStep, HandsInStep, GameTypeOK
<1>4. Cardinality(hands[side]) # 0
  BY <1>3, FS_EmptySet
<1>5. trickNo <= TricksPerRound
  BY <1>3, <1>4, RulesAssumption DEF InStep, GameTypeOK
<1>6. QED
  BY <1>1, <1>2, <1>5, RulesAssumption DEF InStep, CountersAgree, GameTypeOK

\* A card that does not fill the table: one hand shrinks, its side is the one
\* that has just moved, and the others are one move further back.
LEMMA AddInStep ==
    ASSUME InStep, NEW side \in Sides, NEW card \in hands[side],
           side = nextMove, ~GameOver, addCard(side, card)
    PROVE  HandsInStep' /\ CountersAgree'
<1>1. card \in Card /\ table \in Seq(Card) /\ nextMove \in Sides
  BY DEF InStep, GameTypeOK
<1>2. Len(table') = Len(table) + 1 /\ Len(table') < NSides
  BY <1>1 DEF addCard
<1>3. HandsInStep'
  <2> SUFFICES ASSUME NEW s \in Sides
               PROVE  /\ IsFiniteSet(hands'[s])
                      /\ Cardinality(hands'[s])
                           = TricksPerRound + 1 - trickNo' - (IF HasPlayed(s)' THEN 1 ELSE 0)
    BY DEF HandsInStep
  <2>1. /\ IsFiniteSet(hands'[s])
        /\ Cardinality(hands'[s]) = Cardinality(hands[s]) - (IF s = side THEN 1 ELSE 0)
    BY HandShrinks DEF addCard, InStep
  <2>2. Ago(s)' = IF s = nextMove THEN 1 ELSE Ago(s) + 1
    BY <1>1, AgoNext DEF addCard
  <2>3. Ago(s) \in 1 .. NSides /\ (Ago(s) = NSides <=> s = nextMove)
    BY <1>1, AgoType
  <2>4. HasPlayed(s)' <=> (HasPlayed(s) \/ s = nextMove)
    BY <1>1, <1>2, <2>2, <2>3, RulesAssumption DEF HasPlayed
  <2>5. s = nextMove => ~HasPlayed(s)
    BY <1>1, <1>2, <2>3, RulesAssumption DEF HasPlayed
  <2>6. Cardinality(hands[s]) = TricksPerRound + 1 - trickNo - (IF HasPlayed(s) THEN 1 ELSE 0)
    BY DEF InStep, HandsInStep
  <2>7. trickNo' = trickNo /\ trickNo \in Nat
    BY DEF addCard, InStep, GameTypeOK
  <2>8. QED
    BY <2>1, <2>4, <2>5, <2>6, <2>7, RulesAssumption
<1>4. CountersAgree'
  BY <1>2 DEF addCard, InStep, CountersAgree, GameOver
<1>5. QED
  BY <1>3, <1>4

\* A card that fills the table: every other side has played, the mover has
\* not, so after it all hands are equally long.
LEMMA FullTable ==
    ASSUME InStep, NEW side \in Sides, NEW card \in hands[side], side = nextMove,
           hands' = HandsWithout(side, card), Len(table) + 1 = NSides, NEW s \in Sides
    PROVE  /\ IsFiniteSet(hands'[s])
           /\ Cardinality(hands'[s]) = TricksPerRound - trickNo
<1>1. /\ IsFiniteSet(hands'[s])
      /\ Cardinality(hands'[s]) = Cardinality(hands[s]) - (IF s = side THEN 1 ELSE 0)
  BY HandShrinks DEF InStep
<1>2. Ago(s) \in 1 .. NSides /\ (Ago(s) = NSides <=> s = side)
  BY AgoType DEF InStep, GameTypeOK
<1>3. HasPlayed(s) <=> s # side
  BY <1>2, RulesAssumption DEF HasPlayed
<1>4. Cardinality(hands[s]) = TricksPerRound + 1 - trickNo - (IF HasPlayed(s) THEN 1 ELSE 0)
  BY DEF InStep, HandsInStep
<1>5. trickNo \in Nat
  BY DEF InStep, GameTypeOK
<1>6. QED
  BY <1>1, <1>3, <1>4, <1>5, RulesAssumption

\* Nobody has played to an empty table.
LEMMA EmptyTable ==
    ASSUME GameTypeOK', table' = <<>>, NEW s \in Sides
    PROVE  ~HasPlayed(s)'
<1>1. nextMove' \in Sides
  BY DEF GameTypeOK
<1>2. Ago(s)' \in 1 .. NSides
  BY <1>1, AgoTypeNext
<1>3. Len(table') = 0
  BY EmptyLen
<1>4. QED
  BY <1>2, <1>3 DEF HasPlayed

\* Every way to play a card keeps hands, counters and table in step.
LEMMA PlayInStep ==
    ASSUME InStep, NEW side \in Sides, NEW card \in hands[side], Play(side, card)
    PROVE  InStep'
<1>1. GameTypeOK'
  BY PlayType DEF InStep
<1>2. ~GameOver /\ trickNo <= TricksPerRound /\ side = nextMove
  BY NobodyPlaysOn
<1>3. trickNo \in Nat /\ roundNumber \in Nat
  BY DEF InStep, GameTypeOK
<1>4. CASE addCard(side, card)
  BY <1>1, <1>2, <1>4, AddInStep DEF InStep
<1>5. CASE closeTrick(side, card)
  <2>1. \A s \in Sides : ~HasPlayed(s)'
    BY <1>1, <1>5, EmptyTable DEF closeTrick
  <2>2. \A s \in Sides : IsFiniteSet(hands'[s]) /\ Cardinality(hands'[s]) = TricksPerRound - trickNo
    BY <1>2, <1>5, FullTable DEF closeTrick
  <2>3. HandsInStep'
    BY <1>3, <1>5, <2>1, <2>2, RulesAssumption DEF HandsInStep, closeTrick
  <2>4. CountersAgree'
    BY <1>2, <1>3, <1>5, RulesAssumption DEF CountersAgree, GameOver, closeTrick
  <2>5. QED
    BY <1>1, <2>3, <2>4 DEF InStep
<1>6. CASE closeRound(side, card)
  <2>1. trickNo' = 1 /\ roundNumber' = roundNumber + 1
    BY <1>6 DEF closeRound, settleRound, prepareRound
  <2>2. roundNumber + 2 \in DOMAIN Scenario /\ hands' = Scenario[roundNumber + 2].hands
    BY <1>3, <1>6, ScenarioLength DEF closeRound, prepareRound
  <2>3. \A s \in Sides : IsFiniteSet(hands'[s]) /\ Cardinality(hands'[s]) = TricksPerRound
    BY <2>2, FreshHands
  <2>4. \A s \in Sides : ~HasPlayed(s)'
    BY <1>1, <1>6, EmptyTable DEF closeRound, settleRound
  <2>5. HandsInStep'
    BY <2>1, <2>3, <2>4, RulesAssumption DEF HandsInStep
  <2>6. CountersAgree'
    <3>1. roundNumber + 1 # Len(Scenario)
      <4>1. roundNumber + 1 < Len(Scenario)
        BY <1>6 DEF closeRound
      <4>2. roundNumber + 1 \in Nat /\ Len(Scenario) \in Nat
        BY <1>3, ScenarioLength
      <4>3. \A m, n \in Nat : m < n => m # n
        OBVIOUS
      <4>4. QED
        BY ONLY <4>1, <4>2, <4>3
    <3>2. Len(table') < NSides /\ trickNo' # TricksPerRound + 1
      BY <1>6, <2>1, EmptyLen, RulesAssumption DEF closeRound, settleRound
    <3>3. QED
      BY <2>1, <3>1, <3>2 DEF CountersAgree, GameOver
  <2>7. QED
    BY <1>1, <2>5, <2>6 DEF InStep
<1>7. CASE closeGame(side, card)
  <2>1. /\ table' = <<>>
        /\ trickNo' = trickNo + 1 /\ trickNo = TricksPerRound
        /\ roundNumber' = Len(Scenario)
    BY <1>7 DEF closeGame, settleRound
  <2>2. \A s \in Sides : ~HasPlayed(s)'
    BY <1>1, <2>1, EmptyTable
  <2>3. \A s \in Sides : IsFiniteSet(hands'[s]) /\ Cardinality(hands'[s]) = TricksPerRound - trickNo
    BY <1>2, <1>7, FullTable DEF closeGame
  <2>4. HandsInStep'
    BY <1>3, <2>1, <2>2, <2>3, RulesAssumption DEF HandsInStep
  <2>5. CountersAgree'
    BY <2>1, RulesAssumption DEF CountersAgree, GameOver
  <2>6. QED
    BY <1>1, <2>4, <2>5 DEF InStep
<1>8. QED
  BY <1>4, <1>5, <1>6, <1>7 DEF Play, playCard

\* Hands, counters and table stay in step for ever.
THEOREM StaysInStep == GameSpec => []InStep
<1>1. GameInit => InStep
  BY InitInStep
<1>2. InStep /\ [GameNext]_gameVars => InStep'
  <2> SUFFICES ASSUME InStep, [GameNext]_gameVars
               PROVE  InStep'
    OBVIOUS
  <2>1. CASE GameNext
    BY <2>1, PlayInStep DEF GameNext
  <2>2. CASE UNCHANGED gameVars
    BY <2>2, TypeUnchanged DEF gameVars, InStep, HandsInStep, CountersAgree, HasPlayed, Ago, GameOver
  <2>3. QED
    BY <2>1, <2>2
<1>3. QED
  BY <1>1, <1>2, PTL DEF GameSpec

\* The counters of playerTricked agree in every state of every game.
THEOREM CountersCorrect == GameSpec => []CountersAgree
<1>1. InStep => CountersAgree
  BY DEF InStep
<1>2. QED
  BY <1>1, StaysInStep, PTL

\* Every side holds one card per trick it has not played to yet.
THEOREM HandsCorrect == GameSpec => []HandsInStep
<1>1. InStep => HandsInStep
  BY DEF InStep
<1>2. QED
  BY <1>1, StaysInStep, PTL

\* A hand with cards has a card that isMoveLegal accepts, whatever was led.
THEOREM SomeCardIsLegal ==
    ASSUME NEW hand \in SUBSET Card, hand # {}, NEW tab \in Seq(Card)
    PROVE  \E card \in hand : isMoveLegal(hand, card, tab)
<1>1. CASE \E card \in hand : card.col = tab[1].col
  BY <1>1 DEF isMoveLegal
<1>2. CASE \A card \in hand : card.col # tab[1].col
  BY <1>2 DEF isMoveLegal
<1>3. QED
  BY <1>1, <1>2

\* Until the game is over the side to move has a card it may play, so the
\* server never waits for a move that does not exist.
THEOREM MoveExists == GameSpec => []MoverCanMove
<1>1. InStep => MoverCanMove
  <2> SUFFICES ASSUME InStep, ~GameOver
               PROVE  \E card \in hands[nextMove] : mayPlay(nextMove, card)
    BY DEF MoverCanMove
  <2>1. nextMove \in Sides /\ hands[nextMove] \in SUBSET Card /\ table \in Seq(Card)
    BY DEF InStep, GameTypeOK
  <2>2. ~HasPlayed(nextMove)
    BY <2>1, AgoType, RulesAssumption DEF HasPlayed, InStep, CountersAgree, GameTypeOK
  <2>3. trickNo \in 1 .. TricksPerRound
    BY RulesAssumption DEF InStep, CountersAgree, GameTypeOK
  <2>4. /\ IsFiniteSet(hands[nextMove])
        /\ Cardinality(hands[nextMove]) = TricksPerRound + 1 - trickNo
    BY <2>1, <2>2, <2>3, RulesAssumption DEF InStep, HandsInStep
  <2>5. hands[nextMove] # {}
    BY <2>3, <2>4, FS_EmptySet, RulesAssumption
  <2>6. QED
    BY <2>1, <2>5, SomeCardIsLegal DEF mayPlay
<1>2. QED
  BY <1>1, StaysInStep, PTL

-----------------------------------------------------------------------------
(* A whole round: every card is in one place, and nobody revokes.          *)

\* A place of the round, and the place of the next card.
CardAt(p) == Tabled[p[1]][p[2]]
LeadAt(p) == Tabled[p[1]][1]
SideAt(p) == PlayerAt(p[1], p[2])
TrickNow == Len(takenInRound) + 1
Here == <<TrickNow, Len(table) + 1>>

Played == UNION {PlayedBy(s) : s \in Sides}

\* The turn goes round from the leader of the trick.
InTurn == ~GameOver => nextMove = SideAfter(LeaderOf(TrickNow), Len(table))

\* The inductive invariant.
RoundKept ==
    /\ InTurn
    /\ \A p \in Places : SideAt(p) \in Sides
    /\ IsFiniteSet(Places) /\ IsFiniteSet(Played)
    /\ CardsInOnePlace
    /\ NoRevoke

-----------------------------------------------------------------------------
(* The places of a round.                                                  *)

\* A place is a card of a trick.
LEMMA PlaceIs ==
    ASSUME NEW p
    PROVE  p \in Places <=> \E k \in 1 .. TrickNow : \E i \in DOMAIN Tabled[k] : p = <<k, i>>
BY DEF Places, Tabled, TrickNow

\* Before a round nothing is played.
LEMMA NoPlaces == takenInRound = <<>> /\ table = <<>> => Places = {}
<1> SUFFICES ASSUME takenInRound = <<>>, table = <<>>, NEW p
             PROVE  p \notin Places
  OBVIOUS
<1>1. \A k \in 1 .. TrickNow : DOMAIN Tabled[k] = {}
  BY DEF Tabled, TrickNow
<1>2. QED
  BY <1>1, PlaceIs

\* What a side has played is what lies in its places.
LEMMA PlayedIs ==
    ASSUME NEW s, NEW card
    PROVE  card \in PlayedBy(s) <=> \E p \in Places : SideAt(p) = s /\ CardAt(p) = card
BY DEF PlayedBy, SideAt, CardAt

\* The leader of a trick is a side.
LEMMA LeaderType ==
    ASSUME GameTypeOK, ~GameOver
    PROVE  LeaderOf(TrickNow) \in Sides
<1>1. CASE TrickNow = 1
  <2>1. roundNumber + 1 \in DOMAIN Scenario
    <3>1. roundNumber \in 0 .. Len(Scenario) /\ roundNumber # Len(Scenario)
      BY DEF GameTypeOK, GameOver
    <3>2. Len(Scenario) \in Nat /\ DOMAIN Scenario = 1 .. Len(Scenario)
      BY ScenarioLength
    <3>3. PICK n \in Nat : n = Len(Scenario)
      BY ONLY <3>2, Zenon
    <3>4. roundNumber \in 0 .. n /\ roundNumber # n
      BY ONLY <3>1, <3>3
    <3>5. roundNumber + 1 \in 1 .. n
      BY ONLY <3>4, n \in Nat
    <3>6. QED
      BY ONLY <3>2, <3>3, <3>5
  <2>2. QED
    BY <1>1, <2>1, RoundType DEF LeaderOf, Deal
<1>2. CASE TrickNow # 1
  <2>1. TrickNow - 1 \in DOMAIN takenInRound
    BY <1>2 DEF TrickNow, GameTypeOK
  <2>2. takenInRound[TrickNow - 1] \in Messages
    BY <2>1 DEF GameTypeOK
  <2>3. QED
    BY <1>2, <2>2 DEF LeaderOf, Messages
<1>3. QED
  BY <1>1, <1>2

-----------------------------------------------------------------------------
(* A card is played.                                                       *)

\* The card does not end the round for another one.
Grows(side, card) == addCard(side, card) \/ closeTrick(side, card) \/ closeGame(side, card)

\* Then the deal stays,
LEMMA DealStays ==
    ASSUME InStep, ~GameOver, NEW side \in Sides, NEW card \in hands[side], Grows(side, card)
    PROVE  Deal' = Deal /\ hands' = HandsWithout(side, card)
<1>1. roundNumber + 1 \in Nat
  BY DEF InStep, GameTypeOK
<1>2. CASE addCard(side, card) \/ closeTrick(side, card)
  BY <1>2 DEF addCard, closeTrick, Deal, GameOver
<1>3. CASE closeGame(side, card)
  BY <1>1, <1>3 DEF closeGame, settleRound, Deal, GameOver
<1>4. QED
  BY <1>2, <1>3 DEF Grows

\* the earlier tricks and their leaders stay, and the trick has a card more,
\* whether it is still on the table or taken.
LEMMA TabledNext ==
    ASSUME InStep, ~GameOver, NEW side \in Sides, NEW card \in hands[side], Grows(side, card)
    PROVE  /\ \A k \in 1 .. TrickNow : Tabled'[k] = IF k = TrickNow THEN Append(table, card) ELSE Tabled[k]
           /\ TrickNow' = TrickNow \/ (TrickNow' = TrickNow + 1 /\ DOMAIN Tabled'[TrickNow + 1] = {})
           /\ \A k \in 1 .. TrickNow : LeaderOf(k)' = LeaderOf(k)
<1>1. takenInRound \in Seq(Messages) /\ TrickNow \in Nat \ {0}
  BY DEF InStep, GameTypeOK, TrickNow
<1>2. Deal' = Deal
  BY DealStays
<1>3. CASE addCard(side, card)
  BY <1>1, <1>2, <1>3 DEF addCard, Tabled, TrickNow, LeaderOf
<1>4. CASE closeTrick(side, card) \/ closeGame(side, card)
  <2>1. takenInRound' = Append(takenInRound, TakenMsg(card)) /\ table' = <<>>
    BY <1>4 DEF closeTrick, closeGame, settleRound
  <2>2. TakenMsg(card) \in Messages /\ TakenMsg(card).table = Append(table, card)
    BY <1>4, TakeType DEF closeTrick, closeGame, TakenMsg, Taken, Full, InStep, GameTypeOK
  <2>3. Len(takenInRound') = TrickNow /\ TrickNow' = TrickNow + 1
    BY <1>1, <2>1, <2>2 DEF TrickNow
  <2>4. \A j \in 1 .. TrickNow :
          takenInRound'[j] = IF j = TrickNow THEN TakenMsg(card) ELSE takenInRound[j]
    BY <1>1, <2>1, <2>2 DEF TrickNow
  <2>5. Tabled' = [k \in 1 .. TrickNow + 1 |-> IF k <= TrickNow THEN takenInRound'[k].table ELSE <<>>]
    BY <2>1, <2>3 DEF Tabled
  <2>6. \A k \in 1 .. TrickNow : k # TrickNow => Tabled[k] = takenInRound[k].table
    BY <1>1 DEF Tabled, TrickNow
  <2>7. \A k \in 1 .. TrickNow : LeaderOf(k)' = LeaderOf(k)
    BY <1>1, <1>2, <2>4 DEF LeaderOf
  <2>8. \A k \in 1 .. TrickNow : Tabled'[k] = IF k = TrickNow THEN Append(table, card) ELSE Tabled[k]
    <3>1. \A k \in 1 .. TrickNow : k \in 1 .. TrickNow + 1 /\ k <= TrickNow
      BY <1>1
    <3>2. \A k \in 1 .. TrickNow : Tabled'[k] = takenInRound'[k].table
      BY <2>5, <3>1
    <3>3. QED
      BY <2>2, <2>4, <2>6, <3>2
  <2>9. DOMAIN Tabled'[TrickNow + 1] = {}
    <3>1. TrickNow + 1 \in 1 .. TrickNow + 1 /\ ~(TrickNow + 1 <= TrickNow)
      BY <1>1
    <3>2. Tabled'[TrickNow + 1] = <<>>
      BY <2>5, <3>1
    <3>3. QED
      BY <3>2
  <2>10. QED
    BY <2>3, <2>7, <2>8, <2>9
<1>5. QED
  BY <1>3, <1>4 DEF Grows

\* So the round has one place more, where the side to move has put its card.
LEMMA PlaceNext ==
    ASSUME InStep, InTurn, ~GameOver, NEW side \in Sides, NEW card \in hands[side], side = nextMove,
           Grows(side, card), NEW p
    PROVE  /\ p \in Places' <=> p \in Places \/ p = Here
           /\ p \in Places => /\ p # Here /\ p[1] <= TrickNow
                             /\ CardAt(p)' = CardAt(p) /\ LeadAt(p)' = LeadAt(p) /\ SideAt(p)' = SideAt(p)
           /\ p = Here => /\ CardAt(p)' = card /\ SideAt(p)' = side
                         /\ LeadAt(p)' = IF table = <<>> THEN card ELSE table[1]
<1>1. TrickNow \in Nat \ {0} /\ table \in Seq(Card) /\ card \in Card
  BY DEF InStep, GameTypeOK, TrickNow
<1>2. Tabled[TrickNow] = table
  BY <1>1 DEF Tabled, TrickNow
<1>3. p \in Places' <=> \E k \in 1 .. TrickNow' : \E i \in DOMAIN Tabled'[k] : p = <<k, i>>
  BY DEF Places, Tabled, TrickNow
<1>4. p \in Places <=> \E k \in 1 .. TrickNow : \E i \in DOMAIN Tabled[k] : p = <<k, i>>
  BY PlaceIs
<1>5. DOMAIN Append(table, card) = DOMAIN table \cup {Len(table) + 1} /\ Len(table) + 1 \notin DOMAIN table
  BY <1>1
<1>6. Append(table, card)[Len(table) + 1] = card
      /\ \A i \in DOMAIN table : Append(table, card)[i] = table[i] /\ Append(table, card)[1] = table[1]
  BY <1>1
<1>7. \A k \in 1 .. TrickNow : Tabled'[k] = IF k = TrickNow THEN Append(table, card) ELSE Tabled[k]
  BY TabledNext
<1>8. p \in Places' <=> \E k \in 1 .. TrickNow : \E i \in DOMAIN Tabled'[k] : p = <<k, i>>
  <2>1. CASE TrickNow' = TrickNow
    BY <1>3, <2>1
  <2>2. CASE TrickNow' = TrickNow + 1 /\ DOMAIN Tabled'[TrickNow + 1] = {}
    <3>1. \A k \in 1 .. TrickNow + 1 : k \in 1 .. TrickNow \/ k = TrickNow + 1
      BY <1>1
    <3>2. 1 .. TrickNow \subseteq 1 .. TrickNow + 1
      BY <1>1
    <3>3. QED
      BY <1>3, <2>2, <3>1, <3>2
  <2>3. QED
    BY <2>1, <2>2, TabledNext
<1>9. TrickNow \in 1 .. TrickNow
  BY <1>1
<1>10. p \in Places' <=> p \in Places \/ p = Here
  BY <1>2, <1>4, <1>5, <1>7, <1>8, <1>9 DEF Here
<1>11. ASSUME p \in Places
       PROVE  /\ p # Here /\ p[1] <= TrickNow
              /\ CardAt(p)' = CardAt(p) /\ LeadAt(p)' = LeadAt(p) /\ SideAt(p)' = SideAt(p)
  <2>1. PICK k \in 1 .. TrickNow : \E i \in DOMAIN Tabled[k] : p = <<k, i>>
    BY <1>4, <1>11
  <2>2. PICK i \in DOMAIN Tabled[k] : p = <<k, i>>
    BY <2>1
  <2>3. p[1] = k /\ p[2] = i
    BY <2>2
  <2>4. k <= TrickNow
    BY <1>1
  <2>5. p # Here
    BY <1>2, <1>5, <2>2 DEF Here
  <2>6. Tabled'[k][i] = Tabled[k][i] /\ Tabled'[k][1] = Tabled[k][1]
    BY <1>2, <1>6, <1>7, <2>2
  <2>7. LeaderOf(k)' = LeaderOf(k)
    BY TabledNext
  <2>8. QED
    BY <2>3, <2>4, <2>5, <2>6, <2>7 DEF CardAt, LeadAt, SideAt, PlayerAt
<1>12. ASSUME p = Here
       PROVE  /\ CardAt(p)' = card /\ SideAt(p)' = side
              /\ LeadAt(p)' = IF table = <<>> THEN card ELSE table[1]
  <2>1. p[1] = TrickNow /\ p[2] = Len(table) + 1
    BY <1>12 DEF Here
  <2>2. Tabled'[TrickNow] = Append(table, card)
    BY <1>7, <1>9
  <2>3. Append(table, card)[1] = IF table = <<>> THEN card ELSE table[1]
    BY <1>1
  <2>4. \A k \in 1 .. TrickNow : k = TrickNow => SideAfter(LeaderOf(k)', Len(table)) = side
    BY <1>9, TabledNext DEF InTurn
  <2>5. Len(table) + 1 - 1 = Len(table)
    BY <1>1
  <2>6. QED
    BY <1>6, <1>9, <2>1, <2>2, <2>3, <2>4, <2>5 DEF CardAt, LeadAt, SideAt, PlayerAt
<1>13. QED
  BY <1>10, <1>11, <1>12

\* One card more has been played, by its side.
LEMMA PlayedNext ==
    ASSUME InStep, InTurn, ~GameOver, NEW side \in Sides, NEW card \in hands[side], side = nextMove,
           Grows(side, card)
    PROVE  /\ Places' = Places \cup {Here} /\ Here \notin Places
           /\ \A s \in Sides : PlayedBy(s)' = PlayedBy(s) \cup (IF s = side THEN {card} ELSE {})
           /\ Played' = Played \cup {card}
<1>1. Places' = Places \cup {Here} /\ Here \notin Places
  <2>1. \A p : (p \in Places' <=> p \in Places \/ p = Here) /\ (p \in Places => p # Here)
    BY PlaceNext
  <2>2. QED
    BY <2>1
<1>2. ASSUME NEW s \in Sides
      PROVE  PlayedBy(s)' = PlayedBy(s) \cup (IF s = side THEN {card} ELSE {})
  <2> SUFFICES ASSUME NEW c
               PROVE  c \in PlayedBy(s)' <=> c \in PlayedBy(s) \/ (s = side /\ c = card)
    OBVIOUS
  <2>1. c \in PlayedBy(s)' <=> \E p \in Places' : SideAt(p)' = s /\ CardAt(p)' = c
    BY DEF PlayedBy, SideAt, CardAt
  <2>2. \A p \in Places : CardAt(p)' = CardAt(p) /\ SideAt(p)' = SideAt(p)
    BY PlaceNext
  <2>3. \A p : p = Here => CardAt(p)' = card /\ SideAt(p)' = side
    BY PlaceNext
  <2>4. QED
    BY <1>1, <2>1, <2>2, <2>3, PlayedIs
<1>3. Played' = Played \cup {card}
  BY <1>2 DEF Played
<1>4. QED
  BY <1>1, <1>2, <1>3

\* The turn goes on to the next side, or to the taker.
LEMMA TurnNext ==
    ASSUME InStep, InTurn, ~GameOver, NEW side \in Sides, NEW card \in hands[side], Grows(side, card)
    PROVE  InTurn'
<1>1. /\ table \in Seq(Card) /\ takenInRound \in Seq(Messages) /\ TrickNow \in Nat \ {0}
      /\ card \in Card /\ Len(Scenario) \in Nat
  BY ScenarioLength DEF InStep, GameTypeOK, TrickNow
<1>2. CASE addCard(side, card)
  <2>1. TrickNow' = TrickNow /\ Len(table') = Len(table) + 1
    BY <1>1, <1>2 DEF addCard, TrickNow
  <2>2. LeaderOf(TrickNow)' = LeaderOf(TrickNow)
    BY <1>2, DealStays DEF addCard, LeaderOf, TrickNow, Grows
  <2>3. LeaderOf(TrickNow) \in Sides
    BY LeaderType DEF InStep
  <2>4. \A l \in Sides : \A n \in Nat : n + 1 < NSides => nxtSide(SideAfter(l, n)) = SideAfter(l, n + 1)
    BY RulesAssumption DEF nxtSide, SideAfter, Sides
  <2>5. Len(table) \in Nat /\ Len(table) + 1 < NSides /\ nextMove' = nxtSide(nextMove)
    BY <1>1, <1>2 DEF addCard
  <2>6. nextMove' = SideAfter(LeaderOf(TrickNow), Len(table) + 1)
    BY <2>3, <2>4, <2>5 DEF InTurn
  <2>7. QED
    BY <2>1, <2>2, <2>6 DEF InTurn
<1>3. CASE closeTrick(side, card)
  <2>1. takenInRound' = Append(takenInRound, TakenMsg(card)) /\ table' = <<>> /\ nextMove' = Take(card).side
    BY <1>3 DEF closeTrick
  <2>2. Take(card).side \in Sides /\ TakenMsg(card).taker = Take(card).side
    BY <1>1, <1>3, TakeType DEF closeTrick, TakenMsg, Taken, InStep
  <2>3. TrickNow' = TrickNow + 1 /\ takenInRound'[TrickNow] = TakenMsg(card)
    BY <1>1, <2>1 DEF TrickNow
  <2>4. LeaderOf(TrickNow)' = Take(card).side
    <3>1. TrickNow' # 1 /\ TrickNow' - 1 = TrickNow
      BY <1>1, <2>3
    <3>2. QED
      BY <2>2, <2>3, <3>1 DEF LeaderOf
  <2>5. \A l \in Sides : SideAfter(l, 0) = l
    BY RulesAssumption DEF SideAfter, Sides
  <2>6. QED
    BY <2>1, <2>2, <2>4, <2>5, EmptyLen DEF InTurn
<1>4. CASE closeGame(side, card)
  BY <1>4 DEF closeGame, settleRound, InTurn, GameOver
<1>5. QED
  BY <1>2, <1>3, <1>4 DEF Grows

\* What is dealt to one side is dealt to no other.
LEMMA DealtOnce ==
    ASSUME GameTypeOK, NEW s \in Sides, NEW t \in Sides, s # t
    PROVE  Deal.hands[s] \cap Deal.hands[t] = {}
<1>1. IF GameOver THEN roundNumber \in DOMAIN Scenario ELSE roundNumber + 1 \in DOMAIN Scenario
  <2>1. roundNumber \in 0 .. Len(Scenario) /\ (GameOver <=> roundNumber = Len(Scenario))
    BY DEF GameTypeOK, GameOver
  <2>2. Len(Scenario) \in Nat \ {0} /\ DOMAIN Scenario = 1 .. Len(Scenario)
    BY ScenarioLength
  <2>3. PICK n \in Nat \ {0} : n = Len(Scenario)
    BY ONLY <2>2, Zenon
  <2>4. roundNumber \in 0 .. n
    BY ONLY <2>1, <2>3
  <2>5. IF roundNumber = n THEN roundNumber \in 1 .. n ELSE roundNumber + 1 \in 1 .. n
    BY ONLY <2>4, n \in Nat \ {0}
  <2>6. QED
    BY ONLY <2>1, <2>2, <2>3, <2>5, ZenonT(60)
<1>2. PICK r \in DOMAIN Scenario : Deal = Scenario[r]
  BY <1>1 DEF Deal
<1>3. Scenario[r].hands[s] \cap Scenario[r].hands[t] = {}
  <2>1. t \in Sides \ {s}
    OBVIOUS
  <2>2. QED
    BY <2>1, ScenarioAssumption, ZenonT(60)
<1>4. QED
  BY ONLY <1>2, <1>3, ZenonT(60)

\* A card moves from the hand to its place.
LEMMA OnePlaceNext ==
    ASSUME InStep, RoundKept, ~GameOver, NEW side \in Sides, NEW card \in hands[side], side = nextMove,
           Grows(side, card)
    PROVE  IsFiniteSet(Places') /\ IsFiniteSet(Played') /\ CardsInOnePlace'
<1>1. \A s \in Sides : hands'[s] = hands[s] \ (IF s = side THEN {card} ELSE {})
  BY DealStays DEF HandsWithout, InStep, GameTypeOK
<1>2. \A s \in Sides : hands[s] \cap PlayedBy(s) = {} /\ hands[s] \cup PlayedBy(s) = Deal.hands[s]
  BY DEF RoundKept, CardsInOnePlace
<1>3. card \notin Played
  BY <1>2, DealtOnce DEF InStep, Played
<1>4. Cardinality(Places) = Cardinality(Played) /\ IsFiniteSet(Places) /\ IsFiniteSet(Played)
  BY DEF RoundKept, CardsInOnePlace, Played
<1>5. /\ IsFiniteSet(Places') /\ IsFiniteSet(Played')
      /\ Cardinality(Places') = Cardinality(Played')
  BY <1>3, <1>4, PlayedNext, FS_AddElement DEF RoundKept
<1>6. \A s \in Sides : hands'[s] \cap PlayedBy(s)' = {} /\ hands'[s] \cup PlayedBy(s)' = Deal'.hands[s]
  BY <1>1, <1>2, PlayedNext, DealStays DEF RoundKept
<1>7. QED
  BY <1>5, <1>6 DEF CardsInOnePlace, Played

\* A card that does not follow is one of a hand that could not.
LEMMA NoRevokeNext ==
    ASSUME InStep, RoundKept, ~GameOver, NEW side \in Sides, NEW card \in hands[side],
           mayPlay(side, card), Grows(side, card)
    PROVE  NoRevoke' /\ \A p \in Places' : SideAt(p)' \in Sides
<1>1. side = nextMove /\ (table # <<>> => card.col = table[1].col \/ \A c \in hands[side] : c.col # table[1].col)
  BY DEF mayPlay, isMoveLegal
<1>2. \A s \in Sides : hands'[s] \subseteq hands[s]
  <2>1. hands' = HandsWithout(side, card) /\ hands \in [Sides -> SUBSET Card]
    BY DealStays DEF InStep, GameTypeOK
  <2>2. QED
    BY <2>1 DEF HandsWithout
<1>3. \A p \in Places : CardAt(p).col # LeadAt(p).col =>
        /\ \A c \in hands[SideAt(p)] : c.col # LeadAt(p).col
        /\ \A q \in Places : q[1] > p[1] /\ SideAt(q) = SideAt(p) => CardAt(q).col # LeadAt(p).col
  BY DEF RoundKept, NoRevoke, CardAt, LeadAt, SideAt
<1>4. /\ \A p : p \in Places' <=> p \in Places \/ p = Here
      /\ \A p \in Places : /\ p[1] <= TrickNow
                           /\ CardAt(p)' = CardAt(p) /\ LeadAt(p)' = LeadAt(p) /\ SideAt(p)' = SideAt(p)
      /\ \A p : p = Here => /\ CardAt(p)' = card /\ SideAt(p)' = side
                            /\ LeadAt(p)' = IF table = <<>> THEN card ELSE table[1]
  BY <1>1, PlaceNext DEF RoundKept
<1>5. \A p \in Places' : SideAt(p)' \in Sides
  BY <1>4 DEF RoundKept
<1>6. ASSUME NEW p \in Places', CardAt(p)'.col # LeadAt(p)'.col
      PROVE  /\ \A c \in hands'[SideAt(p)'] : c.col # LeadAt(p)'.col
             /\ \A q \in Places' : q[1] > p[1] /\ SideAt(q)' = SideAt(p)' => CardAt(q)'.col # LeadAt(p)'.col
  <2>1. CASE p \in Places
    <3>1. CardAt(p).col # LeadAt(p).col /\ SideAt(p) \in Sides
      BY <1>4, <1>6, <2>1 DEF RoundKept
    <3>2. \A c \in hands'[SideAt(p)'] : c.col # LeadAt(p)'.col
      BY <1>2, <1>3, <1>4, <2>1, <3>1
    <3>3. ASSUME NEW q \in Places', q[1] > p[1], SideAt(q)' = SideAt(p)'
          PROVE  CardAt(q)'.col # LeadAt(p)'.col
      <4>1. CASE q \in Places
        BY <1>3, <1>4, <2>1, <3>1, <3>3, <4>1
      <4>2. CASE q = Here
        BY <1>3, <1>4, <2>1, <3>1, <3>3, <4>2
      <4>3. QED
        BY <1>4, <4>1, <4>2
    <3>4. QED
      BY <3>2, <3>3
  <2>2. CASE p = Here
    <3>1. table # <<>> /\ LeadAt(p)' = table[1] /\ card.col # table[1].col
      BY <1>4, <1>6, <2>2
    <3>2. \A c \in hands'[SideAt(p)'] : c.col # LeadAt(p)'.col
      BY <1>1, <1>2, <1>4, <2>2, <3>1
    <3>3. TrickNow \in Int /\ p[1] = TrickNow
      BY <2>2 DEF Here, TrickNow, InStep, GameTypeOK
    <3>4. \A q \in Places : q[1] \in Int
      BY <3>3, PlaceIs
    <3>5. \A q \in Places' : q[1] \in Int /\ q[1] <= TrickNow
      BY <1>4, <3>3, <3>4 DEF Here
    <3>6. QED
      BY <3>2, <3>3, <3>5
  <2>3. QED
    BY <1>4, <2>1, <2>2
<1>7. NoRevoke'
  BY <1>6 DEF NoRevoke, CardAt, LeadAt, SideAt
<1>8. QED
  BY <1>5, <1>7

-----------------------------------------------------------------------------
(* The rounds.                                                             *)

\* A round that begins: everything dealt is still in the hands.
Fresh ==
    /\ takenInRound = <<>> /\ table = <<>>
    /\ ~GameOver /\ Deal \in {Scenario[r] : r \in DOMAIN Scenario}
    /\ hands = Deal.hands /\ nextMove = Deal.start

\* Nothing is out of its place then.
LEMMA FreshKept == Fresh => RoundKept
<1> SUFFICES ASSUME Fresh
             PROVE  RoundKept
  OBVIOUS
<1>1. Places = {}
  BY NoPlaces DEF Fresh
<1>2. \A s \in Sides : PlayedBy(s) = {}
  BY <1>1 DEF PlayedBy
<1>3. Played = {}
  BY <1>2 DEF Played
<1>4. CardsInOnePlace
  BY <1>1, <1>2, <1>3 DEF CardsInOnePlace, Played, Fresh
<1>5. InTurn
  <2>1. Deal.start \in Sides
    BY RoundType DEF Fresh
  <2>2. TrickNow = 1 /\ Len(table) = 0
    BY EmptyLen DEF Fresh, TrickNow
  <2>3. \A l \in Sides : SideAfter(l, 0) = l
    BY RulesAssumption DEF SideAfter, Sides
  <2>4. QED
    BY <2>1, <2>2, <2>3 DEF InTurn, LeaderOf, Fresh
<1>6. QED
  BY <1>1, <1>3, <1>4, <1>5, FS_EmptySet DEF RoundKept, NoRevoke

\* The first round begins so,
LEMMA InitFresh == GameInit => Fresh
BY ScenarioLength DEF GameInit, Fresh, Deal, GameOver

\* and so does every other.
LEMMA RoundFresh ==
    ASSUME GameTypeOK, NEW side, NEW card, closeRound(side, card)
    PROVE  Fresh'
<1>1. /\ roundNumber' = roundNumber + 1 /\ table' = <<>> /\ takenInRound' = <<>>
      /\ hands' = Scenario[roundNumber + 2].hands /\ nextMove' = Scenario[roundNumber + 2].start
  BY DEF closeRound, settleRound, prepareRound, GameTypeOK
<1>2. roundNumber + 2 \in 1 .. Len(Scenario) /\ roundNumber + 1 # Len(Scenario) /\ roundNumber + 1 + 1 = roundNumber + 2
  <2>1. roundNumber \in Nat /\ roundNumber + 1 < Len(Scenario) /\ Len(Scenario) \in Nat
    BY ScenarioLength DEF closeRound, GameTypeOK
  <2>2. \A m, n \in Nat : m + 1 < n => m + 2 \in 1 .. n /\ m + 1 # n /\ m + 1 + 1 = m + 2
    OBVIOUS
  <2>3. QED
    BY ONLY <2>1, <2>2
<1>3. Deal' = Scenario[roundNumber + 2] /\ ~GameOver'
  BY <1>1, <1>2 DEF Deal, GameOver
<1>4. roundNumber + 2 \in DOMAIN Scenario
  BY ONLY <1>2, ScenarioLength
<1>5. QED
  BY <1>1, <1>3, <1>4 DEF Fresh

\* With InStep it is inductive.
LEMMA PlayKept ==
    ASSUME InStep, RoundKept, NEW side \in Sides, NEW card \in hands[side], Play(side, card)
    PROVE  RoundKept'
<1>1. ~GameOver /\ side = nextMove
  BY NobodyPlaysOn
<1>2. CASE closeRound(side, card)
  <2>1. Fresh'
    BY <1>2, RoundFresh DEF InStep
  <2>2. QED
    BY <2>1, FreshKept, PTL
<1>3. CASE Grows(side, card)
  <2>1. IsFiniteSet(Places') /\ IsFiniteSet(Played') /\ CardsInOnePlace'
    BY <1>1, <1>3, OnePlaceNext
  <2>2. NoRevoke' /\ \A p \in Places' : SideAt(p)' \in Sides
    BY <1>1, <1>3, NoRevokeNext DEF Play
  <2>3. InTurn'
    BY <1>1, <1>3, TurnNext DEF RoundKept
  <2>4. QED
    BY <2>1, <2>2, <2>3 DEF RoundKept
<1>4. QED
  BY <1>2, <1>3 DEF Play, playCard, Grows

\* A step that changes nothing keeps the round.
LEMMA KeptUnchanged == RoundKept /\ UNCHANGED gameVars => RoundKept'
<1> SUFFICES ASSUME RoundKept, UNCHANGED gameVars
             PROVE  RoundKept'
  OBVIOUS
<1>1. Tabled' = Tabled /\ Deal' = Deal /\ (GameOver' <=> GameOver) /\ hands' = hands
  BY DEF gameVars, Tabled, Deal, GameOver
<1>2. \A k, i : PlayerAt(k, i)' = PlayerAt(k, i)
  BY <1>1 DEF gameVars, PlayerAt, LeaderOf
<1>3. Places' = Places
  BY <1>1 DEF Places
<1>4. \A s : PlayedBy(s)' = PlayedBy(s)
  BY <1>1, <1>2, <1>3 DEF PlayedBy
<1>5. Played' = Played /\ CardsInOnePlace'
  BY <1>1, <1>3, <1>4 DEF Played, CardsInOnePlace, RoundKept
<1>6. NoRevoke'
  BY <1>1, <1>2, <1>3 DEF NoRevoke, RoundKept
<1>7. InTurn'
  BY <1>1 DEF gameVars, InTurn, LeaderOf, TrickNow, RoundKept
<1>8. QED
  BY <1>2, <1>3, <1>5, <1>6, <1>7 DEF RoundKept, SideAt

\* In every state of every game.
THEOREM RoundsKept == GameSpec => []RoundKept
<1>1. GameInit => RoundKept
  BY InitFresh, FreshKept
<1>2. InStep /\ RoundKept /\ [GameNext]_gameVars => RoundKept'
  <2> SUFFICES ASSUME InStep, RoundKept, [GameNext]_gameVars
               PROVE  RoundKept'
    OBVIOUS
  <2>1. CASE GameNext
    BY <2>1, PlayKept DEF GameNext
  <2>2. CASE UNCHANGED gameVars
    BY <2>2, KeptUnchanged
  <2>3. QED
    BY <2>1, <2>2
<1>3. QED
  BY <1>1, <1>2, StaysInStep, PTL DEF GameSpec

\* Every card of the deal is in the hand it was dealt to or has been played
\* once, by that side, in its turn.
THEOREM CardsStayPut == GameSpec => []CardsInOnePlace
<1>1. RoundKept => CardsInOnePlace
  BY DEF RoundKept
<1>2. QED
  BY <1>1, RoundsKept, PTL

\* A side that has not followed a colour holds no card of it and shows none
\* in the rest of the round.
THEOREM NobodyRevokes == GameSpec => []NoRevoke
<1>1. RoundKept => NoRevoke
  BY DEF RoundKept
<1>2. QED
  BY <1>1, RoundsKept, PTL

-----------------------------------------------------------------------------
(* The price list of the contract.                                         *)

\* A card of the price list is what whoTakes counts for it.
LEMMA CardCostIs ==
    ASSUME NEW mode \in RoundTypes, NEW card \in Card
    PROVE  Promise!CardCost(mode, card) = CostOf(mode, card)
<1>1. /\ card \in Hearts <=> card.col = "H"
      /\ card \in Queens <=> card.val = 12
      /\ card \in KingsJacks <=> card.val \in {13, 11}
      /\ card \in HeartKing <=> card.val = 13 /\ card.col = "H"
  BY DEF Hearts, Queens, KingsJacks, HeartKing, Card, Queen, King, Jack
<1>2. QED
  BY <1>1, SMTT(60) DEF Promise!CardCost, Promise!Queen, Promise!King, Promise!Jack, CostOf, PerCard, RoundTypes

\* So a trick costs what the contract charges for it.
LEMMA PriceIs ==
    ASSUME NEW tab \in Seq(Card), NEW mode \in RoundTypes, NEW no \in Nat
    PROVE  Promise!Price(mode, no, tab) = penalty(tab, mode, no)
<1> DEFINE cost == [i \in DOMAIN tab |-> Promise!CardCost(mode, tab[i])]
<1>1. Promise!Price(mode, no, tab) = Promise!TrickCost(mode, no) + SumFunctionOnSet(cost, DOMAIN tab)
  BY DEF Promise!Price, Promise!SumFunction, Promise!SumFunctionOnSet, Promise!FoldFunctionOnSet,
         Promise!MapThenFoldSet, SumFunctionOnSet, FoldFunctionOnSet, MapThenFoldSet
<1>2. Promise!TrickCost(mode, no) = <<1, 0, 0, 0, 0, lateTrick(no), 1 + lateTrick(no)>>[mode]
  BY DEF lateTrick, Promise!TrickCost
<1>3. \A i \in DOMAIN tab : cost[i] = CostOf(mode, tab[i])
  BY CardOnTable, CardCostIs
<1> HIDE DEF cost
<1>4. SumFunctionOnSet(cost, DOMAIN tab) = PerCard(mode, OnTable(tab, Hearts), OnTable(tab, Queens),
                                                   OnTable(tab, KingsJacks), OnTable(tab, HeartKing))
  BY <1>3, CardsCost
<1>5. QED
  BY <1>1, <1>2, <1>4, PenaltyParts

-----------------------------------------------------------------------------
(* Tricks: who takes one and what a side is charged, by the TAKEN messages *)
(* of a round and by its plays.                                            *)

LeaderIn(ms, start, k) == IF k = 1 THEN start ELSE ms[k - 1].taker

Distinct(tab) == \A i, j \in DOMAIN tab : tab[i] = tab[j] => i = j

\* The messages name the right takers of full tricks.
Settled(ms, start) ==
    \A k \in DOMAIN ms :
        /\ Len(ms[k].table) = NSides
        /\ Distinct(ms[k].table)
        /\ ms[k].taker = SideAfter(LeaderIn(ms, start, k), TakerIx(ms[k].table) - 1)

\* The plays of a trick that was led by a side, and the plays that tell of
\* every trick of the messages.
Shown(tab, leader) == [i \in 1 .. NSides |-> [side |-> SideAfter(leader, i - 1), card |-> tab[i]]]

Told(ps, ms, start) ==
    \A k \in DOMAIN ms : Promise!Trick(ps, k) = Shown(ms[k].table, LeaderIn(ms, start, k))

\* What the messages charge a side.
Charges(ms, mode) == [k \in DOMAIN ms |-> penalty(ms[k].table, mode, k)]
TakenBy(ms, s) == {k \in DOMAIN ms : ms[k].taker = s}
Charged(ms, mode, s) == SumFunctionOnSet(Charges(ms, mode), TakenBy(ms, s))

\* The contract's winner is the taker of whoTakes: the cards are different,
\* so there is one highest of the colour.
LEMMA WinnerIs ==
    ASSUME NEW tab \in Seq(Card), Len(tab) = NSides, Distinct(tab), NEW leader, NEW ps, NEW k,
           Promise!Trick(ps, k) = Shown(tab, leader)
    PROVE  Promise!Winner(ps, k) = SideAfter(leader, TakerIx(tab) - 1)
<1> DEFINE trick == Promise!Trick(ps, k)
           following == {i \in 1 .. NSides : trick[i].card.col = trick[1].card.col}
           t == TakerIx(tab)
<1>1. DOMAIN tab = 1 .. NSides /\ 1 \in 1 .. NSides /\ tab # <<>>
  BY RulesAssumption
<1>2. \A i \in 1 .. NSides : trick[i].card = tab[i] /\ trick[i].side = SideAfter(leader, i - 1)
  BY DEF Shown
<1>3. following = {i \in 1 .. NSides : tab[i].col = tab[1].col}
  BY <1>1, <1>2
<1>4. /\ t \in 1 .. NSides /\ tab[t].col = tab[1].col
      /\ \A j \in 1 .. NSides : Beats(tab, t, j)
  BY <1>1, TrickHasTaker
<1>5. \A i \in 1 .. NSides : tab[i] \in Card /\ tab[i].val \in Int
  BY <1>1, CardOnTable, SMTT(60) DEF Ace
<1> HIDE DEF t, trick
<1>6. t \in following /\ \A j \in following : trick[j].card.val <= trick[t].card.val
  <2> HIDE DEF following
  <2>1. t \in following
    BY <1>3, <1>4
  <2>2. ASSUME NEW j \in following
        PROVE  trick[j].card.val <= trick[t].card.val
    <3>1. j \in 1 .. NSides /\ tab[j].col = tab[1].col
      BY <1>3
    <3>2. tab[t].val > tab[j].val \/ tab[t].val = tab[j].val
      BY <1>4, <3>1 DEF Beats
    <3>3. tab[t].val \in Int /\ tab[j].val \in Int
      BY <1>4, <1>5, <3>1
    <3>4. tab[j].val <= tab[t].val
      BY <3>2, <3>3
    <3>5. QED
      BY <1>2, <1>4, <3>1, <3>4
  <2>3. QED
    BY <2>1, <2>2
<1>7. ASSUME NEW b \in following, \A j \in following : trick[j].card.val <= trick[b].card.val
      PROVE  b = t
  <2>1. b \in 1 .. NSides /\ tab[b].col = tab[t].col
    BY <1>3, <1>4
  <2>2. tab[b].val = tab[t].val
    BY <1>2, <1>4, <1>5, <1>6, <1>7, <2>1, SMTT(60)
  <2>3. tab[b] = tab[t]
    BY <1>4, <1>5, <2>1, <2>2 DEF Card
  <2>4. QED
    BY <1>1, <1>4, <2>1, <2>3 DEF Distinct
<1> HIDE DEF following
<1>8. (CHOOSE i \in following : \A j \in following : trick[j].card.val <= trick[i].card.val) = t
  BY <1>6, <1>7
<1>9. Promise!Winner(ps, k) = trick[t].side
  BY <1>8 DEF Promise!Winner, following, trick
<1>10. QED
  BY <1>2, <1>4, <1>9 DEF t

\* And the trick costs the same.
LEMMA CostIs ==
    ASSUME NEW tab \in Seq(Card), Len(tab) = NSides, NEW leader, NEW ps, NEW k \in Nat,
           Promise!Trick(ps, k) = Shown(tab, leader), NEW mode \in RoundTypes
    PROVE  Promise!Cost(mode, ps, k) = penalty(tab, mode, k)
<1>1. [i \in 1 .. NSides |-> Promise!Trick(ps, k)[i].card] = tab
  <2>1. [i \in 1 .. NSides |-> Promise!Trick(ps, k)[i].card] = [i \in 1 .. NSides |-> tab[i]]
    BY DEF Shown
  <2>2. tab = [i \in 1 .. NSides |-> tab[i]]
    OBVIOUS
  <2>3. QED
    BY <2>1, <2>2
<1>2. QED
  BY <1>1, PriceIs DEF Promise!Cost

\* A message of a round.
LEMMA MessageOf ==
    ASSUME NEW ms \in Seq(Messages), NEW k \in DOMAIN ms
    PROVE  ms[k] \in Messages /\ ms[k].table \in Seq(Card) /\ ms[k].taker \in Sides /\ k \in Nat \ {0}
<1>1. ms[k] \in Messages /\ k \in Nat \ {0}
  OBVIOUS
<1>2. \A m \in Messages : m.table \in Seq(Card) /\ m.taker \in Sides
  BY DEF Messages
<1>3. QED
  BY <1>1, <1>2

\* So a round costs a side what the messages charge it.
LEMMA RoundCostIs ==
    ASSUME NEW ms \in Seq(Messages), NEW start, Settled(ms, start), NEW ps, Told(ps, ms, start),
           Promise!Tricks(ps) = DOMAIN ms, NEW mode \in RoundTypes, NEW s
    PROVE  Promise!RoundCost(mode, ps, s) = Charged(ms, mode, s)
<1>1. \A k \in DOMAIN ms : ms[k].table \in Seq(Card) /\ k \in Nat
  BY MessageOf
<1>2. \A k \in DOMAIN ms : Promise!Winner(ps, k) = ms[k].taker
  BY <1>1, WinnerIs DEF Settled, Told
<1>3. \A k \in DOMAIN ms : Promise!Cost(mode, ps, k) = penalty(ms[k].table, mode, k)
  BY <1>1, CostIs DEF Settled, Told
<1>4. {k \in Promise!Tricks(ps) : Promise!Winner(ps, k) = s} = TakenBy(ms, s)
  BY <1>2 DEF TakenBy
<1>5. [k \in Promise!Tricks(ps) |-> Promise!Cost(mode, ps, k)] = Charges(ms, mode)
  BY <1>3 DEF Charges
<1>6. Promise!RoundCost(mode, ps, s) =
        SumFunctionOnSet([k \in Promise!Tricks(ps) |-> Promise!Cost(mode, ps, k)],
                         {k \in Promise!Tricks(ps) : Promise!Winner(ps, k) = s})
  BY DEF Promise!RoundCost, Promise!SumFunctionOnSet, Promise!FoldFunctionOnSet, Promise!MapThenFoldSet,
         SumFunctionOnSet, FoldFunctionOnSet, MapThenFoldSet
<1>7. QED
  BY <1>4, <1>5, <1>6 DEF Charged

\* One trick more charges its taker, and nobody else.
LEMMA ChargedNext ==
    ASSUME NEW ms \in Seq(Messages), NEW m \in Messages, NEW mode \in RoundTypes, NEW s
    PROVE  /\ Charged(Append(ms, m), mode, s) =
                Charged(ms, mode, s) + (IF m.taker = s THEN penalty(m.table, mode, Len(ms) + 1) ELSE 0)
           /\ Charged(ms, mode, s) \in Nat
<1> DEFINE n == Len(ms) + 1
           all == Append(ms, m)
<1>1. /\ n \in Nat /\ n \notin DOMAIN ms /\ DOMAIN all = DOMAIN ms \cup {n}
      /\ all[n] = m /\ \A k \in DOMAIN ms : all[k] = ms[k]
      /\ DOMAIN ms = 1 .. Len(ms) /\ Len(ms) \in Nat
  OBVIOUS
<1>2. IsFiniteSet(TakenBy(ms, s)) /\ TakenBy(ms, s) \in SUBSET DOMAIN ms
  <2>1. IsFiniteSet(DOMAIN ms)
    BY <1>1, FS_Interval
  <2>2. QED
    BY <2>1, FS_Subset DEF TakenBy
<1> HIDE DEF n, all
<1>3. TakenBy(all, s) = IF m.taker = s THEN TakenBy(ms, s) \cup {n} ELSE TakenBy(ms, s)
  BY <1>1 DEF TakenBy
<1>4. /\ Charges(all, mode)[n] = penalty(m.table, mode, n)
      /\ \A k \in DOMAIN ms : Charges(all, mode)[k] = Charges(ms, mode)[k]
  BY <1>1 DEF Charges
<1>5. /\ \A k \in DOMAIN ms : Charges(ms, mode)[k] \in Nat
      /\ penalty(m.table, mode, n) \in Nat
  <2>1. \A k \in DOMAIN ms : ms[k].table \in Seq(Card) /\ k \in Nat
    BY MessageOf
  <2>2. m.table \in Seq(Card)
    BY DEF Messages
  <2>3. \A k \in DOMAIN ms : penalty(ms[k].table, mode, k) \in Nat
    BY <2>1, PenaltyType
  <2>4. QED
    BY <1>1, <2>2, <2>3, PenaltyType DEF Charges
<1>6. SumFunctionOnSet(Charges(all, mode), TakenBy(ms, s)) = Charged(ms, mode, s) /\ Charged(ms, mode, s) \in Nat
  BY <1>2, <1>4, <1>5, SumSame, SumType DEF Charged
<1>7. SumFunctionOnSet(Charges(all, mode), TakenBy(ms, s) \cup {n}) =
        penalty(m.table, mode, n) + SumFunctionOnSet(Charges(all, mode), TakenBy(ms, s))
  <2>1. n \notin TakenBy(ms, s) /\ \A k \in TakenBy(ms, s) \cup {n} : Charges(all, mode)[k] \in Nat
    BY <1>1, <1>2, <1>4, <1>5
  <2>2. QED
    BY <1>2, <1>4, <2>1, SumAdd
<1>8. Charged(all, mode, s) = Charged(ms, mode, s) + (IF m.taker = s THEN penalty(m.table, mode, n) ELSE 0)
  BY <1>3, <1>5, <1>6, <1>7 DEF Charged
<1>9. QED
  BY <1>6, <1>8 DEF n, all

-----------------------------------------------------------------------------
(* Plays: the places of a round in one line.                               *)

TrickAt(m) == ((m - 1) \div NSides) + 1
PlaceAt(m) == ((m - 1) % NSides) + 1
Spot(m) == <<TrickAt(m), PlaceAt(m)>>
Index(k, i) == (k - 1) * NSides + i
Total == Len(takenInRound) * NSides + Len(table)

\* Counting by tricks and counting on are the same.
LEMMA IndexSpot ==
    ASSUME NEW k \in Nat \ {0}, NEW i \in 1 .. NSides
    PROVE  TrickAt(Index(k, i)) = k /\ PlaceAt(Index(k, i)) = i
<1>1. \A N \in Nat \ {0} : \A q \in Nat : \A j \in 0 .. N - 1 : (q * N + j) \div N = q /\ (q * N + j) % N = j
  OBVIOUS
<1>2. k - 1 \in Nat /\ i - 1 \in 0 .. NSides - 1 /\ NSides \in Nat \ {0}
  BY RulesAssumption
<1>3. ((k - 1) * NSides + (i - 1)) \div NSides = k - 1 /\ ((k - 1) * NSides + (i - 1)) % NSides = i - 1
  BY <1>1, <1>2
<1>4. Index(k, i) - 1 = (k - 1) * NSides + (i - 1)
  BY <1>2 DEF Index
<1>5. QED
  BY <1>2, <1>3, <1>4 DEF TrickAt, PlaceAt

\* Every number is that of the place it names.
LEMMA SpotIndex ==
    ASSUME NEW m \in Nat \ {0}
    PROVE  TrickAt(m) \in Nat \ {0} /\ PlaceAt(m) \in 1 .. NSides /\ Index(TrickAt(m), PlaceAt(m)) = m
<1>1. \A N \in Nat \ {0} : \A q \in Nat :
        q \div N \in Nat /\ q % N \in 0 .. N - 1 /\ (q \div N) * N + (q % N) = q
  OBVIOUS
<1>2. m - 1 \in Nat /\ NSides \in Nat \ {0}
  BY RulesAssumption
<1>3. PICK q \in Nat, j \in 0 .. NSides - 1 : q = (m - 1) \div NSides /\ j = (m - 1) % NSides /\ q * NSides + j = m - 1
  BY <1>1, <1>2
<1>4. TrickAt(m) = q + 1 /\ PlaceAt(m) = j + 1
  BY <1>3 DEF TrickAt, PlaceAt
<1>5. (q + 1 - 1) * NSides + (j + 1) = q * NSides + j + 1 /\ q * NSides \in Nat
  BY <1>2
<1>6. QED
  BY <1>2, <1>3, <1>4, <1>5 DEF Index

\* The places in use are those before the next one.
LEMMA IndexWithin ==
    ASSUME NEW n \in Nat, NEW t \in 0 .. NSides - 1, NEW k \in Nat \ {0}, NEW i \in 1 .. NSides
    PROVE  Index(k, i) \in 1 .. n * NSides + t <=> k <= n \/ (k = n + 1 /\ i <= t)
<1>1. NSides \in Nat \ {0}
  BY RulesAssumption
<1>2. \A N \in Nat \ {0} : \A a, b \in Nat : a <= b => a * N <= b * N
  OBVIOUS
<1>3. \A N \in Nat \ {0} : \A a \in Nat : a * N \in Nat /\ (a + 1) * N = a * N + N
  OBVIOUS
<1>4. PICK q \in Nat : q = k - 1
  OBVIOUS
<1>5. Index(k, i) = q * NSides + i /\ q * NSides \in Nat /\ n * NSides \in Nat
  BY <1>1, <1>3, <1>4 DEF Index
<1>6. CASE k <= n
  <2>1. (q + 1) * NSides <= n * NSides /\ (q + 1) * NSides = q * NSides + NSides
    BY <1>1, <1>2, <1>3, <1>4, <1>6
  <2>2. QED
    BY <1>1, <1>5, <1>6, <2>1
<1>7. CASE k = n + 1
  BY <1>1, <1>4, <1>5, <1>7
<1>8. CASE k > n + 1
  <2>1. (n + 1) * NSides <= q * NSides /\ (n + 1) * NSides = n * NSides + NSides
    BY <1>1, <1>2, <1>3, <1>4, <1>8
  <2>2. QED
    BY <1>1, <1>5, <1>8, <2>1
<1>9. QED
  BY <1>6, <1>7, <1>8

\* The tricks of the round so far have the right takers, and what they cost
\* is in the penalties.
Promised ==
    /\ Settled(takenInRound, Deal.start)
    /\ ~GameOver =>
         /\ roundMode = Deal.mode
         /\ TrickNow = trickNo
         /\ \A s \in Sides : penaltiesRound[s] = Charged(takenInRound, roundMode, s)

\* The plays are the places, in order.
LEMMA PlaysAre == PlaysOf = [m \in 1 .. Total |-> [side |-> SideAt(Spot(m)), card |-> CardAt(Spot(m))]]
BY DEF PlaysOf, Total, SideAt, CardAt, Spot, TrickAt, PlaceAt

\* Lengths.
LEMMA TotalType ==
    ASSUME InStep
    PROVE  /\ Total \in Nat /\ Len(takenInRound) \in Nat /\ Len(table) \in 0 .. NSides - 1
           /\ TrickNow \in Nat \ {0} /\ Total = Index(TrickNow, Len(table))
           /\ Spot(Total + 1) = Here
<1>1. Len(takenInRound) \in Nat /\ Len(table) \in 0 .. NSides - 1 /\ NSides \in Nat \ {0}
  BY RulesAssumption DEF InStep, GameTypeOK, CountersAgree
<1>2. \A a, b \in Nat : a * b \in Nat
  OBVIOUS
<1>3. Len(takenInRound) * NSides \in Nat /\ TrickNow - 1 = Len(takenInRound) /\ TrickNow \in Nat \ {0}
  BY <1>1, <1>2 DEF TrickNow
<1>4. Total \in Nat /\ Total = Index(TrickNow, Len(table))
  BY <1>1, <1>3 DEF Total, Index
<1>5. Total + 1 = Index(TrickNow, Len(table) + 1)
  BY <1>1, <1>3 DEF Total, Index
<1>6. Len(table) + 1 \in 1 .. NSides
  BY <1>1
<1>7. Spot(Total + 1) = Here
  BY <1>3, <1>5, <1>6, IndexSpot DEF Spot, Here
<1>8. QED
  BY <1>1, <1>3, <1>4, <1>7

\* A place of the round has its number among the plays, and a play its place.
LEMMA SpotsArePlaces ==
    ASSUME InStep, Promised
    PROVE  /\ \A m \in 1 .. Total : Spot(m) \in Places
           /\ \A p \in Places : \E m \in 1 .. Total : Spot(m) = p
<1>1. \A k \in 1 .. TrickNow : DOMAIN Tabled[k] = IF k = TrickNow THEN 1 .. Len(table) ELSE 1 .. NSides
  <2>1. takenInRound \in Seq(Messages) /\ table \in Seq(Card)
    BY DEF InStep, GameTypeOK
  <2>2. ASSUME NEW k \in 1 .. TrickNow, k # TrickNow
        PROVE  DOMAIN Tabled[k] = 1 .. NSides
    <3>1. k \in DOMAIN takenInRound /\ Tabled[k] = takenInRound[k].table
      BY <2>1, <2>2 DEF Tabled, TrickNow
    <3>2. takenInRound[k].table \in Seq(Card) /\ Len(takenInRound[k].table) = NSides
      BY <2>1, <3>1, MessageOf DEF Promised, Settled
    <3>3. QED
      BY <3>1, <3>2
  <2>3. ASSUME NEW k \in 1 .. TrickNow, k = TrickNow
        PROVE  DOMAIN Tabled[k] = 1 .. Len(table)
    BY <2>1, <2>3 DEF Tabled, TrickNow
  <2>4. QED
    BY <2>2, <2>3
<1>2. Len(takenInRound) = TrickNow - 1 /\ TrickNow \in Nat \ {0} /\ Len(table) \in 0 .. NSides - 1 /\ NSides \in Nat \ {0}
  BY TotalType, RulesAssumption DEF TrickNow
<1>3. ASSUME NEW k \in Nat \ {0}, NEW i \in 1 .. NSides
      PROVE  Index(k, i) \in 1 .. Total <=> k < TrickNow \/ (k = TrickNow /\ i <= Len(table))
  <2>1. Index(k, i) \in 1 .. Total <=> k <= Len(takenInRound) \/ (k = Len(takenInRound) + 1 /\ i <= Len(table))
    BY TotalType, IndexWithin DEF Total
  <2>2. QED
    BY <1>2, <2>1
<1>4. ASSUME NEW m \in 1 .. Total
      PROVE  Spot(m) \in Places
  <2>1. m \in Nat \ {0}
    BY TotalType
  <2>2. TrickAt(m) \in Nat \ {0} /\ PlaceAt(m) \in 1 .. NSides /\ Index(TrickAt(m), PlaceAt(m)) = m
    BY <2>1, SpotIndex
  <2>3. TrickAt(m) < TrickNow \/ (TrickAt(m) = TrickNow /\ PlaceAt(m) <= Len(table))
    BY <1>3, <2>2
  <2>4. TrickAt(m) \in 1 .. TrickNow /\ PlaceAt(m) \in DOMAIN Tabled[TrickAt(m)]
    BY <1>1, <1>2, <2>2, <2>3
  <2>5. QED
    BY <2>4, PlaceIs DEF Spot
<1>5. ASSUME NEW p \in Places
      PROVE  \E m \in 1 .. Total : Spot(m) = p
  <2>1. PICK k \in 1 .. TrickNow : \E i \in DOMAIN Tabled[k] : p = <<k, i>>
    BY PlaceIs
  <2>2. PICK i \in DOMAIN Tabled[k] : p = <<k, i>>
    BY <2>1
  <2>3. k \in Nat \ {0} /\ i \in 1 .. NSides /\ (k < TrickNow \/ (k = TrickNow /\ i <= Len(table)))
    BY <1>1, <1>2
  <2>4. Index(k, i) \in 1 .. Total /\ Spot(Index(k, i)) = p
    BY <1>3, <2>2, <2>3, IndexSpot DEF Spot
  <2>5. QED
    BY <2>4
<1>6. QED
  BY <1>4, <1>5

\* A card played is added at the end.
LEMMA PlaysNext ==
    ASSUME InStep, InTurn, Promised, ~GameOver, NEW side \in Sides, NEW card \in hands[side], side = nextMove,
           Grows(side, card)
    PROVE  PlaysOf' = Append(PlaysOf, [side |-> side, card |-> card])
<1>1. Total' = Total + 1
  <2>1. table \in Seq(Card) /\ takenInRound \in Seq(Messages) /\ card \in Card
    BY DEF InStep, GameTypeOK
  <2>2. CASE addCard(side, card)
    <3>1. takenInRound' = takenInRound /\ Len(table') = Len(table) + 1
      BY <2>1, <2>2 DEF addCard
    <3>2. \A a, b \in Nat : a * b \in Nat
      OBVIOUS
    <3>3. Len(takenInRound) * NSides \in Nat
      BY <3>2, TotalType, RulesAssumption
    <3>4. QED
      BY <3>1, <3>3, TotalType DEF Total
  <2>3. CASE closeTrick(side, card) \/ closeGame(side, card)
    <3>1. /\ takenInRound' = Append(takenInRound, TakenMsg(card)) /\ table' = <<>>
          /\ Len(table) + 1 = NSides
      BY <2>3 DEF closeTrick, closeGame, settleRound
    <3>2. TakenMsg(card) \in Messages
      BY <2>1, <3>1, TakeType DEF InStep
    <3>3. Len(takenInRound') = Len(takenInRound) + 1 /\ Len(table') = 0
      BY <2>1, <3>1, <3>2, EmptyLen
    <3>4. \A a \in Nat : \A b \in Nat : (a + 1) * b + 0 = a * b + b
      OBVIOUS
    <3>5. Total' = Len(takenInRound) * NSides + NSides
      BY <3>3, <3>4, TotalType, RulesAssumption DEF Total
    <3>6. \A a, b \in Nat : a * b \in Nat
      OBVIOUS
    <3>7. Len(takenInRound) * NSides \in Nat
      BY <3>6, TotalType, RulesAssumption
    <3>8. QED
      BY <3>1, <3>5, <3>7, TotalType, RulesAssumption, SMTT(60) DEF Total
  <2>4. QED
    BY <2>2, <2>3 DEF Grows
<1>2. PlaysOf' = [m \in 1 .. Total' |-> [side |-> SideAt(Spot(m))', card |-> CardAt(Spot(m))']]
  BY DEF PlaysOf, Total, SideAt, CardAt, Spot, TrickAt, PlaceAt
<1>3. \A m \in 1 .. Total : SideAt(Spot(m))' = SideAt(Spot(m)) /\ CardAt(Spot(m))' = CardAt(Spot(m))
  BY SpotsArePlaces, PlaceNext
<1>4. \A m : m = Total + 1 => SideAt(Spot(m))' = side /\ CardAt(Spot(m))' = card
  <2>1. \A p : p = Here => SideAt(p)' = side /\ CardAt(p)' = card
    BY PlaceNext
  <2>2. \A m : m = Total + 1 => Spot(m) = Here
    BY TotalType
  <2>3. QED
    BY <2>1, <2>2
<1>5. QED
  BY <1>1, <1>2, <1>3, <1>4, TotalType, PlaysAre

\* The play of a place.
LEMMA PlaysAt ==
    ASSUME InStep, NEW k \in Nat \ {0}, NEW i \in 1 .. NSides,
           k < TrickNow \/ (k = TrickNow /\ i <= Len(table))
    PROVE  /\ Index(k, i) \in DOMAIN PlaysOf /\ DOMAIN PlaysOf = 1 .. Total
           /\ PlaysOf[Index(k, i)] = [side |-> PlayerAt(k, i), card |-> Tabled[k][i]]
<1>1. Index(k, i) \in 1 .. Total <=> k <= Len(takenInRound) \/ (k = Len(takenInRound) + 1 /\ i <= Len(table))
  BY TotalType, IndexWithin DEF Total
<1>2. Index(k, i) \in 1 .. Total
  BY <1>1, TotalType DEF TrickNow
<1>3. Spot(Index(k, i)) = <<k, i>>
  BY IndexSpot DEF Spot
<1>4. QED
  BY <1>2, <1>3, PlaysAre DEF SideAt, CardAt

\* The plays tell of every trick taken.
LEMMA PlaysTell ==
    ASSUME InStep, Promised
    PROVE  Told(PlaysOf, takenInRound, Deal.start)
<1> SUFFICES ASSUME NEW k \in DOMAIN takenInRound, NEW i \in 1 .. NSides
             PROVE  PlaysOf[Index(k, i)] = [side |-> SideAfter(LeaderIn(takenInRound, Deal.start, k), i - 1),
                                            card |-> takenInRound[k].table[i]]
  BY DEF Told, Shown, Promise!Trick, Index
<1>1. k \in Nat \ {0} /\ k < TrickNow
  BY DEF InStep, GameTypeOK, TrickNow
<1>2. Tabled[k] = takenInRound[k].table
  BY DEF Tabled, InStep, GameTypeOK
<1>3. LeaderOf(k) = LeaderIn(takenInRound, Deal.start, k)
  BY DEF LeaderOf, LeaderIn
<1>4. QED
  BY <1>1, <1>2, <1>3, PlaysAt DEF PlayerAt

\* A line of values is a sequence.
LEMMA LineLen ==
    ASSUME NEW n \in Nat, NEW f, f = [m \in 1 .. n |-> f[m]]
    PROVE  Len(f) = n /\ (f = <<>> <=> n = 0)
<1> DEFINE T == {f[m] : m \in 1 .. n}
<1>1. f \in [1 .. n -> T]
  OBVIOUS
<1> HIDE DEF T
<1>2. f \in Seq(T) /\ Len(f) = n
  BY <1>1
<1>3. QED
  BY <1>2

\* And one more value makes it longer.
LEMMA LineAppend ==
    ASSUME NEW n \in Nat, NEW f, f = [m \in 1 .. n |-> f[m]], NEW v
    PROVE  /\ Len(Append(f, v)) = n + 1 /\ Append(f, v)[n + 1] = v
           /\ \A m \in 1 .. n : Append(f, v)[m] = f[m]
<1> DEFINE T == {f[m] : m \in 1 .. n} \cup {v}
<1>1. f \in [1 .. n -> T] /\ v \in T
  OBVIOUS
<1> HIDE DEF T
<1>2. f \in Seq(T) /\ Len(f) = n
  BY <1>1
<1>3. QED
  BY <1>1, <1>2

\* How many tricks the plays make, and what is left over.
LEMMA PlaysLen ==
    ASSUME InStep
    PROVE  /\ Len(PlaysOf) = Total
           /\ Total \div NSides = Len(takenInRound) /\ Total % NSides = Len(table)
           /\ PlaysOf = <<>> <=> Total = 0
<1>1. \A N \in Nat \ {0} : \A q \in Nat : \A j \in 0 .. N - 1 : (q * N + j) \div N = q /\ (q * N + j) % N = j
  OBVIOUS
<1>2. Total \div NSides = Len(takenInRound) /\ Total % NSides = Len(table)
  BY <1>1, TotalType, RulesAssumption DEF Total
<1>3. PlaysOf = [m \in 1 .. Total |-> PlaysOf[m]]
  BY PlaysAre
<1>4. QED
  BY <1>2, <1>3, TotalType, LineLen

\* The side whose turn it is by the plays is the side the server waits for.
LEMMA TurnIs ==
    ASSUME InStep, InTurn, Promised, ~GameOver
    PROVE  Promise!Turn = nextMove
<1>1. /\ Total \in Nat /\ Len(takenInRound) \in Nat /\ Len(table) \in 0 .. NSides - 1
      /\ TrickNow = Len(takenInRound) + 1 /\ NSides \in Nat \ {0}
      /\ Total = Len(takenInRound) * NSides + Len(table)
  BY TotalType, RulesAssumption DEF TrickNow, Total
<1>2. nextMove = SideAfter(LeaderOf(TrickNow), Len(table)) /\ LeaderOf(TrickNow) \in Sides
  BY LeaderType DEF InTurn, InStep
<1>3. \A l \in Sides : SideAfter(l, 0) = l
  BY RulesAssumption DEF SideAfter, Sides
<1>4. CASE PlaysOf = <<>>
  <2>1. Total = 0
    BY <1>4, PlaysLen
  <2>2. Len(takenInRound) = 0 /\ Len(table) = 0
    <3>1. \A N \in Nat \ {0} : \A q, j \in Nat : q * N + j = 0 => q = 0 /\ j = 0
      OBVIOUS
    <3>2. QED
      BY <1>1, <2>1, <3>1
  <2>3. nextMove = Deal.start
    BY <1>1, <1>2, <1>3, <2>2 DEF LeaderOf
  <2>4. QED
    BY <1>4, <2>3 DEF Promise!Turn, Deal
<1>5. CASE PlaysOf # <<>> /\ Len(table) = 0
  <2>1. Total # 0 /\ Len(PlaysOf) % NSides = 0 /\ Len(PlaysOf) \div NSides = Len(takenInRound)
    BY <1>5, PlaysLen
  <2>2. Len(takenInRound) # 0
    BY <1>1, <1>5, <2>1
  <2> DEFINE n == Len(takenInRound)
  <2>3. n \in DOMAIN takenInRound /\ TrickNow # 1 /\ TrickNow - 1 = n
    BY <1>1, <2>2, SMTT(60) DEF InStep, GameTypeOK
  <2>4. takenInRound[n].table \in Seq(Card)
    BY <2>3, MessageOf DEF InStep, GameTypeOK
  <2>5. Promise!Winner(PlaysOf, n) = takenInRound[n].taker
    BY <2>3, <2>4, PlaysTell, WinnerIs DEF Told, Promised, Settled
  <2>6. nextMove = takenInRound[n].taker
    BY <1>2, <1>3, <1>5, <2>3 DEF LeaderOf
  <2>7. QED
    BY <1>5, <2>1, <2>5, <2>6 DEF Promise!Turn
<1>6. CASE PlaysOf # <<>> /\ Len(table) # 0
  <2>1. Len(PlaysOf) = Total /\ Len(PlaysOf) % NSides # 0
    BY <1>6, PlaysLen
  <2>2. Len(table) \in 1 .. NSides /\ TrickNow \in Nat \ {0} /\ Total = Index(TrickNow, Len(table))
    BY <1>1, <1>6, TotalType
  <2>3. PlaysOf[Total] = [side |-> PlayerAt(TrickNow, Len(table)), card |-> Tabled[TrickNow][Len(table)]]
    BY <1>1, <2>2, PlaysAt
  <2>4. PlaysOf[Total].side = SideAfter(LeaderOf(TrickNow), Len(table) - 1)
    BY <2>3 DEF PlayerAt
  <2>5. \A l \in Sides : \A j \in 1 .. NSides - 1 : nxtSide(SideAfter(l, j - 1)) = SideAfter(l, j)
    BY RulesAssumption DEF nxtSide, SideAfter, Sides
  <2>6. nxtSide(PlaysOf[Total].side) = nextMove
    BY <1>1, <1>2, <2>2, <2>4, <2>5
  <2>7. \A s : Promise!nxtSide(s) = nxtSide(s)
    BY DEF Promise!nxtSide, nxtSide
  <2>8. QED
    BY <1>6, <2>1, <2>6, <2>7 DEF Promise!Turn
<1>7. QED
  BY <1>4, <1>5, <1>6

\* What a side holds by the plays is its hand.
LEMMA HoldsHand ==
    ASSUME InStep, RoundKept, Promised, ~GameOver, NEW s \in Sides
    PROVE  Promise!Holds(s) = hands[s]
<1>1. {PlaysOf[m].card : m \in DOMAIN PlaysOf} = Played
  <2>1. {PlaysOf[m].card : m \in DOMAIN PlaysOf} = {CardAt(Spot(m)) : m \in 1 .. Total}
    BY PlaysAre
  <2>2. \A c : c \in Played <=> \E p \in Places : CardAt(p) = c
    BY PlayedIs DEF Played, RoundKept
  <2>3. QED
    BY <2>1, <2>2, SpotsArePlaces
<1>2. \A t \in Sides : hands[t] \cap PlayedBy(t) = {} /\ hands[t] \cup PlayedBy(t) = Deal.hands[t]
  BY DEF RoundKept, CardsInOnePlace
<1>3. \A t \in Sides \ {s} : Deal.hands[s] \cap Deal.hands[t] = {}
  BY DealtOnce DEF InStep
<1>4. Deal.hands[s] \ Played = hands[s]
  BY <1>2, <1>3 DEF Played
<1>5. QED
  BY <1>1, <1>4 DEF Promise!Holds, Deal

\* The colour to follow is the colour of the first card of the table.
LEMMA FollowsIs ==
    ASSUME InStep, RoundKept, Promised, ~GameOver, NEW card \in hands[nextMove], mayPlay(nextMove, card)
    PROVE  Promise!Follows(nextMove, card)
<1>1. nextMove \in Sides /\ card \in Card /\ table \in Seq(Card)
  BY DEF InStep, GameTypeOK
<1>2. CASE Len(table) = 0
  <2>1. Promise!Led = Promise!Colors
    BY <1>2, PlaysLen DEF Promise!Led
  <2>2. card.col \in Promise!Colors
    BY <1>1 DEF Card, Colors, Promise!Colors
  <2>3. QED
    BY <2>1, <2>2 DEF Promise!Follows
<1>3. CASE Len(table) # 0
  <2>1. Len(PlaysOf) = Total /\ Len(PlaysOf) % NSides = Len(table)
    BY PlaysLen
  <2>2. Len(table) \in 1 .. NSides - 1 /\ TrickNow \in Nat \ {0} /\ NSides \in Nat \ {0}
    BY <1>3, TotalType, RulesAssumption
  <2>3. Total - Len(table) + 1 = Index(TrickNow, 1)
    <3>1. TrickNow - 1 = Len(takenInRound) /\ Len(takenInRound) \in Nat
      BY TotalType DEF TrickNow
    <3>2. \A a, b \in Nat : a * b \in Nat
      OBVIOUS
    <3>3. Len(takenInRound) * NSides \in Nat
      BY <2>2, <3>1, <3>2
    <3>4. QED
      BY <2>2, <3>1, <3>3 DEF Index, Total
  <2>4. PlaysOf[Index(TrickNow, 1)] = [side |-> PlayerAt(TrickNow, 1), card |-> Tabled[TrickNow][1]]
    BY <2>2, PlaysAt
  <2>5. Tabled[TrickNow] = table
    BY <2>2 DEF Tabled, TrickNow, InStep, GameTypeOK
  <2>6. Promise!Led = {table[1].col}
    BY <2>1, <2>2, <2>3, <2>4, <2>5, SMTT(30) DEF Promise!Led
  <2>7. table # <<>>
    BY <1>3, EmptyLen
  <2>8. card.col = table[1].col \/ \A c \in hands[nextMove] : c.col # table[1].col
    BY <2>7 DEF mayPlay, isMoveLegal
  <2>9. QED
    BY <1>1, <2>6, <2>8, HoldsHand DEF Promise!Follows
<1>4. QED
  BY <1>2, <1>3

-----------------------------------------------------------------------------
(* A card is played.                                                       *)

PlayOf(card) == [side |-> nextMove, card |-> card]
PlaysWith(card) == Append(PlaysOf, PlayOf(card))
TakenWith(card) == Append(takenInRound, TakenMsg(card))

\* The cards of a trick come from different hands.
LEMMA TrickDistinct ==
    ASSUME InStep, RoundKept, ~GameOver, NEW card \in hands[nextMove], Len(table) + 1 = NSides
    PROVE  Full(card) \in Seq(Card) /\ Len(Full(card)) = NSides /\ Distinct(Full(card))
<1> DEFINE l == LeaderOf(TrickNow)
<1>1. table \in Seq(Card) /\ card \in Card /\ nextMove \in Sides
  BY DEF InStep, GameTypeOK
<1>2. Full(card) \in Seq(Card) /\ Len(Full(card)) = NSides /\ DOMAIN Full(card) = 1 .. NSides
  BY <1>1 DEF Full
<1>3. l \in Sides /\ nextMove = SideAfter(l, NSides - 1)
  <2>1. Len(table) = NSides - 1
    BY <1>1, RulesAssumption
  <2>2. QED
    BY <2>1, LeaderType DEF InStep, RoundKept, InTurn
<1> HIDE DEF l
<1>4. \A t \in Sides : hands[t] \cup PlayedBy(t) = Deal.hands[t]
  BY DEF RoundKept, CardsInOnePlace
<1>5. ASSUME NEW i \in 1 .. NSides
      PROVE  SideAfter(l, i - 1) \in Sides /\ Full(card)[i] \in Deal.hands[SideAfter(l, i - 1)]
  <2>1. SideAfter(l, i - 1) \in Sides
    BY <1>3, RulesAssumption DEF SideAfter, Sides
  <2>2. CASE i = NSides
    <3>1. Full(card)[i] = card
      BY <1>1, <2>2 DEF Full
    <3>2. QED
      BY <1>1, <1>3, <1>4, <2>2, <3>1
  <2>3. CASE i # NSides
    <3>1. i \in DOMAIN table /\ Full(card)[i] = table[i]
      BY <1>1, <2>3, RulesAssumption DEF Full
    <3>2. Tabled[TrickNow] = table /\ TrickNow \in 1 .. TrickNow
      BY TotalType DEF Tabled, TrickNow
    <3>3. <<TrickNow, i>> \in Places
      BY <3>1, <3>2, PlaceIs
    <3>4. SideAt(<<TrickNow, i>>) = SideAfter(l, i - 1) /\ CardAt(<<TrickNow, i>>) = table[i]
      BY <3>2 DEF SideAt, CardAt, PlayerAt, l
    <3>5. table[i] \in PlayedBy(SideAfter(l, i - 1))
      BY <3>3, <3>4, PlayedIs
    <3>6. QED
      BY <1>4, <2>1, <3>1, <3>5
  <2>4. QED
    BY <2>1, <2>2, <2>3
<1>6. \A i, j \in 1 .. NSides : i # j => SideAfter(l, i - 1) # SideAfter(l, j - 1)
  BY <1>3, RulesAssumption DEF SideAfter, Sides
<1>7. ASSUME NEW i \in 1 .. NSides, NEW j \in 1 .. NSides, Full(card)[i] = Full(card)[j], i # j
      PROVE  FALSE
  <2>1. Deal.hands[SideAfter(l, i - 1)] \cap Deal.hands[SideAfter(l, j - 1)] = {}
    BY <1>5, <1>6, <1>7, DealtOnce DEF InStep
  <2>2. QED
    BY <1>5, <1>7, <2>1
<1>8. QED
  BY <1>2, <1>7 DEF Distinct

\* The trick a card completes is settled by its message as the contract
\* settles it.
LEMMA TrickSettled ==
    ASSUME InStep, RoundKept, Promised, ~GameOver, NEW card \in hands[nextMove], Len(table) + 1 = NSides
    PROVE  /\ TakenWith(card) \in Seq(Messages)
           /\ Settled(TakenWith(card), Deal.start)
           /\ Told(PlaysWith(card), TakenWith(card), Deal.start)
           /\ Promise!Tricks(PlaysWith(card)) = DOMAIN TakenWith(card)
           /\ \A s \in Sides : RoundScore(card)[s] = Charged(TakenWith(card), roundMode, s)
           /\ Len(PlaysWith(card)) = TrickNow * NSides
<1> DEFINE n == Len(takenInRound)
           ms == TakenWith(card)
           ps == PlaysWith(card)
           l == LeaderOf(TrickNow)
<1>1. /\ takenInRound \in Seq(Messages) /\ n \in Nat /\ TrickNow = n + 1 /\ table \in Seq(Card)
      /\ card \in Card /\ nextMove \in Sides /\ NSides \in Nat \ {0} /\ Len(table) = NSides - 1
      /\ DOMAIN takenInRound = 1 .. n
  BY RulesAssumption DEF InStep, GameTypeOK, TrickNow
<1>2. TakenMsg(card) \in Messages /\ TakenMsg(card).table = Full(card) /\ TakenMsg(card).taker = Take(card).side
  BY <1>1, TakeType DEF TakenMsg, Taken, InStep
<1>3. /\ ms \in Seq(Messages) /\ DOMAIN ms = 1 .. n + 1 /\ ms[n + 1] = TakenMsg(card)
      /\ \A k \in 1 .. n : ms[k] = takenInRound[k]
  BY <1>1, <1>2 DEF TakenWith
<1>4. /\ l = LeaderIn(ms, Deal.start, n + 1)
      /\ \A k \in 1 .. n : LeaderIn(ms, Deal.start, k) = LeaderIn(takenInRound, Deal.start, k)
  BY <1>1, <1>3 DEF LeaderOf, LeaderIn
<1>5. nxtSide(nextMove) = l
  <2>1. l \in Sides /\ nextMove = SideAfter(l, NSides - 1)
    BY <1>1, LeaderType DEF InStep, RoundKept, InTurn
  <2>2. QED
    BY <2>1, RulesAssumption DEF nxtSide, SideAfter, Sides
<1>6. Take(card).side = SideAfter(l, TakerIx(Full(card)) - 1)
  BY <1>5 DEF Take, whoTakes
<1>7. Settled(ms, Deal.start)
  <2>1. ASSUME NEW k \in 1 .. n
        PROVE  /\ Len(ms[k].table) = NSides /\ Distinct(ms[k].table)
               /\ ms[k].taker = SideAfter(LeaderIn(ms, Deal.start, k), TakerIx(ms[k].table) - 1)
    BY <1>1, <1>3, <1>4 DEF Promised, Settled
  <2>2. /\ Len(ms[n + 1].table) = NSides /\ Distinct(ms[n + 1].table)
        /\ ms[n + 1].taker = SideAfter(LeaderIn(ms, Deal.start, n + 1), TakerIx(ms[n + 1].table) - 1)
    BY <1>2, <1>3, <1>4, <1>6, TrickDistinct
  <2>3. \A k \in DOMAIN ms : k \in 1 .. n \/ k = n + 1
    BY <1>1, <1>3
  <2>4. QED
    BY <2>1, <2>2, <2>3 DEF Settled
<1>8. /\ Len(PlaysOf) = Total /\ Total \in Nat /\ Total + 1 = Index(n + 1, NSides) /\ Total + 1 = TrickNow * NSides
      /\ DOMAIN PlaysOf = 1 .. Total
  <2>1. Len(PlaysOf) = Total /\ Total \in Nat /\ Total = Index(TrickNow, Len(table)) /\ DOMAIN PlaysOf = 1 .. Total
    BY TotalType, PlaysLen, PlaysAre
  <2>2. \A a, b \in Nat : a * b \in Nat /\ (a + 1) * b = a * b + b
    OBVIOUS
  <2>3. n * NSides \in Nat /\ TrickNow * NSides = n * NSides + NSides /\ TrickNow - 1 = n
    BY <1>1, <2>2
  <2>4. QED
    BY <1>1, <2>1, <2>3 DEF Index
<1>9. /\ Len(ps) = Total + 1 /\ ps[Total + 1] = PlayOf(card)
      /\ \A m \in 1 .. Total : ps[m] = PlaysOf[m]
  BY <1>8, LineAppend, PlaysAre DEF PlaysWith
<1> HIDE DEF ms, ps, l
<1>10. Told(ps, ms, Deal.start)
  <2>1. ASSUME NEW k \in 1 .. n, NEW i \in 1 .. NSides
        PROVE  ps[Index(k, i)] = [side |-> SideAfter(LeaderIn(ms, Deal.start, k), i - 1), card |-> ms[k].table[i]]
    <3>1. k \in Nat \ {0} /\ k < TrickNow
      BY <1>1
    <3>2. /\ Index(k, i) \in 1 .. Total
          /\ PlaysOf[Index(k, i)] = [side |-> PlayerAt(k, i), card |-> Tabled[k][i]]
      BY <1>8, <3>1, PlaysAt
    <3>3. Tabled[k] = takenInRound[k].table /\ LeaderOf(k) = LeaderIn(takenInRound, Deal.start, k)
      BY <1>1, <3>1 DEF Tabled, LeaderOf, LeaderIn
    <3>4. QED
      BY <1>3, <1>4, <1>9, <3>2, <3>3 DEF PlayerAt
  <2>2. ASSUME NEW i \in 1 .. NSides
        PROVE  ps[Index(n + 1, i)] = [side |-> SideAfter(l, i - 1), card |-> Full(card)[i]]
    <3>1. CASE i = NSides
      <4>1. Full(card)[NSides] = card
        BY <1>1 DEF Full
      <4>2. SideAfter(l, NSides - 1) = nextMove
        BY <1>1 DEF RoundKept, InTurn, l
      <4>3. QED
        BY <1>8, <1>9, <3>1, <4>1, <4>2 DEF PlayOf
    <3>2. CASE i # NSides
      <4>1. i <= Len(table) /\ Full(card)[i] = table[i]
        BY <1>1, <3>2 DEF Full
      <4>2. /\ Index(TrickNow, i) \in 1 .. Total
            /\ PlaysOf[Index(TrickNow, i)] = [side |-> PlayerAt(TrickNow, i), card |-> Tabled[TrickNow][i]]
        <5>1. TrickNow \in Nat \ {0} /\ TrickNow = TrickNow /\ i <= Len(table)
          BY <1>1, <4>1
        <5>2. QED
          BY <1>8, <5>1, PlaysAt
      <4>3. Tabled[TrickNow] = table
        BY <1>1 DEF Tabled, TrickNow
      <4>4. QED
        BY <1>1, <1>9, <4>1, <4>2, <4>3 DEF PlayerAt, l
    <3>3. QED
      BY <3>1, <3>2
  <2>3. \A k \in DOMAIN ms : k \in 1 .. n \/ k = n + 1
    BY <1>1, <1>3
  <2>4. QED
    BY <1>2, <1>3, <1>4, <2>1, <2>2, <2>3, SMTT(60) DEF Told, Shown, Promise!Trick, Index
<1>11. Promise!Tricks(ps) = DOMAIN ms
  <2>1. \A N \in Nat \ {0} : \A q \in Nat : (q * N) \div N = q
    OBVIOUS
  <2>2. Len(ps) = TrickNow * NSides
    BY <1>8, <1>9
  <2>3. Len(ps) \div NSides = n + 1
    BY <1>1, <2>1, <2>2
  <2>4. QED
    BY <1>3, <2>3 DEF Promise!Tricks
<1>12. ASSUME NEW s \in Sides
       PROVE  RoundScore(card)[s] = Charged(ms, roundMode, s)
  <2>1. roundMode \in RoundTypes /\ penaltiesRound \in [Sides -> Nat]
    BY DEF InStep, GameTypeOK
  <2>2. Take(card).pen = penalty(Full(card), roundMode, n + 1)
    BY <1>1 DEF Take, whoTakes, Promised
  <2>3. RoundScore(card)[s] = penaltiesRound[s] + (IF Take(card).side = s THEN Take(card).pen ELSE 0)
    BY <2>1 DEF RoundScore
  <2>4. Charged(ms, roundMode, s) =
          Charged(takenInRound, roundMode, s)
            + (IF TakenMsg(card).taker = s THEN penalty(TakenMsg(card).table, roundMode, n + 1) ELSE 0)
    BY <1>1, <1>2, <2>1, ChargedNext DEF ms, TakenWith
  <2>5. penaltiesRound[s] = Charged(takenInRound, roundMode, s)
    BY DEF Promised
  <2>6. QED
    BY <1>2, <2>2, <2>3, <2>4, <2>5
<1>13. QED
  BY <1>3, <1>7, <1>8, <1>9, <1>10, <1>11, <1>12 DEF ms, ps

\* A card is the last of the round if it is the last of the last trick.
LEMMA LastCard ==
    ASSUME InStep, Promised, ~GameOver, NEW card \in hands[nextMove]
    PROVE  /\ Len(PlaysWith(card)) = Total + 1
           /\ Total + 1 < NSides * TricksPerRound <=> Len(table) + 1 < NSides \/ trickNo < TricksPerRound
<1>1. Len(PlaysWith(card)) = Total + 1
  BY TotalType, PlaysAre, LineAppend DEF PlaysWith
<1>2. PICK n \in Nat, t \in 0 .. NSides - 1 : n = Len(takenInRound) /\ t = Len(table)
  BY TotalType
<1>3. NSides \in Nat \ {0} /\ TricksPerRound \in Nat \ {0}
  BY RulesAssumption
<1>4. trickNo = n + 1 /\ trickNo <= TricksPerRound
  <2>1. trickNo \in 1 .. TricksPerRound + 1 /\ trickNo # TricksPerRound + 1
    BY DEF InStep, GameTypeOK, CountersAgree
  <2>2. QED
    BY <1>2, <1>3, <2>1 DEF Promised, TrickNow
<1>5. \A a, b \in Nat : a * b \in Nat /\ (a + 1) * b = a * b + b /\ a * b = b * a
  OBVIOUS
<1>6. \A a, b, c \in Nat : a <= b => a * c <= b * c
  OBVIOUS
<1>7. Total = n * NSides + t /\ n * NSides \in Nat /\ (n + 1) * NSides = n * NSides + NSides
  BY <1>2, <1>3, <1>5 DEF Total
<1>8. CASE n + 1 = TricksPerRound
  <2>1. NSides * TricksPerRound = n * NSides + NSides
    BY <1>3, <1>5, <1>7, <1>8
  <2>2. QED
    BY <1>1, <1>2, <1>3, <1>4, <1>7, <1>8, <2>1
<1>9. CASE n + 1 < TricksPerRound
  <2>1. (n + 2) * NSides <= TricksPerRound * NSides
    BY <1>3, <1>6, <1>9
  <2>2. (n + 2) * NSides = n * NSides + NSides + NSides
    <3>1. n + 1 + 1 = n + 2
      OBVIOUS
    <3>2. (n + 1 + 1) * NSides = (n + 1) * NSides + NSides
      BY <1>3, <1>5
    <3>3. QED
      BY <1>7, <3>1, <3>2
  <2>3. TricksPerRound * NSides = NSides * TricksPerRound /\ TricksPerRound * NSides \in Nat
    BY <1>3, <1>5
  <2>4. n * NSides + t + 1 < NSides * TricksPerRound
    BY <1>3, <1>7, <2>1, <2>2, <2>3
  <2>5. QED
    BY <1>1, <1>4, <1>7, <1>9, <2>4
<1>10. QED
  BY <1>3, <1>4, <1>8, <1>9

\* No message charges nobody.
LEMMA NothingCharged == \A mode, s : Charged(<<>>, mode, s) = 0
<1>1. \A s : TakenBy(<<>>, s) = {}
  BY DEF TakenBy
<1>2. QED
  BY <1>1, SumStep, FS_EmptySet DEF Charged

\* The bookkeeping stays with the contract: the first round,
LEMMA InitPromised == GameInit => Promised
<1> SUFFICES ASSUME GameInit
             PROVE  Promised
  OBVIOUS
<1>1. takenInRound = <<>> /\ DOMAIN takenInRound = {} /\ Deal = Scenario[1] /\ TrickNow = 1
  BY ScenarioLength, EmptyLen DEF GameInit, Deal, GameOver, TrickNow
<1>2. \A s \in Sides : penaltiesRound[s] = 0
  BY DEF GameInit, NoPenalty
<1>3. QED
  BY <1>1, <1>2, NothingCharged DEF GameInit, Promised, Settled

\* and every card after it.
LEMMA PromisedNext ==
    ASSUME InStep, RoundKept, Promised, NEW side \in Sides, NEW card \in hands[side], Play(side, card)
    PROVE  Promised'
<1>1. ~GameOver /\ side = nextMove
  BY NobodyPlaysOn
<1>2. CASE addCard(side, card)
  <2>1. Deal' = Deal
    BY <1>1, <1>2, DealStays DEF Grows
  <2>2. QED
    BY <1>1, <1>2, <2>1 DEF addCard, Promised, GameOver, TrickNow
<1>3. CASE closeTrick(side, card)
  <2>1. Deal' = Deal
    BY <1>1, <1>3, DealStays DEF Grows
  <2>2. takenInRound' = TakenWith(card) /\ penaltiesRound' = RoundScore(card) /\ roundMode' = roundMode
        /\ trickNo' = trickNo + 1 /\ (GameOver' <=> GameOver)
    BY <1>3 DEF closeTrick, TakenWith, GameOver
  <2>3. Settled(TakenWith(card), Deal.start)
        /\ \A s \in Sides : RoundScore(card)[s] = Charged(TakenWith(card), roundMode, s)
    BY <1>1, <1>3, TrickSettled DEF closeTrick
  <2>4. TrickNow' = TrickNow + 1
    <3>1. takenInRound \in Seq(Messages) /\ TakenMsg(card) \in Messages
      BY <1>1, <1>3, TakeType DEF closeTrick, InStep, GameTypeOK
    <3>2. QED
      BY <2>2, <3>1 DEF TakenWith, TrickNow
  <2>5. QED
    BY <1>1, <2>1, <2>2, <2>3, <2>4 DEF Promised
<1>4. CASE closeRound(side, card)
  <2>1. takenInRound' = <<>> /\ Deal' \in {Scenario[r] : r \in DOMAIN Scenario} /\ ~GameOver'
    BY <1>4, RoundFresh DEF InStep, Fresh
  <2>2. roundMode' = Deal'.mode /\ trickNo' = 1 /\ penaltiesRound' = NoPenalty
    <3>1. roundNumber' = roundNumber + 1 /\ roundMode' = Scenario[roundNumber + 2].mode /\ roundNumber \in Nat
      BY <1>4 DEF closeRound, settleRound, prepareRound, InStep, GameTypeOK
    <3>2. roundNumber' + 1 = roundNumber + 2 /\ Deal' = Scenario[roundNumber' + 1]
      BY <2>1, <3>1 DEF Deal
    <3>3. QED
      BY <1>4, <3>1, <3>2 DEF closeRound, settleRound, prepareRound
  <2>3. TrickNow' = 1
    BY <2>1, EmptyLen DEF TrickNow
  <2>4. QED
    BY <2>1, <2>2, <2>3, NothingCharged DEF Promised, Settled, NoPenalty
<1>5. CASE closeGame(side, card)
  <2>1. Deal' = Deal
    BY <1>1, <1>5, DealStays DEF Grows
  <2>2. takenInRound' = TakenWith(card) /\ GameOver'
    BY <1>5 DEF closeGame, settleRound, TakenWith, GameOver
  <2>3. Settled(TakenWith(card), Deal.start)
    BY <1>1, <1>5, TrickSettled DEF closeGame
  <2>4. QED
    BY <2>1, <2>2, <2>3 DEF Promised
<1>6. QED
  BY <1>2, <1>3, <1>4, <1>5 DEF Play, playCard

\* A step that changes nothing keeps it too.
LEMMA PromisedUnchanged == Promised /\ UNCHANGED gameVars => Promised'
BY DEF gameVars, Promised, TrickNow, Deal, GameOver

\* In every state of every game.
THEOREM PromisedAlways == GameSpec => []Promised
<1>1. GameInit => Promised
  BY InitPromised
<1>2. InStep /\ RoundKept /\ Promised /\ [GameNext]_gameVars => Promised'
  <2> SUFFICES ASSUME InStep, RoundKept, Promised, [GameNext]_gameVars
               PROVE  Promised'
    OBVIOUS
  <2>1. CASE GameNext
    BY <2>1, PromisedNext DEF GameNext
  <2>2. CASE UNCHANGED gameVars
    BY <2>2, PromisedUnchanged
  <2>3. QED
    BY <2>1, <2>2
<1>3. QED
  BY <1>1, <1>2, StaysInStep, RoundsKept, PTL DEF GameSpec

-----------------------------------------------------------------------------
(* The steps of the contract.                                              *)

\* At the end of a round the totals are what the contract adds up.
LEMMA TotalsAre ==
    ASSUME InStep, RoundKept, Promised, ~GameOver, NEW card \in hands[nextMove], Len(table) + 1 = NSides
    PROVE  [t \in Promise!Sides |->
              penalties[t] + Promise!RoundCost(Scenario[roundNumber + 1].mode, PlaysWith(card), t)]
             = NewTotals(card)
<1>1. Scenario[roundNumber + 1].mode = roundMode /\ roundMode \in RoundTypes
  BY DEF Promised, Deal, InStep, GameTypeOK
<1>2. /\ TakenWith(card) \in Seq(Messages)
      /\ Settled(TakenWith(card), Deal.start)
      /\ Told(PlaysWith(card), TakenWith(card), Deal.start)
      /\ Promise!Tricks(PlaysWith(card)) = DOMAIN TakenWith(card)
      /\ \A s \in Sides : RoundScore(card)[s] = Charged(TakenWith(card), roundMode, s)
  BY TrickSettled
<1>3. \A t \in Sides : Promise!RoundCost(roundMode, PlaysWith(card), t) = RoundScore(card)[t]
  <2> TAKE t \in Sides
  <2>1. Promise!RoundCost(roundMode, PlaysWith(card), t) = Charged(TakenWith(card), roundMode, t)
    BY <1>1, <1>2, RoundCostIs
  <2>2. QED
    BY <1>2, <2>1
<1>4. Promise!Sides = Sides
  BY DEF Promise!Sides, Sides
<1>5. QED
  BY <1>1, <1>3, <1>4 DEF NewTotals

\* Every card the server accepts is a move of the contract.
LEMMA PlaySimulates ==
    ASSUME InStep, RoundKept, Promised, NEW side \in Sides, NEW card \in hands[side], Play(side, card)
    PROVE  Promise!KierkiNext
<1>1. ~GameOver /\ side = nextMove /\ mayPlay(side, card)
  BY NobodyPlaysOn DEF Play
<1>2. roundNumber + 1 <= Len(Scenario)
  <2>1. roundNumber \in 0 .. Len(Scenario) /\ roundNumber # Len(Scenario) /\ Len(Scenario) \in Nat
    BY <1>1, ScenarioLength, ZenonT(60) DEF InStep, GameTypeOK, GameOver
  <2>2. PICK n \in Nat : n = Len(Scenario)
    BY ONLY <2>1, Zenon
  <2>3. roundNumber \in 0 .. n /\ roundNumber # n
    BY ONLY <2>1, <2>2, Zenon
  <2>4. roundNumber + 1 <= n
    BY ONLY <2>3, n \in Nat
  <2>5. QED
    BY ONLY <2>2, <2>4, ZenonT(60)
<1>3. Promise!Turn = nextMove /\ card \in Promise!Holds(nextMove)
  BY <1>1, TurnIs, HoldsHand DEF RoundKept
<1>4. Promise!Follows(nextMove, card)
  BY <1>1, FollowsIs
<1>5. InTurn /\ card \in hands[nextMove]
  BY <1>1 DEF RoundKept
<1> DEFINE more == Len(PlaysWith(card)) < NSides * TricksPerRound
<1>6. more <=> Len(table) + 1 < NSides \/ trickNo < TricksPerRound
  BY <1>1, <1>5, LastCard
<1>7. roundNumber \in Nat /\ TricksPerRound \in Nat /\ NSides \in Nat /\ Len(Scenario) \in Nat
  BY ScenarioLength, RulesAssumption DEF InStep, GameTypeOK
<1> DEFINE moved ==
      IF more
        THEN PlaysOf' = PlaysWith(card) /\ UNCHANGED <<roundNumber + 1, penalties>>
        ELSE /\ (roundNumber + 1)' = roundNumber + 1 + 1
             /\ PlaysOf' = IF roundNumber + 1 = Len(Scenario) THEN PlaysWith(card) ELSE <<>>
             /\ penalties' = [t \in Promise!Sides |->
                  penalties[t] + Promise!RoundCost(Scenario[roundNumber + 1].mode, PlaysWith(card), t)]
<1>8. Grows(side, card) => PlaysOf' = PlaysWith(card)
  BY <1>1, <1>5, PlaysNext DEF PlaysWith, PlayOf
<1> HIDE DEF more
<1>9. ASSUME addCard(side, card)
      PROVE  moved
  BY <1>6, <1>7, <1>8, <1>9 DEF addCard, Grows
<1>10. ASSUME closeTrick(side, card)
       PROVE  moved
  BY <1>6, <1>7, <1>8, <1>10 DEF closeTrick, Grows
<1>11. ASSUME closeRound(side, card)
       PROVE  moved
  <2>1. ~more /\ roundNumber' = roundNumber + 1 /\ roundNumber + 1 # Len(Scenario) /\ penalties' = NewTotals(card)
    BY <1>6, <1>7, <1>11 DEF closeRound, settleRound
  <2>2. Total' = 0
    <3>1. takenInRound' = <<>> /\ table' = <<>>
      BY <1>11, RoundFresh DEF Fresh, InStep
    <3>2. 0 * NSides + 0 = 0
      BY <1>7
    <3>3. QED
      BY <3>1, <3>2, EmptyLen DEF Total
  <2>3. PlaysOf' = <<>>
    <3>1. PlaysOf' = [m \in 1 .. Total' |-> [side |-> SideAt(Spot(m))', card |-> CardAt(Spot(m))']]
      BY DEF PlaysOf, Total, SideAt, CardAt, Spot, TrickAt, PlaceAt
    <3>2. QED
      BY <2>2, <3>1
  <2>4. QED
    BY <1>1, <1>5, <1>7, <1>11, <2>1, <2>3, TotalsAre DEF closeRound
<1>12. ASSUME closeGame(side, card)
       PROVE  moved
  <2>1. ~more /\ roundNumber' = roundNumber + 1 /\ roundNumber + 1 = Len(Scenario) /\ penalties' = NewTotals(card)
    BY <1>6, <1>7, <1>12 DEF closeGame, settleRound
  <2>2. QED
    BY <1>1, <1>5, <1>7, <1>8, <1>12, <2>1, TotalsAre DEF closeGame, Grows
<1>13. moved
  BY <1>9, <1>10, <1>11, <1>12 DEF Play, playCard
<1>14. Promise!PlayOne(nextMove, card)
  BY <1>4, <1>13 DEF Promise!PlayOne, PlaysWith, PlayOf, more
<1>15. QED
  BY <1>2, <1>3, <1>14 DEF Promise!KierkiNext

\* The game the server keeps is the game the players were promised: the
\* plays, the turns, the takers and the points of every round, for any
\* scenario and any number of sides.
THEOREM GameImplementsKierki == GameSpec => ImplementsKierki
<1>1. GameInit => Promise!KierkiInit
  <2> SUFFICES ASSUME GameInit
               PROVE  Promise!KierkiInit
    OBVIOUS
  <2>1. PlaysOf = <<>>
    BY InitInStep, PlaysLen, TotalType, EmptyLen, RulesAssumption DEF GameInit, Total
  <2>2. QED
    BY <2>1 DEF Promise!KierkiInit, GameInit, NoPenalty, Sides, Promise!Sides
<1>2. InStep /\ RoundKept /\ Promised /\ [GameNext]_gameVars => [Promise!KierkiNext]_(Promise!kierkiVars)
  <2> SUFFICES ASSUME InStep, RoundKept, Promised, [GameNext]_gameVars
               PROVE  [Promise!KierkiNext]_(Promise!kierkiVars)
    OBVIOUS
  <2>1. CASE GameNext
    BY <2>1, PlaySimulates DEF GameNext
  <2>2. CASE UNCHANGED gameVars
    BY <2>2 DEF gameVars, Promise!kierkiVars, PlaysOf, PlayerAt, LeaderOf, Tabled, Deal, GameOver
  <2>3. QED
    BY <2>1, <2>2
<1>3. QED
  BY <1>1, <1>2, StaysInStep, RoundsKept, PromisedAlways, PTL DEF GameSpec, ImplementsKierki, Promise!KierkiSpec

-----------------------------------------------------------------------------
(* The ledger: what the sides are charged in all.                          *)

\* What is added value by value is added to the sum.
LEMMA SumPlus ==
    ASSUME NEW S, IsFiniteSet(S), NEW f, NEW g, NEW h,
           \A x \in S : f[x] \in Nat /\ g[x] \in Nat /\ h[x] = f[x] + g[x]
    PROVE  SumFunctionOnSet(h, S) = SumFunctionOnSet(f, S) + SumFunctionOnSet(g, S)
<1> DEFINE B == {T \in SUBSET S : SumFunctionOnSet(h, T) # SumFunctionOnSet(f, T) + SumFunctionOnSet(g, T)}
<1> SUFFICES ASSUME B # {}
             PROVE  FALSE
  OBVIOUS
<1>1. PICK T \in B : \A x \in T : T \ {x} \notin B
  BY Smallest
<1> DEFINE R == T \ {First(T)}
<1>2. /\ SumFunctionOnSet(f, T) = IF T = {} THEN 0 ELSE f[First(T)] + SumFunctionOnSet(f, R)
      /\ SumFunctionOnSet(g, T) = IF T = {} THEN 0 ELSE g[First(T)] + SumFunctionOnSet(g, R)
      /\ SumFunctionOnSet(h, T) = IF T = {} THEN 0 ELSE h[First(T)] + SumFunctionOnSet(h, R)
  BY FS_Subset, SumStep
<1>3. T # {} /\ First(T) \in T
  BY <1>1, <1>2 DEF First
<1>4. SumFunctionOnSet(h, R) = SumFunctionOnSet(f, R) + SumFunctionOnSet(g, R)
  BY <1>1, <1>3
<1>5. SumFunctionOnSet(f, R) \in Nat /\ SumFunctionOnSet(g, R) \in Nat
  <2>1. IsFiniteSet(R) /\ \A x \in R : f[x] \in Nat /\ g[x] \in Nat
    BY FS_Subset
  <2>2. QED
    BY <2>1, SumType
<1>6. f[First(T)] \in Nat /\ g[First(T)] \in Nat /\ h[First(T)] = f[First(T)] + g[First(T)]
  BY <1>3
<1> HIDE DEF R
<1>7. \A a, b, c, d \in Nat : (a + b) + (c + d) = (a + c) + (b + d)
  OBVIOUS
<1>8. QED
  BY <1>1, <1>2, <1>3, <1>4, <1>5, <1>6, <1>7

\* A sum of nothing is nothing.
LEMMA SumZero ==
    ASSUME NEW S, IsFiniteSet(S), NEW f, \A x \in S : f[x] = 0
    PROVE  SumFunctionOnSet(f, S) = 0
<1>1. SumFunctionOnSet(f, S) = SumFunctionOnSet(f, S) + SumFunctionOnSet(f, S)
  BY SumPlus
<1>2. SumFunctionOnSet(f, S) \in Nat
  BY SumType
<1>3. \A n \in Nat : n = n + n => n = 0
  OBVIOUS
<1>4. PICK n \in Nat : n = SumFunctionOnSet(f, S)
  BY ONLY <1>2
<1>5. n = n + n
  BY ONLY <1>1, <1>4
<1>6. n = 0
  BY ONLY <1>3, <1>5, n \in Nat
<1>7. QED
  BY ONLY <1>4, <1>6

\* One value more for one element.
LEMMA SumExcept ==
    ASSUME NEW S, IsFiniteSet(S), NEW f \in [S -> Nat], NEW s \in S, NEW v \in Nat
    PROVE  SumFunctionOnSet([f EXCEPT ![s] = @ + v], S) = SumFunctionOnSet(f, S) + v
<1> DEFINE g == [f EXCEPT ![s] = @ + v]
           R == S \ {s}
<1>1. g \in [S -> Nat] /\ g[s] = f[s] + v /\ \A x \in R : g[x] = f[x]
  OBVIOUS
<1>2. IsFiniteSet(R) /\ R \in SUBSET S
  BY FS_Subset
<1>3. SumFunctionOnSet(f, S) = f[s] + SumFunctionOnSet(f, R)
  BY SumRemove
<1> HIDE DEF g
<1>4. SumFunctionOnSet(g, S) = g[s] + SumFunctionOnSet(g, R)
  BY <1>1, SumRemove
<1>5. SumFunctionOnSet(g, R) = SumFunctionOnSet(f, R) /\ SumFunctionOnSet(f, R) \in Nat
  BY <1>1, <1>2, SumSame, SumType
<1>6. f[s] \in Nat
  OBVIOUS
<1>7. SumFunctionOnSet(g, S) = SumFunctionOnSet(f, S) + v
  BY <1>1, <1>3, <1>4, <1>5, <1>6
<1>8. QED
  BY <1>7 DEF g

\* The union of the hands is finite.
LEMMA AllFinite ==
    ASSUME NEW S, IsFiniteSet(S), NEW h, \A s \in S : IsFiniteSet(h[s])
    PROVE  IsFiniteSet(UNION {h[s] : s \in S})
<1> DEFINE B == {T \in SUBSET S : ~IsFiniteSet(UNION {h[s] : s \in T})}
<1> SUFFICES ASSUME B # {}
             PROVE  FALSE
  OBVIOUS
<1>1. PICK T \in B : \A x \in T : T \ {x} \notin B
  BY Smallest
<1>2. CASE T = {}
  <2>1. UNION {h[s] : s \in T} = {}
    BY <1>2
  <2>2. QED
    BY <1>1, <2>1, FS_EmptySet
<1>3. CASE T # {}
  <2>1. PICK x : x \in T
    BY <1>3
  <2>2. UNION {h[s] : s \in T} = h[x] \cup UNION {h[s] : s \in T \ {x}}
    BY <2>1
  <2>3. IsFiniteSet(h[x]) /\ IsFiniteSet(UNION {h[s] : s \in T \ {x}})
    BY <1>1, <2>1
  <2> DEFINE U == UNION {h[s] : s \in T \ {x}}
  <2>4. IsFiniteSet(h[x] \cup U)
    <3> HIDE DEF U
    <3>1. QED
      BY <2>3, FS_Union DEF U
  <2>5. ~IsFiniteSet(UNION {h[s] : s \in T})
    BY <1>1
  <2>6. QED
    BY ONLY <2>2, <2>4, <2>5
<1>4. QED
  BY <1>2, <1>3

CardsOf(tab) == {tab[i] : i \in DOMAIN tab}

\* Counting the places of a table is counting its cards, if they differ.
LEMMA OnTableIs ==
    ASSUME NEW tab \in Seq(Card), Distinct(tab), NEW cards
    PROVE  /\ OnTable(tab, cards) = Cardinality(CardsOf(tab) \cap cards)
           /\ IsFiniteSet(CardsOf(tab))
<1> DEFINE hits(D) == {tab[i] : i \in D} \cap cards
           B == {D \in SUBSET DOMAIN tab : ~(/\ Count(tab, D, cards) = Cardinality(hits(D))
                                             /\ IsFiniteSet({tab[i] : i \in D}))}
<1>1. IsFiniteSet(DOMAIN tab)
  <2>1. DOMAIN tab = 1 .. Len(tab) /\ Len(tab) \in Nat
    OBVIOUS
  <2>2. QED
    BY <2>1, FS_Interval
<1>2. B = {}
  <2> SUFFICES ASSUME B # {}
               PROVE  FALSE
    OBVIOUS
  <2>1. PICK D \in B : \A x \in D : D \ {x} \notin B
    BY <1>1, Smallest
  <2>2. D \in SUBSET DOMAIN tab /\ IsFiniteSet(D)
    BY <1>1, FS_Subset
  <2>3. CASE D = {}
    <3>1. {tab[i] : i \in D} = {} /\ hits(D) = {} /\ {i \in D : tab[i] \in cards} = {}
      BY <2>3
    <3>2. QED
      BY <2>1, <3>1, FS_EmptySet DEF Count
  <2>4. CASE D # {}
    <3>1. PICK x \in D : TRUE
      BY <2>4
    <3> DEFINE R == D \ {x}
    <3>2. Count(tab, R, cards) = Cardinality(hits(R)) /\ IsFiniteSet({tab[i] : i \in R})
      BY <2>1, <2>2, <3>1
    <3>3. {tab[i] : i \in D} = {tab[i] : i \in R} \cup {tab[x]}
      BY <3>1
    <3>4. tab[x] \notin {tab[i] : i \in R}
      BY <2>2, <3>1 DEF Distinct
    <3>5. hits(D) = IF tab[x] \in cards THEN hits(R) \cup {tab[x]} ELSE hits(R)
      BY <3>3
    <3>6. IsFiniteSet(hits(R)) /\ tab[x] \notin hits(R)
      BY <3>2, <3>4, FS_Subset
    <3>7. Cardinality(hits(D)) = Cardinality(hits(R)) + IF tab[x] \in cards THEN 1 ELSE 0
      <4>1. Cardinality(hits(R) \cup {tab[x]}) = Cardinality(hits(R)) + 1 /\ Cardinality(hits(R)) \in Nat
        BY <3>6, FS_AddElement, FS_CardinalityType
      <4> HIDE DEF hits
      <4>2. QED
        BY <3>5, <4>1
    <3>8. Count(tab, D, cards) = Count(tab, R, cards) + IF tab[x] \in cards THEN 1 ELSE 0
      BY <2>2, <3>1, CountStep
    <3>9. IsFiniteSet({tab[i] : i \in D})
      <4>1. \A U : IsFiniteSet(U) => IsFiniteSet(U \cup {tab[x]})
        BY FS_AddElement
      <4>2. IsFiniteSet({tab[i] : i \in R} \cup {tab[x]})
        BY ONLY <3>2, <4>1
      <4>3. QED
        BY ONLY <3>3, <4>2
    <3> HIDE DEF hits
    <3>10. Count(tab, D, cards) = Cardinality(hits(D))
      BY <3>2, <3>7, <3>8
    <3>11. QED
      BY <2>1, <3>9, <3>10 DEF hits
  <2>5. QED
    BY <2>3, <2>4
<1>3. Count(tab, DOMAIN tab, cards) = Cardinality(hits(DOMAIN tab)) /\ IsFiniteSet({tab[i] : i \in DOMAIN tab})
  BY <1>2
<1>4. QED
  BY <1>3 DEF Count, OnTable, CardsOf

\* Cards and tricks have a worth,
LEMMA WorthType ==
    ASSUME NEW mode \in RoundTypes, NEW cards, IsFiniteSet(cards), NEW tricks \in SUBSET Nat, IsFiniteSet(tricks)
    PROVE  /\ Worth(mode, cards, tricks) \in Nat
           /\ \A set : Cardinality(cards \cap set) \in Nat
           /\ SumFunction([k \in tricks |-> lateTrick(k)]) \in Nat
           /\ Cardinality(tricks) \in Nat
<1>1. \A set : Cardinality(cards \cap set) \in Nat
  BY FS_Subset, FS_CardinalityType
<1>2. SumFunction([k \in tricks |-> lateTrick(k)]) \in Nat
  <2> DEFINE f == [k \in tricks |-> lateTrick(k)]
  <2>1. \A k \in tricks : f[k] \in Nat
    BY DEF lateTrick
  <2>2. DOMAIN f = tricks
    OBVIOUS
  <2> HIDE DEF f
  <2>3. SumFunctionOnSet(f, tricks) \in Nat
    BY <2>1, SumType
  <2>4. QED
    BY <2>2, <2>3 DEF SumFunction, f
<1>3. Cardinality(tricks) \in Nat
  BY FS_CardinalityType
<1>4. Worth(mode, cards, tricks) \in Nat
  <2>1. PICK n \in Nat, h \in Nat, q \in Nat, j \in Nat, r \in Nat, l \in Nat :
          /\ n = Cardinality(tricks) /\ h = Cardinality(cards \cap Hearts) /\ q = Cardinality(cards \cap Queens)
          /\ j = Cardinality(cards \cap KingsJacks) /\ r = Cardinality(cards \cap HeartKing)
          /\ l = SumFunction([k \in tricks |-> lateTrick(k)])
    BY <1>1, <1>2, <1>3
  <2>2. Worth(mode, cards, tricks) = <<n, h, 5 * q, 2 * j, 18 * r, l, n + l + h + 5 * q + 2 * j + 18 * r>>[mode]
    BY <2>1 DEF Worth
  <2>3. QED
    BY <2>2 DEF RoundTypes
<1>5. QED
  BY <1>1, <1>2, <1>3, <1>4

\* nothing is worth nothing,
LEMMA NothingIsWorth ==
    ASSUME NEW mode \in RoundTypes
    PROVE  Worth(mode, {}, {}) = 0
<1>1. \A set : Cardinality({} \cap set) = 0
  BY FS_EmptySet
<1>2. Cardinality({}) = 0 /\ SumFunction([k \in {} |-> lateTrick(k)]) = 0
  BY FS_EmptySet, SumStep DEF SumFunction
<1>3. QED
  BY <1>1, <1>2 DEF Worth, RoundTypes

\* and a trick is worth its penalty, whoever takes it.
LEMMA WorthSplit ==
    ASSUME NEW mode \in RoundTypes, NEW cards, IsFiniteSet(cards), NEW tricks \in SUBSET Nat, IsFiniteSet(tricks),
           NEW tab \in Seq(Card), Distinct(tab), CardsOf(tab) \subseteq cards, NEW k \in tricks
    PROVE  Worth(mode, cards, tricks) = Worth(mode, cards \ CardsOf(tab), tricks \ {k}) + penalty(tab, mode, k)
<1> DEFINE more(set) == Cardinality(cards \cap set)
           less(set) == Cardinality((cards \ CardsOf(tab)) \cap set)
           lateAll == SumFunction([j \in tricks |-> lateTrick(j)])
           lateRest == SumFunction([j \in tricks \ {k} |-> lateTrick(j)])
<1>1. \A set : more(set) = less(set) + OnTable(tab, set) /\ less(set) \in Nat /\ OnTable(tab, set) \in Nat
  <2> TAKE set
  <2>1. OnTable(tab, set) = Cardinality(CardsOf(tab) \cap set) /\ IsFiniteSet(CardsOf(tab))
    BY OnTableIs
  <2> DEFINE P == (cards \ CardsOf(tab)) \cap set
             Q == CardsOf(tab) \cap set
  <2>2. cards \cap set = P \cup Q /\ P \cap Q = {}
    OBVIOUS
  <2>3. IsFiniteSet(P) /\ IsFiniteSet(Q)
    BY <2>1, FS_Subset
  <2>4. Cardinality(P) \in Nat /\ Cardinality(Q) \in Nat /\ Cardinality(P \cap Q) = 0
    BY <2>2, <2>3, FS_CardinalityType, FS_EmptySet
  <2> HIDE DEF P, Q
  <2>5. Cardinality(P \cup Q) = Cardinality(P) + Cardinality(Q)
    <3>1. Cardinality(P \cup Q) = Cardinality(P) + Cardinality(Q) - Cardinality(P \cap Q)
      BY <2>3, FS_Union
    <3>2. QED
      BY <2>4, <3>1
  <2>6. more(set) = Cardinality(P \cup Q) /\ less(set) = Cardinality(P) /\ OnTable(tab, set) = Cardinality(Q)
    BY <2>1, <2>2 DEF P, Q
  <2>7. QED
    BY <2>4, <2>5, <2>6
<1>2. lateAll = lateRest + lateTrick(k) /\ lateRest \in Nat /\ lateTrick(k) \in Nat
  <2> DEFINE f == [j \in tricks |-> lateTrick(j)]
             g == [j \in tricks \ {k} |-> lateTrick(j)]
  <2>1. /\ \A j \in tricks : f[j] \in Nat
        /\ \A j \in tricks \ {k} : f[j] = g[j] /\ g[j] \in Nat
        /\ f[k] = lateTrick(k) /\ DOMAIN f = tricks /\ DOMAIN g = tricks \ {k}
    BY DEF lateTrick
  <2>2. IsFiniteSet(tricks \ {k})
    BY FS_Subset
  <2> HIDE DEF f, g
  <2>3. SumFunctionOnSet(f, tricks) = f[k] + SumFunctionOnSet(f, tricks \ {k})
    BY <2>1, SumRemove
  <2>4. SumFunctionOnSet(f, tricks \ {k}) = SumFunctionOnSet(g, tricks \ {k})
    BY <2>1, <2>2, SumSame
  <2>5. SumFunctionOnSet(g, tricks \ {k}) \in Nat
    BY <2>1, <2>2, SumType
  <2>6. lateAll = SumFunctionOnSet(f, tricks) /\ lateRest = SumFunctionOnSet(g, tricks \ {k})
    BY <2>1 DEF f, g, SumFunction
  <2>7. f[k] \in Nat
    BY <2>1
  <2>8. QED
    BY <2>1, <2>3, <2>4, <2>5, <2>6, <2>7
<1>3. Cardinality(tricks) = Cardinality(tricks \ {k}) + 1 /\ Cardinality(tricks \ {k}) \in Nat
  <2>1. Cardinality(tricks \ {k}) = Cardinality(tricks) - 1 /\ IsFiniteSet(tricks \ {k})
    BY FS_RemoveElement
  <2>2. Cardinality(tricks) \in Nat /\ Cardinality(tricks \ {k}) \in Nat
    BY <2>1, FS_CardinalityType
  <2>3. QED
    BY <2>1, <2>2
<1> DEFINE worth(n, h, q, j, r, l) == <<n, h, 5 * q, 2 * j, 18 * r, l, n + l + h + 5 * q + 2 * j + 18 * r>>[mode]
<1>4. Worth(mode, cards, tricks) =
        worth(Cardinality(tricks), more(Hearts), more(Queens), more(KingsJacks), more(HeartKing), lateAll)
  BY DEF Worth
<1>5. Worth(mode, cards \ CardsOf(tab), tricks \ {k}) =
        worth(Cardinality(tricks \ {k}), less(Hearts), less(Queens), less(KingsJacks), less(HeartKing), lateRest)
  BY DEF Worth
<1>6. penalty(tab, mode, k) =
        worth(1, OnTable(tab, Hearts), OnTable(tab, Queens), OnTable(tab, KingsJacks), OnTable(tab, HeartKing),
              lateTrick(k))
  BY DEF penalty
<1>7. PICK n \in Nat, h \in Nat, q \in Nat, j \in Nat, r \in Nat, l \in Nat :
        /\ n = Cardinality(tricks \ {k}) /\ h = less(Hearts) /\ q = less(Queens)
        /\ j = less(KingsJacks) /\ r = less(HeartKing) /\ l = lateRest
  BY <1>1, <1>2, <1>3
<1>8. PICK h1 \in Nat, q1 \in Nat, j1 \in Nat, r1 \in Nat, l1 \in Nat :
        /\ h1 = OnTable(tab, Hearts) /\ q1 = OnTable(tab, Queens)
        /\ j1 = OnTable(tab, KingsJacks) /\ r1 = OnTable(tab, HeartKing) /\ l1 = lateTrick(k)
  BY <1>1, <1>2
<1>9. /\ Cardinality(tricks) = n + 1 /\ more(Hearts) = h + h1 /\ more(Queens) = q + q1
      /\ more(KingsJacks) = j + j1 /\ more(HeartKing) = r + r1 /\ lateAll = l + l1
  BY <1>1, <1>2, <1>3, <1>7, <1>8
<1> HIDE DEF more, less, lateAll, lateRest
<1>10. worth(n + 1, h + h1, q + q1, j + j1, r + r1, l + l1) = worth(n, h, q, j, r, l) + worth(1, h1, q1, j1, r1, l1)
  <2>1. CASE mode = 1
    BY <2>1
  <2>2. CASE mode = 2
    BY <2>2
  <2>3. CASE mode = 3
    BY <2>3
  <2>4. CASE mode = 4
    BY <2>4
  <2>5. CASE mode = 5
    BY <2>5
  <2>6. CASE mode = 6
    BY <2>6
  <2>7. CASE mode = 7
    BY <2>7
  <2>8. QED
    BY <2>1, <2>2, <2>3, <2>4, <2>5, <2>6, <2>7 DEF RoundTypes
<1> HIDE DEF worth
<1>11. QED
  BY <1>4, <1>5, <1>6, <1>7, <1>8, <1>9, <1>10

\* So has a round.
LEMMA RoundWorthType == ASSUME NEW r \in DOMAIN Scenario PROVE RoundWorth(r) \in Nat
<1>1. Scenario[r].mode \in RoundTypes /\ \A s \in Sides : IsFiniteSet(Scenario[r].hands[s])
  BY RoundType, ScenarioAssumption
<1>2. IsFiniteSet(Sides)
  BY FS_Interval, RulesAssumption DEF Sides
<1> DEFINE h == [s \in Sides |-> Scenario[r].hands[s]]
<1>3. IsFiniteSet(UNION {h[s] : s \in Sides})
  <2>1. \A s \in Sides : IsFiniteSet(h[s])
    BY <1>1
  <2> HIDE DEF h
  <2>2. QED
    BY <1>2, <2>1, AllFinite
<1>4. UNION {h[s] : s \in Sides} = UNION {Scenario[r].hands[s] : s \in Sides}
  OBVIOUS
<1>5. IsFiniteSet(1 .. TricksPerRound) /\ 1 .. TricksPerRound \in SUBSET Nat
  BY FS_Interval, RulesAssumption
<1>6. QED
  BY <1>1, <1>3, <1>4, <1>5, WorthType DEF RoundWorth

\* The cards on the table are in no hand.
LEMMA TableNotHeld ==
    ASSUME InStep, RoundKept, NEW i \in DOMAIN table, NEW s \in Sides
    PROVE  table[i] \notin hands[s]
<1>1. Tabled[TrickNow] = table /\ TrickNow \in 1 .. TrickNow
  BY TotalType DEF Tabled, TrickNow
<1>2. <<TrickNow, i>> \in Places
  BY <1>1, PlaceIs
<1>3. PICK t \in Sides : t = SideAt(<<TrickNow, i>>)
  BY <1>2 DEF RoundKept
<1>4. CardAt(<<TrickNow, i>>) = table[i]
  BY <1>1 DEF CardAt
<1>5. table[i] \in PlayedBy(t)
  BY <1>2, <1>3, <1>4, PlayedIs
<1>6. \A u \in Sides : hands[u] \cap PlayedBy(u) = {} /\ hands[u] \cup PlayedBy(u) = Deal.hands[u]
  BY DEF RoundKept, CardsInOnePlace
<1>7. s # t => Deal.hands[s] \cap Deal.hands[t] = {}
  BY DealtOnce DEF InStep
<1>8. QED
  BY <1>5, <1>6, <1>7

\* What is left in the hands once a card is played.
HandsLeft(card) == UNION {HandsWithout(nextMove, card)[s] : s \in Sides}

\* A full table takes its cards out of those still to be paid for.
LEMMA TrickPaid ==
    ASSUME InStep, RoundKept, ~GameOver, NEW card \in hands[nextMove], Len(table) + 1 = NSides
    PROVE  /\ IsFiniteSet(Unplayed) /\ CardsOf(Full(card)) \subseteq Unplayed
           /\ HandsLeft(card) = Unplayed \ CardsOf(Full(card))
           /\ trickNo = TricksPerRound => HandsLeft(card) = {}
<1>1. nextMove \in Sides /\ table \in Seq(Card) /\ card \in Card /\ hands \in [Sides -> SUBSET Card]
  BY DEF InStep, GameTypeOK
<1>2. CardsOf(Full(card)) = {table[i] : i \in DOMAIN table} \cup {card}
  <2>1. /\ DOMAIN Full(card) = DOMAIN table \cup {Len(table) + 1}
        /\ Full(card)[Len(table) + 1] = card /\ \A i \in DOMAIN table : Full(card)[i] = table[i]
    BY <1>1 DEF Full
  <2>2. QED
    BY <2>1 DEF CardsOf
<1>3. \A s \in Sides : HandsWithout(nextMove, card)[s] = hands[s] \ (IF s = nextMove THEN {card} ELSE {})
  BY <1>1 DEF HandsWithout
<1>4. \A s \in Sides \ {nextMove} : card \notin hands[s]
  <2> TAKE s \in Sides \ {nextMove}
  <2>1. Deal.hands[s] \cap Deal.hands[nextMove] = {}
    BY <1>1, DealtOnce DEF InStep
  <2>2. QED
    BY <1>1, <2>1 DEF RoundKept, CardsInOnePlace
<1>5. HandsLeft(card) = Unplayed \ CardsOf(Full(card))
  <2> SUFFICES ASSUME NEW c
               PROVE  c \in HandsLeft(card) <=> c \in Unplayed /\ c \notin CardsOf(Full(card))
    OBVIOUS
  <2>1. c \in HandsLeft(card) <=> \E s \in Sides : c \in HandsWithout(nextMove, card)[s]
    BY DEF HandsLeft
  <2>2. \A s \in Sides : c \in HandsWithout(nextMove, card)[s] <=> c \in hands[s] /\ c # card
    BY <1>1, <1>3, <1>4
  <2>3. c \in Unplayed <=> (\E s \in Sides : c \in hands[s]) \/ \E i \in DOMAIN table : c = table[i]
    BY DEF Unplayed
  <2>4. c \in CardsOf(Full(card)) <=> c = card \/ \E i \in DOMAIN table : c = table[i]
    BY <1>2
  <2>5. \A s \in Sides : c \in hands[s] => ~\E i \in DOMAIN table : c = table[i]
    BY TableNotHeld
  <2>6. QED
    BY <2>1, <2>2, <2>3, <2>4, <2>5
<1>6. CardsOf(Full(card)) \subseteq Unplayed
  <2>1. card \in Unplayed
    BY <1>1 DEF Unplayed
  <2>2. \A i \in DOMAIN table : table[i] \in Unplayed
    BY DEF Unplayed
  <2>3. QED
    BY <1>2, <2>1, <2>2
<1>7. IsFiniteSet(Unplayed)
  <2>1. IsFiniteSet(UNION {hands[s] : s \in Sides})
    <3>1. IsFiniteSet(Sides)
      BY FS_Interval, RulesAssumption DEF Sides
    <3>2. \A s \in Sides : IsFiniteSet(hands[s])
      BY DEF InStep, HandsInStep
    <3>3. QED
      BY <3>1, <3>2, AllFinite
  <2>2. IsFiniteSet(CardsOf(Full(card)))
    BY TrickDistinct, OnTableIs
  <2>3. IsFiniteSet({table[i] : i \in DOMAIN table})
    BY <1>2, <2>2, FS_Subset
  <2> DEFINE P == UNION {hands[s] : s \in Sides}
             Q == {table[i] : i \in DOMAIN table}
  <2>4. IsFiniteSet(P \cup Q)
    <3>1. IsFiniteSet(P) /\ IsFiniteSet(Q)
      BY <2>1, <2>3
    <3> HIDE DEF P, Q
    <3>2. QED
      BY <3>1, FS_Union
  <2>5. Unplayed = P \cup Q
    BY DEF Unplayed
  <2>6. QED
    BY ONLY <2>4, <2>5
<1>8. ASSUME trickNo = TricksPerRound, NEW s \in Sides
      PROVE  HandsWithout(nextMove, card)[s] = {}
  <2>1. Ago(s) \in 1 .. NSides /\ (Ago(s) = NSides <=> s = nextMove)
    BY <1>1, AgoType
  <2>2. HasPlayed(s) <=> s # nextMove
    BY <2>1, RulesAssumption DEF HasPlayed
  <2>3. IsFiniteSet(hands[s]) /\ Cardinality(hands[s]) = IF s = nextMove THEN 1 ELSE 0
    BY <1>8, <2>2, RulesAssumption DEF InStep, HandsInStep
  <2>4. CASE s = nextMove
    <3>1. PICK x : hands[s] = {x}
      BY <2>3, <2>4, FS_Singleton
    <3>2. QED
      BY <1>3, <2>4, <3>1
  <2>5. CASE s # nextMove
    BY <1>3, <2>3, <2>5, FS_EmptySet
  <2>6. QED
    BY <2>4, <2>5
<1>9. trickNo = TricksPerRound => HandsLeft(card) = {}
  BY <1>8 DEF HandsLeft
<1>10. QED
  BY <1>5, <1>6, <1>7, <1>9

\* And what it costs moves from what is still to be paid to what is charged.
LEMMA TrickCharged ==
    ASSUME InStep, RoundKept, LedgerBalances, ~GameOver, NEW card \in hands[nextMove], Len(table) + 1 = NSides
    PROVE  /\ RoundScore(card) \in [Sides -> Nat] /\ SumFunction(RoundScore(card)) \in Nat
           /\ SumFunction(RoundScore(card)) + Worth(roundMode, HandsLeft(card), trickNo + 1 .. TricksPerRound)
                = RoundWorth(roundNumber + 1)
<1> DEFINE tricks == trickNo .. TricksPerRound
           pen == penalty(Full(card), roundMode, trickNo)
<1>1. /\ roundMode \in RoundTypes /\ penaltiesRound \in [Sides -> Nat] /\ trickNo \in 1 .. TricksPerRound
      /\ TricksPerRound \in Nat \ {0}
  BY RulesAssumption DEF InStep, GameTypeOK, CountersAgree
<1>2. IsFiniteSet(Sides)
  BY FS_Interval, RulesAssumption DEF Sides
<1>3. /\ tricks \in SUBSET Nat /\ IsFiniteSet(tricks) /\ trickNo \in tricks
      /\ tricks \ {trickNo} = trickNo + 1 .. TricksPerRound
  <2>1. tricks \in SUBSET Nat /\ trickNo \in tricks /\ tricks \ {trickNo} = trickNo + 1 .. TricksPerRound
    BY <1>1
  <2>2. IsFiniteSet(tricks)
    BY <1>1, FS_Interval
  <2>3. QED
    BY <2>1, <2>2
<1>4. Full(card) \in Seq(Card) /\ Distinct(Full(card))
  BY TrickDistinct
<1>5. pen \in Nat
  BY <1>1, <1>4, PenaltyType
<1>6. Worth(roundMode, Unplayed, tricks)
        = Worth(roundMode, HandsLeft(card), trickNo + 1 .. TricksPerRound) + pen
  <2> HIDE DEF tricks
  <2>1. /\ IsFiniteSet(Unplayed) /\ CardsOf(Full(card)) \subseteq Unplayed
        /\ HandsLeft(card) = Unplayed \ CardsOf(Full(card))
    BY TrickPaid
  <2>2. Worth(roundMode, Unplayed, tricks)
          = Worth(roundMode, Unplayed \ CardsOf(Full(card)), tricks \ {trickNo}) + pen
    BY <1>1, <1>3, <1>4, <2>1, WorthSplit
  <2>3. QED
    BY <1>3, <2>1, <2>2
<1>7. Worth(roundMode, HandsLeft(card), trickNo + 1 .. TricksPerRound) \in Nat
  <2>1. IsFiniteSet(HandsLeft(card))
    BY TrickPaid, FS_Subset
  <2>2. trickNo + 1 .. TricksPerRound \in SUBSET Nat /\ IsFiniteSet(trickNo + 1 .. TricksPerRound)
    BY <1>1, FS_Interval
  <2>3. QED
    BY <1>1, <2>1, <2>2, WorthType
<1>8. Take(card).side \in Sides /\ Take(card).pen = pen
  <2>1. Take(card).side \in Sides
    <3>1. card \in Card
      BY DEF InStep, GameTypeOK
    <3>2. QED
      BY <3>1, TakeType DEF InStep
  <2>2. Take(card).pen = pen
    BY DEF Take, whoTakes
  <2>3. QED
    BY <2>1, <2>2
<1> HIDE DEF pen, tricks
<1>9. RoundScore(card) = [penaltiesRound EXCEPT ![Take(card).side] = @ + pen]
  BY <1>8 DEF RoundScore
<1>10. RoundScore(card) \in [Sides -> Nat]
  BY <1>1, <1>5, <1>8, <1>9
<1>11. SumFunctionOnSet(RoundScore(card), Sides) = SumFunctionOnSet(penaltiesRound, Sides) + pen
  <2>1. \A f \in [Sides -> Nat] : \A s \in Sides : \A v \in Nat :
          SumFunctionOnSet([f EXCEPT ![s] = @ + v], Sides) = SumFunctionOnSet(f, Sides) + v
    BY <1>2, SumExcept
  <2>2. PICK s \in Sides : s = Take(card).side
    BY <1>8
  <2>3. SumFunctionOnSet([penaltiesRound EXCEPT ![s] = @ + pen], Sides) = SumFunctionOnSet(penaltiesRound, Sides) + pen
    BY <1>1, <1>5, <2>1
  <2>4. QED
    BY <1>9, <2>2, <2>3
<1>12. /\ SumFunction(RoundScore(card)) = SumFunctionOnSet(RoundScore(card), Sides)
       /\ SumFunction(penaltiesRound) = SumFunctionOnSet(penaltiesRound, Sides)
  BY <1>1, <1>10 DEF SumFunction
<1>13. SumFunctionOnSet(penaltiesRound, Sides) \in Nat
  BY <1>1, <1>2, SumType
<1>14. SumFunction(penaltiesRound) + Worth(roundMode, Unplayed, tricks) = RoundWorth(roundNumber + 1)
  BY DEF LedgerBalances, tricks
<1>15. QED
  BY <1>5, <1>6, <1>7, <1>10, <1>11, <1>12, <1>13, <1>14

\* A round that is over has charged what it was worth.
LEMMA RoundPaid ==
    ASSUME InStep, RoundKept, LedgerBalances, ~GameOver, NEW card \in hands[nextMove], Len(table) + 1 = NSides,
           trickNo = TricksPerRound
    PROVE  SumFunction(NewTotals(card)) = SumFunction([r \in 1 .. roundNumber + 1 |-> RoundWorth(r)])
<1> DEFINE n == roundNumber + 1
           f == [r \in 1 .. roundNumber |-> RoundWorth(r)]
           g == [r \in 1 .. n |-> RoundWorth(r)]
<1>1. /\ roundNumber \in Nat /\ n \in DOMAIN Scenario /\ 1 .. n = 1 .. roundNumber \cup {n} /\ n \notin 1 .. roundNumber
      /\ 1 .. n \subseteq DOMAIN Scenario /\ roundMode \in RoundTypes /\ penalties \in [Sides -> Nat]
  <2>1. \A m \in Nat : \A k \in 0 .. m : k # m =>
          /\ k + 1 \in 1 .. m /\ 1 .. k + 1 = 1 .. k \cup {k + 1} /\ k + 1 \notin 1 .. k /\ 1 .. k + 1 \subseteq 1 .. m
    OBVIOUS
  <2>2. roundNumber \in 0 .. Len(Scenario) /\ roundNumber # Len(Scenario)
    BY DEF InStep, GameTypeOK, GameOver
  <2>3. roundNumber \in Nat
    BY <2>2
  <2>4. roundMode \in RoundTypes /\ penalties \in [Sides -> Nat]
    BY DEF InStep, GameTypeOK
  <2>5. QED
    BY <2>1, <2>2, <2>3, <2>4, ScenarioLength, ZenonT(60)
<1>2. IsFiniteSet(Sides) /\ IsFiniteSet(1 .. roundNumber)
  BY <1>1, FS_Interval, RulesAssumption DEF Sides
<1>3. RoundScore(card) \in [Sides -> Nat] /\ SumFunction(RoundScore(card)) = RoundWorth(n)
  <2>1. /\ RoundScore(card) \in [Sides -> Nat] /\ SumFunction(RoundScore(card)) \in Nat
        /\ SumFunction(RoundScore(card)) + Worth(roundMode, HandsLeft(card), trickNo + 1 .. TricksPerRound)
             = RoundWorth(n)
    BY TrickCharged
  <2>2. trickNo + 1 .. TricksPerRound = {}
    BY RulesAssumption
  <2>3. Worth(roundMode, HandsLeft(card), trickNo + 1 .. TricksPerRound) = 0
    BY <1>1, <2>2, TrickPaid, NothingIsWorth
  <2>4. QED
    BY <2>1, <2>3
<1>4. SumFunctionOnSet(NewTotals(card), Sides)
        = SumFunctionOnSet(penalties, Sides) + SumFunctionOnSet(RoundScore(card), Sides)
  <2>1. \A s \in Sides : /\ penalties[s] \in Nat /\ RoundScore(card)[s] \in Nat
                         /\ NewTotals(card)[s] = penalties[s] + RoundScore(card)[s]
    BY <1>1, <1>3 DEF NewTotals
  <2>2. QED
    BY <1>2, <2>1, SumPlus
<1>5. SumFunctionOnSet(g, 1 .. n) = RoundWorth(n) + SumFunctionOnSet(f, 1 .. roundNumber)
  <2>1. /\ \A r \in 1 .. roundNumber : g[r] = f[r] /\ f[r] \in Nat
        /\ \A r \in 1 .. n : g[r] \in Nat
        /\ g[n] = RoundWorth(n)
    BY <1>1, RoundWorthType
  <2> HIDE DEF f, g, n
  <2>2. SumFunctionOnSet(g, 1 .. roundNumber \cup {n}) = g[n] + SumFunctionOnSet(g, 1 .. roundNumber)
    BY <1>1, <1>2, <2>1, SumAdd
  <2>3. SumFunctionOnSet(g, 1 .. roundNumber) = SumFunctionOnSet(f, 1 .. roundNumber)
    BY <1>2, <2>1, SumSame
  <2>4. QED
    BY <1>1, <2>1, <2>2, <2>3
<1>6. SumFunctionOnSet(f, 1 .. roundNumber) \in Nat /\ RoundWorth(n) \in Nat
  <2>1. \A r \in 1 .. roundNumber : f[r] \in Nat
    BY <1>1, RoundWorthType
  <2> HIDE DEF f
  <2>2. QED
    BY <1>1, <1>2, <2>1, SumType, RoundWorthType
<1>7. SumFunctionOnSet(penalties, Sides) = SumFunctionOnSet(f, 1 .. roundNumber)
  BY <1>1 DEF LedgerBalances, SumFunction
<1>8. /\ SumFunction(NewTotals(card)) = SumFunctionOnSet(NewTotals(card), Sides)
      /\ SumFunction(RoundScore(card)) = SumFunctionOnSet(RoundScore(card), Sides)
      /\ SumFunction(g) = SumFunctionOnSet(g, 1 .. n)
  BY <1>3 DEF SumFunction, NewTotals
<1>9. SumFunction(NewTotals(card)) = SumFunction(g)
  <2>1. \A a, b \in Nat : a + b = b + a
    OBVIOUS
  <2>2. SumFunctionOnSet(penalties, Sides) \in Nat /\ SumFunctionOnSet(RoundScore(card), Sides) \in Nat
    BY ONLY <1>3, <1>6, <1>7, <1>8
  <2> HIDE DEF f, g, n
  <2>3. QED
    BY ONLY <1>3, <1>4, <1>5, <1>6, <1>7, <1>8, <2>1, <2>2
<1>10. QED
  BY <1>9, SMTT(60)

\* No penalty adds up to nothing.
LEMMA NoPenaltySum == SumFunction(NoPenalty) = 0
<1>1. IsFiniteSet(Sides)
  BY FS_Interval, RulesAssumption DEF Sides
<1>2. DOMAIN NoPenalty = Sides /\ \A s \in Sides : NoPenalty[s] = 0
  BY DEF NoPenalty
<1>3. QED
  BY <1>1, <1>2, SumZero DEF SumFunction

\* The books balance before the first card,
LEMMA InitBalances == GameInit => LedgerBalances
<1> SUFFICES ASSUME GameInit
             PROVE  LedgerBalances
  OBVIOUS
<1>1. 1 .. roundNumber = {} /\ roundNumber + 1 = 1 /\ {table[i] : i \in DOMAIN table} = {}
  BY DEF GameInit
<1>2. SumFunction([r \in 1 .. roundNumber |-> RoundWorth(r)]) = 0
  BY <1>1, SumStep, FS_EmptySet DEF SumFunction
<1>3. SumFunction(penalties) = 0 /\ SumFunction(penaltiesRound) = 0
  BY NoPenaltySum DEF GameInit
<1>4. Unplayed = UNION {Scenario[1].hands[s] : s \in Sides}
  BY <1>1 DEF Unplayed, GameInit
<1>5. Worth(roundMode, Unplayed, trickNo .. TricksPerRound) = RoundWorth(1) /\ RoundWorth(1) \in Nat
  <2>1. roundMode = Scenario[1].mode /\ trickNo = 1 /\ 1 \in DOMAIN Scenario
    BY ScenarioLength DEF GameInit
  <2>2. Worth(roundMode, Unplayed, trickNo .. TricksPerRound) = RoundWorth(1)
    BY <1>4, <2>1 DEF RoundWorth
  <2>3. QED
    BY <2>1, <2>2, RoundWorthType
<1>6. QED
  BY <1>1, <1>2, <1>3, <1>5 DEF LedgerBalances

\* and after every one.
LEMMA BalanceNext ==
    ASSUME InStep, RoundKept, LedgerBalances, NEW side \in Sides, NEW card \in hands[side], Play(side, card)
    PROVE  LedgerBalances'
<1>1. ~GameOver /\ side = nextMove
  BY NobodyPlaysOn
<1>2. /\ roundNumber \in Nat /\ trickNo \in Nat /\ table \in Seq(Card) /\ side \in Sides /\ card \in Card
      /\ hands \in [Sides -> SUBSET Card]
  BY DEF InStep, GameTypeOK
<1>3. \A s \in Sides : HandsWithout(side, card)[s] = hands[s] \ (IF s = side THEN {card} ELSE {})
  BY <1>2 DEF HandsWithout
<1>4. CASE addCard(side, card)
  <2>1. Unplayed' = Unplayed
    <3> SUFFICES ASSUME NEW c
                 PROVE  c \in Unplayed' <=> c \in Unplayed
      OBVIOUS
    <3>1. c \in Unplayed <=> (\E s \in Sides : c \in hands[s]) \/ \E i \in DOMAIN table : c = table[i]
      BY DEF Unplayed
    <3>2. c \in Unplayed' <=> (\E s \in Sides : c \in hands'[s]) \/ \E i \in DOMAIN table' : c = table'[i]
      BY DEF Unplayed
    <3>3. /\ DOMAIN table' = DOMAIN table \cup {Len(table) + 1}
          /\ table'[Len(table) + 1] = card /\ \A i \in DOMAIN table : table'[i] = table[i]
      BY <1>2, <1>4 DEF addCard
    <3>4. \A s \in Sides : hands'[s] = hands[s] \ (IF s = side THEN {card} ELSE {})
      BY <1>3, <1>4 DEF addCard
    <3>5. (\E i \in DOMAIN table' : c = table'[i]) <=> c = card \/ \E i \in DOMAIN table : c = table[i]
      BY <3>3
    <3>6. CASE c = card
      BY <3>1, <3>2, <3>5, <3>6
    <3>7. CASE c # card
      BY <3>1, <3>2, <3>4, <3>5, <3>7
    <3>8. QED
      BY <3>6, <3>7
  <2>2. QED
    BY <1>4, <2>1 DEF addCard, LedgerBalances, GameOver
<1>5. CASE closeTrick(side, card)
  <2>1. /\ roundNumber' = roundNumber /\ penalties' = penalties /\ roundMode' = roundMode
        /\ penaltiesRound' = RoundScore(card) /\ trickNo' = trickNo + 1 /\ table' = <<>>
        /\ hands' = HandsWithout(nextMove, card) /\ (GameOver' <=> GameOver)
    BY <1>1, <1>5 DEF closeTrick, GameOver
  <2>2. Unplayed' = HandsLeft(card)
    BY <2>1 DEF Unplayed, HandsLeft
  <2>3. SumFunction(RoundScore(card)) + Worth(roundMode, HandsLeft(card), trickNo + 1 .. TricksPerRound)
          = RoundWorth(roundNumber + 1)
    BY <1>1, <1>5, TrickCharged DEF closeTrick
  <2>4. QED
    BY <2>1, <2>2, <2>3 DEF LedgerBalances
<1>6. CASE closeRound(side, card) \/ closeGame(side, card)
  <2>1. penalties' = NewTotals(card) /\ penaltiesRound' = NoPenalty /\ roundNumber' = roundNumber + 1
    BY <1>6 DEF closeRound, closeGame, settleRound
  <2>2. SumFunction(NewTotals(card)) = SumFunction([r \in 1 .. roundNumber + 1 |-> RoundWorth(r)])
    BY <1>1, <1>6, RoundPaid DEF closeRound, closeGame
  <2>3. CASE closeGame(side, card)
    <3>1. GameOver'
      BY <2>3 DEF closeGame, settleRound, GameOver
    <3>2. QED
      BY <2>1, <2>2, <3>1 DEF LedgerBalances
  <2>4. CASE closeRound(side, card)
    <3>1. /\ roundNumber + 2 \in DOMAIN Scenario /\ roundNumber' + 1 = roundNumber + 2
          /\ roundMode' = Scenario[roundNumber + 2].mode /\ trickNo' = 1 /\ table' = <<>>
          /\ hands' = Scenario[roundNumber + 2].hands
      <4>1. \A m \in Nat : \A k \in Nat : k + 1 < m => k + 2 \in 1 .. m /\ k + 1 + 1 = k + 2
        OBVIOUS
      <4>2. roundNumber + 1 < Len(Scenario)
        BY <2>4 DEF closeRound
      <4>3. roundNumber + 2 \in DOMAIN Scenario /\ roundNumber + 1 + 1 = roundNumber + 2
        BY ONLY <1>2, <4>1, <4>2, ScenarioLength
      <4>4. QED
        BY <2>1, <2>4, <4>3 DEF closeRound, settleRound, prepareRound
    <3>2. Unplayed' = UNION {Scenario[roundNumber + 2].hands[s] : s \in Sides}
      BY <3>1 DEF Unplayed
    <3>3. Worth(roundMode, Unplayed, trickNo .. TricksPerRound)' = RoundWorth(roundNumber + 2)
      BY <3>1, <3>2 DEF RoundWorth
    <3>4. SumFunction(penaltiesRound)' = 0 /\ RoundWorth(roundNumber + 2) \in Nat
      BY <2>1, <3>1, NoPenaltySum, RoundWorthType
    <3>5. QED
      BY <2>1, <2>2, <3>1, <3>3, <3>4 DEF LedgerBalances
  <2>5. QED
    BY <1>6, <2>3, <2>4
<1>7. QED
  BY <1>4, <1>5, <1>6 DEF Play, playCard

\* What the sides are charged adds up to what the rounds are worth, whoever
\* takes the tricks: nothing is charged twice and nothing is forgotten, for
\* any scenario and any number of sides.
THEOREM BooksBalance == GameSpec => []LedgerBalances
<1>1. InStep /\ RoundKept /\ LedgerBalances /\ [GameNext]_gameVars => LedgerBalances'
  <2> SUFFICES ASSUME InStep, RoundKept, LedgerBalances, [GameNext]_gameVars
               PROVE  LedgerBalances'
    OBVIOUS
  <2>1. CASE GameNext
    BY <2>1, BalanceNext DEF GameNext
  <2>2. CASE UNCHANGED gameVars
    BY <2>2 DEF gameVars, LedgerBalances, Unplayed, GameOver
  <2>3. QED
    BY <2>1, <2>2
<1>2. QED
  BY <1>1, InitBalances, StaysInStep, RoundsKept, PTL DEF GameSpec
=============================================================================
