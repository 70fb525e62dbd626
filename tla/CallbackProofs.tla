---------------------------- MODULE CallbackProofs ----------------------------
(***************************************************************************)
(* What the callbacks of module Server do, whoever calls them: to the      *)
(* variables of the game at most one move of module Game, and what they    *)
(* send are well formed messages.                                          *)
(***************************************************************************)
EXTENDS Server, GameProofs

\* A card makes at most one move.
LEMMA CardPlays ==
    ASSUME GameTypeOK, NEW no, NEW card, NEW w \in Workers, NEW done \in BOOLEAN,
           playerTricked(no, card, w, done)
    PROVE  GameNext \/ UNCHANGED gameVars
<1>1. CASE acceptCard(card, w)
  <2>1. Play(SenderSide(w), card)
    BY <1>1 DEF acceptCard
  <2>2. SenderSide(w) \in Sides /\ card \in hands[SenderSide(w)]
    BY <2>1 DEF Play, mayPlay, isMoveLegal, GameTypeOK
  <2>3. QED
    BY <2>1, <2>2 DEF GameNext
<1>2. CASE rejectCard(no, card, w)
  BY <1>2 DEF rejectCard
<1>3. CASE refuseStranger(w) \/ ignoreCard(w) \/ UNCHANGED gameVars
  BY <1>3 DEF refuseStranger, ignoreCard
<1>4. QED
  BY <1>1, <1>2, <1>3 DEF playerTricked

\* An introduction leaves the game alone,
LEMMA IntroKeepsGame ==
    ASSUME NEW side, NEW w, NEW done, playerIntro(side, w, done)
    PROVE  UNCHANGED gameVars
BY DEF playerIntro, takeSide, answerBusy, dismissRepeat

\* and so do the exit callback
LEMMA ExitKeepsGame ==
    ASSUME NEW w, NEW e, NEW work, NEW quit, grandExitCallback(w, e, work, quit)
    PROVE  UNCHANGED gameVars
BY DEF grandExitCallback, internalError

\* and the timeout.
LEMMA TimeoutKeepsGame ==
    ASSUME NEW w, handleTimeout(w)
    PROVE  UNCHANGED gameVars
BY DEF handleTimeout

-----------------------------------------------------------------------------
(* What the callbacks send.                                                *)

\* The messages of send_job.h.
Letter ==
    [type : {"DEAL"}, mode : RoundTypes, start : Sides, cards : SUBSET Card]
      \cup [type : {"TRICK"}, table : Seq(Card), trickNo : 1 .. TricksPerRound + 1]
      \cup [type : {"WRONG"}, trickNo : 1 .. TricksPerRound + 1]
      \cup [type : {"SCORE", "TOTAL"}, score : [Sides -> Nat]]
      \cup [type : {"BUSY"}, sides : SUBSET Sides]
      \cup Messages

\* The letters by kind.
LEMMA LetterDeal == ASSUME NEW mode \in RoundTypes, NEW start \in Sides, NEW hand \in SUBSET Card
                    PROVE  DealMsg(mode, start, hand) \in Letter
BY DEF DealMsg, Letter

\* A prompt carries the table and the number of the trick,
LEMMA LetterTrick == ASSUME NEW tab \in Seq(Card), NEW no \in 1 .. TricksPerRound + 1
                     PROVE  TrickMsg(tab, no) \in Letter
BY DEF TrickMsg, Letter

\* a complaint the number alone,
LEMMA LetterWrong == ASSUME NEW no \in 1 .. TricksPerRound + 1 PROVE WrongMsg(no) \in Letter
BY DEF WrongMsg, Letter

\* scores one number for each side,
LEMMA LetterScore == ASSUME NEW score \in [Sides -> Nat]
                     PROVE  ScoreMsg(score) \in Letter /\ TotalMsg(score) \in Letter
BY DEF ScoreMsg, TotalMsg, Letter

\* and a refusal the sides that are taken.
LEMMA LetterBusy == ASSUME NEW S \in SUBSET Sides PROVE BusyMsg(S) \in Letter
BY DEF BusyMsg, Letter

\* The tricks of the round are letters as well.
LEMMA LetterTaken == Messages \subseteq Letter
BY DEF Letter

\* Sequences of letters are joined to sequences of letters.
LEMMA LettersJoin ==
    ASSUME NEW s \in Seq(Letter), NEW t \in Seq(Letter)
    PROVE  s \o t \in Seq(Letter)
OBVIOUS

\* Who plays holds a legal card, and the types of the game survive it.
LEMMA AcceptTypes ==
    ASSUME GameTypeOK, NEW w, NEW card, acceptCard(card, w)
    PROVE  card \in Card /\ SenderSide(w) \in Sides /\ GameTypeOK'
<1>1. Play(SenderSide(w), card)
  BY DEF acceptCard
<1>2. SenderSide(w) \in Sides /\ card \in hands[SenderSide(w)]
  BY <1>1 DEF Play, mayPlay, isMoveLegal, GameTypeOK
<1>3. QED
  BY <1>1, <1>2, PlayType DEF GameTypeOK

\* A legal card is told in letters.
LEMMA AfterCardType ==
    ASSUME GameTypeOK, NEW w, NEW card, acceptCard(card, w), NEW s \in Sides
    PROVE  AfterCard(s, card) \in Seq(Letter)
<1> DEFINE prompt == IF s = nextMove' THEN <<TrickMsg(table', trickNo')>> ELSE <<>>
<1>1. card \in Card /\ GameTypeOK'
  BY AcceptTypes
<1>2. prompt \in Seq(Letter)
  <2>1. table' \in Seq(Card) /\ trickNo' \in 1 .. TricksPerRound + 1
    BY <1>1 DEF GameTypeOK
  <2>2. TrickMsg(table', trickNo') \in Letter
    BY <2>1, LetterTrick
  <2>3. QED
    BY <2>2
<1>3. CASE Len(table) + 1 < NSides
  <2>1. roundNumber' = roundNumber
    BY <1>3 DEF acceptCard, Play, playCard, addCard, closeTrick, closeRound, closeGame
  <2>2. ~(roundNumber' > roundNumber)
    BY <2>1 DEF GameTypeOK
  <2>3. Len(table) + 1 # NSides
    BY <1>3 DEF GameTypeOK
  <2>4. AfterCard(s, card) = prompt
    BY ONLY <1>3, <2>2, <2>3 DEF AfterCard
  <2>5. QED
    BY ONLY <1>2, <2>4
<1>4. CASE ~(Len(table) + 1 < NSides)
  <2>1. Len(table) + 1 = NSides
    BY <1>4 DEF acceptCard, Play, playCard, addCard, closeTrick, closeRound, closeGame
  <2>2. TakenMsg(card) \in Letter /\ ScoreMsg(RoundScore(card)) \in Letter /\ TotalMsg(NewTotals(card)) \in Letter
    BY <1>1, <2>1, TakeType, LetterTaken, LetterScore
  <2>3. LastTold(card) \in Seq(Letter) /\ <<TakenMsg(card)>> \in Seq(Letter)
    BY <2>2 DEF LastTold
  <2>4. DealMsg(roundMode', nextMove', hands'[s]) \in Letter
    BY <1>1, LetterDeal DEF GameTypeOK
  <2>5. NewRound(s, card) \in Seq(Letter)
    BY <2>3, <2>4, LettersJoin DEF NewRound
  <2>6. AfterCard(s, card) \in {LastTold(card), NewRound(s, card) \o prompt, <<TakenMsg(card)>> \o prompt}
    BY ONLY <1>4, <2>1 DEF AfterCard
  <2>7. QED
    BY <1>2, <2>3, <2>5, <2>6, LettersJoin
<1>5. QED
  BY <1>3, <1>4

\* What goes to sides goes to their workers.
LEMMA ToWorkersType ==
    ASSUME NEW at, NEW f \in [Sides -> Seq(Letter)]
    PROVE  ToWorkers(at, f) \in [Workers -> Seq(Letter)]
BY DEF ToWorkers

\* Each worker gets what goes to its side.
LEMMA ToWorkersAt ==
    ASSUME NEW at, NEW f, NEW w \in Workers, NEW s \in Sides, at[s] = w, \A t \in Sides : at[t] = w => t = s
    PROVE  ToWorkers(at, f)[w] = f[s]
BY DEF ToWorkers

\* The story of a round is told in letters.
LEMMA IntroPostType ==
    ASSUME GameTypeOK, lastDeal = <<>> \/ lastDeal \in [Sides -> SUBSET Card], NEW side \in Sides
    PROVE  IntroPost(side) \in [Sides -> Seq(Letter)]
<1>1. ASSUME NEW s \in Sides
      PROVE  IntroPost(side)[s] \in Seq(Letter)
  <2>1. table \in Seq(Card) /\ trickNo \in 1 .. TricksPerRound + 1
    BY DEF GameTypeOK
  <2>2. PromptNow(s) \in Seq(Letter)
    BY <2>1, LetterTrick DEF PromptNow
  <2>3. <<DealMsg(roundMode, nextMove, hands[s])>> \in Seq(Letter)
    BY LetterDeal DEF GameTypeOK
  <2>4. ASSUME lastDeal # <<>>
        PROVE  Story(s) \in Seq(Letter)
    <3>1. <<DealMsg(roundMode, nextMove, lastDeal[s])>> \in Seq(Letter)
      BY <2>4, LetterDeal DEF GameTypeOK
    <3>2. takenInRound \in Seq(Letter)
      BY LetterTaken DEF GameTypeOK
    <3>3. QED
      BY <3>1, <3>2, LettersJoin DEF Story
  <2>5. <<>> \in Seq(Letter)
    OBVIOUS
  <2>6. CASE Starts
    BY <2>2, <2>3, <2>6, LettersJoin DEF IntroPost
  <2>7. CASE ~Starts
    <3>1. (IF s = side /\ lastDeal # <<>> THEN Story(s) ELSE <<>>) \in Seq(Letter)
      BY <2>4, <2>5
    <3>2. (IF Resumes THEN PromptNow(s) ELSE <<>>) \in Seq(Letter)
      BY <2>2, <2>5
    <3>3. QED
      BY <2>7, <3>1, <3>2, LettersJoin DEF IntroPost
  <2>8. QED
    BY <2>6, <2>7
<1>2. QED
  BY <1>1 DEF IntroPost

\* However they are joined.
LEMMA Joined ==
    ASSUME NEW a \in Seq(Letter), NEW b \in Seq(Letter), NEW c \in Seq(Letter)
    PROVE  a \o (b \o c) = (a \o b) \o c
OBVIOUS

\* The first of joined messages.
LEMMA HeadTail ==
    ASSUME NEW a \in Seq(Letter), NEW b \in Seq(Letter), a # <<>>
    PROVE  /\ a \o b \in Seq(Letter) /\ a \o b # <<>> /\ Head(a) \in Letter
           /\ Head(a \o b) = Head(a) /\ Tail(a \o b) = Tail(a) \o b
<1>1. Len(a) \in Nat /\ Len(b) \in Nat /\ Len(a) # 0 /\ Len(a \o b) = Len(a) + Len(b) /\ a \o b \in Seq(Letter)
  BY EmptyLen
<1>2. a \o b # <<>> /\ Head(a \o b) = Head(a) /\ Head(a) \in Letter
  BY <1>1, EmptyLen
<1>3. Tail(a \o b) = Tail(a) \o b
  BY <1>1
<1>4. QED
  BY <1>1, <1>2, <1>3

-----------------------------------------------------------------------------
(* The hand kept for newcomers.                                            *)

\* What is kept for newcomers is the hand of the round, from the first time
\* the table is complete, which is before the first card.
Laid ==
    IF lastDeal = <<>>
      THEN /\ Incomplete
           /\ roundNumber = 0 /\ hands = Scenario[1].hands /\ takenInRound = <<>>
      ELSE lastDeal = Deal.hands

\* Hands are kept for four sides, so they are never the empty record.
LEMMA SomeHands == ASSUME NEW h, DOMAIN h = Sides PROVE h # <<>>
<1>1. 0 \in Sides
  BY RulesAssumption DEF Sides
<1>2. DOMAIN <<>> = 1 .. 0
  OBVIOUS
<1>3. QED
  BY <1>1, <1>2

\* It is untouched where nothing is dealt and nobody arrives.
LEMMA LaidStays ==
    ASSUME Laid, UNCHANGED <<gameVars, lastDeal>>, Incomplete => Incomplete'
    PROVE  Laid'
BY DEF Laid, Deal, GameOver, gameVars

\* A card moves on in its round, or to the next.
LEMMA CardLays ==
    ASSUME InStep, Laid, lastDeal # <<>>, NEW w, NEW card, acceptCard(card, w)
    PROVE  Laid'
<1> DEFINE side == SenderSide(w)
<1>1. card \in Card /\ GameTypeOK /\ GameTypeOK' /\ side \in Sides
  BY AcceptTypes DEF InStep
<1>2. ~GameOver /\ roundNumber \in Nat /\ Len(Scenario) \in Nat
  <2>1. Play(side, card) /\ card \in hands[side]
    BY <1>1 DEF acceptCard, Play, mayPlay, isMoveLegal, GameTypeOK
  <2>2. QED
    BY <1>1, <2>1, NobodyPlaysOn, ScenarioLength DEF GameTypeOK
<1>3. lastDeal' = IF roundNumber' > roundNumber /\ ~GameOver' THEN hands' ELSE lastDeal
  BY DEF acceptCard
<1>4. playCard(side, card)
  BY DEF acceptCard, Play
<1>5. lastDeal = Deal.hands
  BY DEF Laid
<1> SUFFICES lastDeal' # <<>> /\ lastDeal' = Deal.hands'
  BY DEF Laid
<1>6. CASE addCard(side, card) \/ closeTrick(side, card)
  <2>1. roundNumber' = roundNumber
    BY <1>6 DEF addCard, closeTrick
  <2>2. QED
    BY <1>2, <1>3, <1>5, <2>1 DEF Deal, GameOver
<1>7. CASE closeGame(side, card)
  <2>1. roundNumber' = roundNumber + 1 /\ GameOver'
    BY <1>7 DEF closeGame, settleRound, GameOver
  <2>2. QED
    BY <1>2, <1>3, <1>5, <2>1 DEF Deal
<1>8. CASE closeRound(side, card)
  <2>1. roundNumber' = roundNumber + 1 /\ roundNumber + 1 < Len(Scenario) /\ hands' = Scenario[(roundNumber + 1) + 1].hands
    BY <1>8 DEF closeRound, settleRound, prepareRound
  <2>2. ~GameOver' /\ roundNumber' > roundNumber
    BY <1>2, <2>1 DEF GameOver
  <2>3. DOMAIN hands' = Sides
    BY <1>1 DEF GameTypeOK
  <2>4. QED
    BY <1>3, <2>1, <2>2, <2>3, SomeHands DEF Deal
<1>9. QED
  BY <1>4, <1>6, <1>7, <1>8 DEF playCard

\* The first hands are kept when the first game starts.
LEMMA ArrivalLays ==
    ASSUME GameTypeOK, playersConnected \in Int, Laid, NEW w, NEW side, takeSide(side, w)
    PROVE  Laid'
<1>1. UNCHANGED gameVars /\ playersConnected' = playersConnected + 1
  BY DEF takeSide
<1>2. CASE Starts
  <2>1. lastDeal' = hands /\ hands = Scenario[1].hands /\ roundNumber = 0
    BY <1>2 DEF takeSide, Starts, Laid
  <2>2. ~GameOver /\ Deal.hands = hands
    BY <2>1, ScenarioLength DEF GameOver, Deal
  <2>3. hands # <<>>
    BY SomeHands DEF GameTypeOK
  <2>4. QED
    BY <1>1, <2>1, <2>2, <2>3 DEF Laid, Deal, GameOver, gameVars
<1>3. CASE ~Starts
  <2>1. lastDeal' = lastDeal
    BY <1>3 DEF takeSide
  <2>2. lastDeal = <<>> => playersConnected + 1 # NSides
    BY <1>3 DEF Starts
  <2>3. lastDeal = <<>> /\ Incomplete => Incomplete'
    BY <1>1, <2>2, RulesAssumption DEF Incomplete
  <2>4. QED
    BY <1>1, <2>1, <2>3 DEF Laid, Deal, GameOver, gameVars
<1>4. QED
  BY <1>2, <1>3
=============================================================================
