-------------------------- MODULE ClientServerProofs --------------------------
(***************************************************************************)
(* The clients at the table play the game: whoever of them breaks down,    *)
(* is refused or answers twice, they change it by moves of module Game.    *)
(*                                                                         *)
(* And what they believe of it is true: TableKept ties the hand and the    *)
(* stage of each client, and what is on its way to it and from it, to the  *)
(* game.  InPlay lists the positions a player can be in.  EndKept is about *)
(* the end: what a client still has to hear before it may stop.            *)
(***************************************************************************)
EXTENDS ClientServer, CallbackProofs

\* A message the server takes from a client makes at most one move.
LEMMA ServePlays ==
    ASSUME GameTypeOK, NEW w \in Clients, serve(w)
    PROVE  GameNext \/ UNCHANGED gameVars
<1>1. w \in Workers
  BY TableAssumption
<1>2. QED
  BY <1>1, CardPlays, IntroKeepsGame DEF serve

\* The end of a connection leaves the game alone.
LEMMA EndKeepsGame ==
    ASSUME NEW w \in Clients, notice(w) \/ close(w)
    PROVE  UNCHANGED gameVars
BY ExitKeepsGame DEF notice, close

\* Every step at the table is a move of the game or leaves the game alone.
LEMMA TableStepPlays == GameTypeOK /\ [TableNext]_allVars => [GameNext]_gameVars
<1> SUFFICES ASSUME GameTypeOK, [TableNext]_allVars
             PROVE  GameNext \/ UNCHANGED gameVars
  OBVIOUS
<1>1. ASSUME NEW w \in Clients, connect(w) \/ deliverNext(w) \/ type(w) \/ breakDown(w) \/ endOfFile(w)
      PROVE  UNCHANGED gameVars
  BY <1>1 DEF connect, forwardConnection, deliverNext, type, typeOneOf, breakDown, endOfFile
<1>2. ASSUME NEW w \in Clients, askAgain(w)
      PROVE  UNCHANGED gameVars
  BY <1>2, TimeoutKeepsGame DEF askAgain
<1>3. CASE UNCHANGED allVars
  BY <1>3 DEF allVars
<1>4. QED
  BY <1>1, <1>2, <1>3, ServePlays, EndKeepsGame DEF TableNext

\* The clients and the server together implement the game: what the clients
\* believe of their hands and of whose turn it is never makes a move that
\* the rules do not know.
THEOREM TablePlaysGame == TableSpec => GameSpec
<1>1. TableInit => GameInit
  BY DEF TableInit, ServerInit
<1>2. GameTypeOK /\ [GameNext]_gameVars => GameTypeOK'
  BY PlayType, TypeUnchanged DEF GameNext
<1>3. TableSpec => []GameTypeOK
  BY <1>1, <1>2, GameInitType, TableStepPlays, PTL DEF TableSpec
<1>4. QED
  BY <1>1, <1>3, TableStepPlays, PTL DEF TableSpec, GameSpec

\* So what the clients believe cannot keep the game from being played as the
\* players were promised,
THEOREM TableKeepsPromise == TableSpec => ImplementsKierki
BY TablePlaysGame, GameImplementsKierki, PTL

\* nor put a hand, a counter, a card or a point out of step.
THEOREM TableKeepsGame ==
    TableSpec => [](HandsInStep /\ CountersAgree /\ CardsInOnePlace /\ NoRevoke /\ LedgerBalances)
<1>1. InStep => HandsInStep /\ CountersAgree
  BY DEF InStep
<1>2. QED
  BY <1>1, TablePlaysGame, StaysInStep, CardsStayPut, NobodyRevokes, BooksBalance, PTL

-----------------------------------------------------------------------------
(* The cards of a round, as the clients come to know them.                 *)

\* The tricks a newcomer is told.
FullTricks == {m \in Messages : Len(m.table) = NSides /\ m.trickNo \in 1 .. TricksPerRound}

\* The cards of some tricks.
CardsIn(ms) == UNION {CardsOf(ms[k].table) : k \in DOMAIN ms}

\* A trick a card completes is such a trick.
LEMMA TrickIsFull ==
    ASSUME InStep, NEW card \in Card, Len(table) + 1 = NSides, trickNo <= TricksPerRound
    PROVE  /\ TakenMsg(card) \in FullTricks /\ TakenMsg(card).type = "TAKEN"
           /\ TakenMsg(card).table = Full(card) /\ CardsOf(Full(card)) = OnTheTable \cup {card}
<1>1. TakenMsg(card) \in Messages /\ table \in Seq(Card) /\ trickNo \in 1 .. TricksPerRound + 1
  BY TakeType DEF InStep, GameTypeOK
<1>2. Len(Full(card)) = NSides /\ trickNo \in 1 .. TricksPerRound
  BY <1>1, RulesAssumption DEF Full
<1>3. CardsOf(Full(card)) = OnTheTable \cup {card}
  <2>1. DOMAIN Append(table, card) = 1 .. Len(table) + 1 /\ DOMAIN table = 1 .. Len(table) /\ Len(table) \in Nat
    BY <1>1
  <2>2. \A i \in DOMAIN table : Append(table, card)[i] = table[i]
    BY <1>1
  <2>3. Append(table, card)[Len(table) + 1] = card
    BY <1>1
  <2>4. QED
    BY <2>1, <2>2, <2>3 DEF CardsOf, Full, OnTheTable
<1>4. QED
  BY <1>1, <1>2, <1>3 DEF FullTricks, TakenMsg, Taken

\* All tricks of a round are.
TricksFull == takenInRound \in Seq(FullTricks)

\* The game keeps them so.
LEMMA FullNext ==
    ASSUME InStep, TricksFull, NEW side \in Sides, NEW card \in hands[side], Play(side, card)
    PROVE  TricksFull'
<1>1. trickNo <= TricksPerRound /\ card \in Card
  BY NobodyPlaysOn DEF InStep, GameTypeOK
<1>2. CASE addCard(side, card)
  BY <1>2 DEF addCard, TricksFull
<1>3. CASE closeTrick(side, card) \/ closeGame(side, card)
  <2>1. Len(table) + 1 = NSides /\ takenInRound' = Append(takenInRound, TakenMsg(card))
    BY <1>3 DEF closeTrick, closeGame
  <2>2. TakenMsg(card) \in FullTricks
    BY <1>1, <2>1, TrickIsFull
  <2> HIDE DEF FullTricks
  <2>3. QED
    BY <2>1, <2>2 DEF TricksFull
<1>4. CASE closeRound(side, card)
  BY <1>4 DEF closeRound, prepareRound, TricksFull
<1>5. QED
  BY <1>2, <1>3, <1>4 DEF Play, playCard

\* In every game.
LEMMA TricksStayFull == GameSpec => []TricksFull
<1>1. GameInit => TricksFull
  BY DEF GameInit, TricksFull
<1>2. InStep /\ TricksFull /\ [GameNext]_gameVars => TricksFull'
  BY FullNext DEF GameNext, gameVars, TricksFull
<1>3. QED
  BY <1>1, <1>2, StaysInStep, PTL DEF GameSpec

\* The hands are what was dealt without what has been shown, and nobody's
\* card is on the table before it has played.
RoundCards ==
    /\ TricksFull
    /\ \A s \in Sides :
         /\ hands[s] \subseteq Deal.hands[s] /\ Deal.hands[s] \subseteq Card
         /\ hands[s] = Deal.hands[s] \ (CardsIn(takenInRound) \cup OnTheTable)
         /\ ~HasPlayed(s) => Deal.hands[s] \cap OnTheTable = {}

\* What has been shown is what the sides have played.
LEMMA ShownIsPlayed ==
    ASSUME InStep, RoundKept
    PROVE  CardsIn(takenInRound) \cup OnTheTable = Played
<1>1. /\ \A k \in 1 .. TrickNow : Tabled[k] = IF k = TrickNow THEN table ELSE takenInRound[k].table
      /\ DOMAIN takenInRound = 1 .. TrickNow - 1 /\ TrickNow \in Nat \ {0}
  <2>1. takenInRound \in Seq(Messages) /\ TrickNow \in Nat \ {0} /\ Len(takenInRound) \in Nat
    BY TotalType DEF InStep, GameTypeOK
  <2>2. DOMAIN takenInRound = 1 .. Len(takenInRound) /\ Len(takenInRound) = TrickNow - 1
    BY <2>1 DEF TrickNow
  <2>3. \A k \in 1 .. TrickNow : k <= Len(takenInRound) <=> k # TrickNow
    BY <2>1, <2>2
  <2>4. QED
    BY <2>1, <2>2, <2>3 DEF Tabled, TrickNow
<1>2. \A card : card \in Played <=> \E p \in Places : CardAt(p) = card
  BY PlayedIs DEF Played, RoundKept
<1>3. ASSUME NEW card
      PROVE  card \in Played <=> \E k \in 1 .. TrickNow : \E i \in DOMAIN Tabled[k] : Tabled[k][i] = card
  <2>1. ASSUME NEW k \in 1 .. TrickNow, NEW i \in DOMAIN Tabled[k]
        PROVE  <<k, i>> \in Places /\ CardAt(<<k, i>>) = Tabled[k][i]
    BY PlaceIs DEF CardAt
  <2>2. ASSUME NEW p \in Places
        PROVE  \E k \in 1 .. TrickNow : \E i \in DOMAIN Tabled[k] : CardAt(p) = Tabled[k][i]
    BY PlaceIs DEF CardAt
  <2>3. ASSUME card \in Played
        PROVE  \E k \in 1 .. TrickNow : \E i \in DOMAIN Tabled[k] : Tabled[k][i] = card
    <3>1. PICK p \in Places : CardAt(p) = card
      BY <1>2, <2>3
    <3>2. QED
      BY <2>2, <3>1
  <2>4. ASSUME NEW k \in 1 .. TrickNow, NEW i \in DOMAIN Tabled[k], Tabled[k][i] = card
        PROVE  card \in Played
    BY <1>2, <2>1, <2>4
  <2>5. QED
    BY ONLY <2>3, <2>4, Zenon
<1>4. \A card : card \in CardsIn(takenInRound) <=>
                  \E k \in DOMAIN takenInRound : \E i \in DOMAIN takenInRound[k].table : takenInRound[k].table[i] = card
  BY DEF CardsIn, CardsOf
<1>5. \A card : card \in OnTheTable <=> \E i \in DOMAIN table : table[i] = card
  BY DEF OnTheTable
<1>6. ASSUME NEW card, card \in Played
      PROVE  card \in CardsIn(takenInRound) \cup OnTheTable
  <2>1. PICK k \in 1 .. TrickNow : \E i \in DOMAIN Tabled[k] : Tabled[k][i] = card
    BY <1>3, <1>6
  <2>2. CASE k = TrickNow
    BY <1>1, <1>5, <2>1, <2>2
  <2>3. CASE k # TrickNow
    <3>1. k \in DOMAIN takenInRound /\ Tabled[k] = takenInRound[k].table
      BY <1>1, <2>3
    <3>2. QED
      BY <1>4, <2>1, <3>1
  <2>4. QED
    BY <2>2, <2>3
<1>7. ASSUME NEW card, card \in CardsIn(takenInRound)
      PROVE  card \in Played
  <2>1. PICK k \in DOMAIN takenInRound : \E i \in DOMAIN takenInRound[k].table : takenInRound[k].table[i] = card
    BY <1>4, <1>7
  <2>2. k \in 1 .. TrickNow /\ Tabled[k] = takenInRound[k].table
    BY <1>1
  <2>3. QED
    BY <1>3, <2>1, <2>2
<1>8. ASSUME NEW card, card \in OnTheTable
      PROVE  card \in Played
  <2>1. TrickNow \in 1 .. TrickNow /\ Tabled[TrickNow] = table
    BY <1>1
  <2>2. QED
    BY <1>3, <1>5, <1>8, <2>1
<1>9. QED
  BY <1>6, <1>7, <1>8

\* The sides that have played to the trick are those before the next.
LEMMA WhoHasPlayed ==
    ASSUME InStep, RoundKept, NEW i \in DOMAIN table
    PROVE  SideAt(<<TrickNow, i>>) \in Sides /\ HasPlayed(SideAt(<<TrickNow, i>>))
<1>1. ~GameOver /\ Len(table) \in Nat /\ Len(table) < NSides /\ DOMAIN table = 1 .. Len(table)
  BY EmptyLen DEF InStep, GameTypeOK, CountersAgree
<1>2. LeaderOf(TrickNow) \in Sides /\ nextMove = SideAfter(LeaderOf(TrickNow), Len(table))
  BY <1>1, LeaderType DEF RoundKept, InTurn, InStep
<1>3. \A l \in Sides : \A n \in Nat : \A j \in 1 .. n : n < NSides =>
         LET t == SideAfter(l, j - 1)
             x == SideAfter(l, n)
         IN  t \in Sides /\ (IF t < x THEN x - t ELSE x + NSides - t) <= n
  BY RulesAssumption DEF SideAfter, Sides
<1>4. SideAt(<<TrickNow, i>>) = SideAfter(LeaderOf(TrickNow), i - 1)
  BY DEF SideAt, PlayerAt
<1>5. QED
  BY <1>1, <1>2, <1>3, <1>4 DEF HasPlayed, Ago

\* So in every state of a game.
LEMMA RoundCardsHold == InStep /\ RoundKept /\ TricksFull => RoundCards
<1> SUFFICES ASSUME InStep, RoundKept, TricksFull, NEW s \in Sides
             PROVE  /\ hands[s] \subseteq Deal.hands[s] /\ Deal.hands[s] \subseteq Card
                    /\ hands[s] = Deal.hands[s] \ (CardsIn(takenInRound) \cup OnTheTable)
                    /\ ~HasPlayed(s) => Deal.hands[s] \cap OnTheTable = {}
  BY DEF RoundCards
<1>1. \A t \in Sides : hands[t] \cap PlayedBy(t) = {} /\ hands[t] \cup PlayedBy(t) = Deal.hands[t]
  BY DEF RoundKept, CardsInOnePlace
<1>2. \A t \in Sides : t # s => Deal.hands[s] \cap Deal.hands[t] = {}
  BY DealtOnce DEF InStep
<1>3. hands[s] \subseteq Deal.hands[s]
  BY <1>1
<1>4. Deal.hands[s] \subseteq Card
  <2>1. (IF GameOver THEN roundNumber ELSE roundNumber + 1) \in DOMAIN Scenario
    <3>1. PICK n \in Nat \ {0} : n = Len(Scenario) /\ DOMAIN Scenario = 1 .. n
      BY ScenarioLength, Zenon
    <3>2. roundNumber \in 0 .. n /\ (GameOver <=> roundNumber = n)
      BY <3>1 DEF InStep, GameTypeOK, GameOver
    <3>3. QED
      BY ONLY <3>1, <3>2, n \in Nat \ {0}, SMTT(30)
  <2>2. QED
    BY <2>1, RoundType DEF Deal
<1>5. hands[s] = Deal.hands[s] \ Played
  BY <1>1, <1>2 DEF Played
<1>6. ASSUME ~HasPlayed(s), NEW card \in Deal.hands[s], card \in OnTheTable
      PROVE  FALSE
  <2>1. PICK i \in DOMAIN table : table[i] = card
    BY <1>6 DEF OnTheTable
  <2> DEFINE t == SideAt(<<TrickNow, i>>)
  <2>2. t \in Sides /\ HasPlayed(t)
    BY WhoHasPlayed
  <2>3. Tabled[TrickNow] = table /\ TrickNow \in 1 .. TrickNow
    BY TotalType DEF Tabled, TrickNow
  <2>4. <<TrickNow, i>> \in Places /\ CardAt(<<TrickNow, i>>) = card
    BY <2>1, <2>3, PlaceIs DEF CardAt
  <2>5. card \in PlayedBy(t)
    BY <2>4, PlayedIs
  <2>6. t # s
    BY <1>6, <2>2
  <2>7. QED
    BY <1>1, <1>2, <1>6, <2>2, <2>5, <2>6
<1>7. QED
  BY <1>3, <1>4, <1>5, <1>6, ShownIsPlayed

-----------------------------------------------------------------------------
(* Messages on their way, as sequences.                                    *)

\* Messages of one kind are messages of a wider one.
LEMMA Wider == ASSUME NEW S, NEW T, S \subseteq T, NEW q \in Seq(S) PROVE q \in Seq(T)
OBVIOUS

\* A single message.
LEMMA Alone == ASSUME NEW S, NEW m \in S PROVE <<m>> \in Seq(S) /\ <<m>> # <<>>
OBVIOUS

\* Nothing but the messages of no kind.
LEMMA NoneSent == ASSUME NEW q \in Seq({}) PROVE q = <<>>
OBVIOUS

\* Two of a kind are joined to one.
LEMMA SameKind == ASSUME NEW S, NEW a \in Seq(S), NEW b \in Seq(S) PROVE a \o b \in Seq(S)
OBVIOUS

\* Nothing is joined without a trace.
LEMMA Nothing == ASSUME NEW S, NEW q \in Seq(S) PROVE q \o <<>> = q /\ <<>> \o q = q /\ <<>> \in Seq(S)
OBVIOUS

\* The first message of some, and the others.
LEMMA FirstOf ==
    ASSUME NEW S, NEW q \in Seq(S), q # <<>>
    PROVE  Head(q) \in S /\ Tail(q) \in Seq(S) /\ q = <<Head(q)>> \o Tail(q)
OBVIOUS

\* The first message of a message and others.
LEMMA FirstIs ==
    ASSUME NEW m \in Letter, NEW r \in Seq(Letter)
    PROVE  <<m>> \o r # <<>> /\ Head(<<m>> \o r) = m /\ Tail(<<m>> \o r) = r /\ <<m>> \o r \in Seq(Letter)
<1> HIDE DEF Letter
<1>1. QED
  OBVIOUS

\* Of joined messages the first is one of the first part, if there is any.
LEMMA FirstPart ==
    ASSUME NEW S \in SUBSET Letter, NEW a \in Seq(S), NEW r \in Seq(Letter)
    PROVE  /\ a \o r \in Seq(Letter)
           /\ a = <<>> => a \o r = r
           /\ a # <<>> => /\ a \o r # <<>> /\ Head(a \o r) = Head(a) /\ Head(a) \in S
                          /\ Tail(a) \in Seq(S) /\ Tail(a \o r) = Tail(a) \o r
<1>1. a \in Seq(Letter)
  BY Wider
<1>2. CASE a = <<>>
  BY <1>1, <1>2, LettersJoin, Nothing
<1>3. CASE a # <<>>
  BY <1>1, <1>3, FirstOf, HeadTail
<1>4. QED
  BY <1>2, <1>3

\* Before a message there may be others.
Divided(q, S, a, m, r) ==
    S \in SUBSET Letter /\ a \in Seq(S) /\ m \in Letter /\ r \in Seq(Letter) /\ q = a \o (<<m>> \o r)

\* Then the first is one of those, or the message.
Splits(q, S, a, m, r) ==
    /\ a = <<>> => Head(q) = m /\ Tail(q) = r
    /\ a # <<>> => Head(q) \in S /\ Tail(a) \in Seq(S) /\ Tail(q) = Tail(a) \o (<<m>> \o r)

\* It does split like that.
LEMMA FirstBefore ==
    ASSUME NEW q, NEW S, NEW a, NEW m, NEW r, Divided(q, S, a, m, r)
    PROVE  Splits(q, S, a, m, r)
<1> DEFINE x == <<m>> \o r
<1>0. S \in SUBSET Letter /\ a \in Seq(S) /\ m \in Letter /\ r \in Seq(Letter) /\ q = a \o x
  BY DEF Divided
<1>1. x \in Seq(Letter) /\ Head(x) = m /\ Tail(x) = r
  BY <1>0, FirstIs
<1> HIDE DEF x
<1>2. q = a \o x
  BY <1>0 DEF x
<1>3. CASE a = <<>>
  BY <1>0, <1>1, <1>2, <1>3, FirstPart DEF Splits
<1>4. CASE a # <<>>
  <2>1. Head(a \o x) = Head(a) /\ Head(a) \in S /\ Tail(a) \in Seq(S) /\ Tail(a \o x) = Tail(a) \o x
    BY <1>0, <1>1, <1>4, FirstPart
  <2>2. QED
    BY <1>2, <1>4, <2>1 DEF x, Splits
<1>5. QED
  BY <1>3, <1>4

\* A message between others, with more behind them.
LEMMA Behind ==
    ASSUME NEW a \in Seq(Letter), NEW m \in Letter, NEW r \in Seq(Letter), NEW b \in Seq(Letter)
    PROVE  /\ (a \o (<<m>> \o r)) \o b = a \o (<<m>> \o (r \o b))
           /\ <<m>> \o r \in Seq(Letter) /\ a \o (<<m>> \o r) \in Seq(Letter)
<1>1. <<m>> \in Seq(Letter)
  BY Alone
<1>2. <<m>> \o r \in Seq(Letter) /\ r \o b \in Seq(Letter)
  BY <1>1, LettersJoin
<1>3. (<<m>> \o r) \o b = <<m>> \o (r \o b)
  BY <1>1, Joined
<1>4. (a \o (<<m>> \o r)) \o b = a \o ((<<m>> \o r) \o b)
  BY <1>2, Joined
<1>5. QED
  BY <1>2, <1>3, <1>4, LettersJoin

\* The cards of tricks: of none, of the first and the others, of some and one more.
LEMMA CardsOfNone == CardsIn(<<>>) = {}
BY DEF CardsIn

\* The first trick and the others.
LEMMA CardsOfFirst ==
    ASSUME NEW p \in Seq(FullTricks), p # <<>>
    PROVE  CardsIn(p) = CardsOf(Head(p).table) \cup CardsIn(Tail(p))
<1> HIDE DEF FullTricks
<1>1. Len(p) \in Nat \ {0} /\ DOMAIN p = 1 .. Len(p) /\ Head(p) = p[1]
  BY EmptyLen
<1>2. DOMAIN Tail(p) = 1 .. Len(p) - 1 /\ \A k \in 1 .. Len(p) - 1 : Tail(p)[k] = p[k + 1]
  BY <1>1
<1>3. ASSUME NEW k \in DOMAIN p
      PROVE  k = 1 \/ (k - 1 \in DOMAIN Tail(p) /\ Tail(p)[k - 1] = p[k])
  BY <1>1, <1>2
<1>4. ASSUME NEW k \in DOMAIN Tail(p)
      PROVE  k + 1 \in DOMAIN p /\ Tail(p)[k] = p[k + 1]
  BY <1>1, <1>2
<1>5. CardsIn(p) \subseteq CardsOf(Head(p).table) \cup CardsIn(Tail(p))
  BY <1>1, <1>3 DEF CardsIn
<1>6. CardsOf(Head(p).table) \subseteq CardsIn(p)
  BY <1>1 DEF CardsIn
<1>7. CardsIn(Tail(p)) \subseteq CardsIn(p)
  BY <1>4 DEF CardsIn
<1>8. QED
  BY <1>5, <1>6, <1>7

\* One more trick.
LEMMA CardsOfMore ==
    ASSUME NEW p \in Seq(FullTricks), NEW m \in FullTricks
    PROVE  p \o <<m>> \in Seq(FullTricks) /\ CardsIn(p \o <<m>>) = CardsIn(p) \cup CardsOf(m.table)
<1> HIDE DEF FullTricks
<1>1. Len(p) \in Nat /\ DOMAIN p = 1 .. Len(p) /\ p \o <<m>> \in Seq(FullTricks)
  OBVIOUS
<1>2. DOMAIN (p \o <<m>>) = 1 .. Len(p) + 1 /\ (p \o <<m>>)[Len(p) + 1] = m
  BY <1>1
<1>3. \A k \in DOMAIN p : (p \o <<m>>)[k] = p[k]
  BY <1>1
<1>4. \A k \in DOMAIN (p \o <<m>>) : k \in DOMAIN p \/ k = Len(p) + 1
  BY <1>1, <1>2
<1>5. \A k \in DOMAIN p : k \in DOMAIN (p \o <<m>>)
  BY <1>1, <1>2
<1>6. Len(p) + 1 \in DOMAIN (p \o <<m>>)
  BY <1>1, <1>2
<1>7. CardsIn(p \o <<m>>) \subseteq CardsIn(p) \cup CardsOf(m.table)
  BY <1>2, <1>3, <1>4 DEF CardsIn
<1>8. CardsIn(p) \subseteq CardsIn(p \o <<m>>)
  BY <1>3, <1>5 DEF CardsIn
<1>9. CardsOf(m.table) \subseteq CardsIn(p \o <<m>>)
  BY <1>2, <1>6 DEF CardsIn
<1>10. QED
  BY <1>1, <1>7, <1>8, <1>9

-----------------------------------------------------------------------------
(* A player that follows the game.                                         *)

Deals == {m \in Letter : m.type = "DEAL"}
Points == {m \in Letter : m.type \in {"SCORE", "TOTAL"}}
Wrongs == {m \in Letter : m.type = "WRONG"}
Refusals == {m \in Letter : m.type = "BUSY"}
Peaceful == {m \in Letter : m.type # "WRONG"}
Fair == {m \in Letter : m.type # "BUSY" /\ (m.type = "TAKEN" => m \in FullTricks)}
Calm == {m \in Fair : m.type # "WRONG"}

\* What the server may send to side s as the game stands: the prompt if it is
\* to move, and the points of the last round when the game is over.
Asking(s) ==
    {m \in Letter : \/ m.type = "TRICK" /\ m.table = table /\ m.trickNo = trickNo /\ nextMove = s
                    \/ m.type \in {"SCORE", "TOTAL"} /\ GameOver}

\* The game as it is for side s.
Truth(s) ==
    [asking |-> Asking(s), dealt |-> Deal.hands[s], held |-> hands[s], table |-> OnTheTable,
     turn |-> IF HasPlayed(s) THEN "played" ELSE "waits",
     no |-> trickNo, legal |-> {card \in Card : mayPlay(s, card)}]

\* The game as client w sees it.
Belief(w) ==
    [kind |-> IF w \in Automatic THEN "automatic" ELSE "console", stage |-> stage[w],
     waiting |-> waitingForCard[w], hand |-> localHand[w], out |-> lastCards[w],
     next |-> nextTrick[w], up |-> up[w], hurried |-> hurried[w]]

\* Prompts for a trick that the client has played to.
Stale(b) == {m \in Letter : m.type = "TRICK" /\ m.trickNo <= TricksPerRound
                              /\ (b.kind = "automatic" => m.trickNo < b.next)}

\* A round has been played and the next is to come.
NextDeal(t, q) ==
    /\ t.turn = "waits"
    /\ \E a \in Seq(Points), m \in Deals, r \in Seq(t.asking) : m.cards = t.held /\ q = a \o (<<m>> \o r)

\* With q still to be heard, after cards that are shown, the hand is right.
Fits(t, hand, shown, q) ==
    \/ q \in Seq(t.asking) /\ hand \subseteq t.dealt /\ hand \ (shown \cup t.table) = t.held
    \/ hand \subseteq shown /\ NextDeal(t, q)

Later(b) == b.stage \notin {"PRE", "AFTER_FIRST_DEAL"}

\* A card is on its way to the server.
Answers(t, b, card, no) ==
    b.up = <<CardMsg(no, card)>> /\ (b.kind = "automatic" => no = t.no /\ card \in t.legal)

\* The tricks of the round are still to be heard, or the deal before them.
Replays(t, hand, q) ==
    \E p \in Seq(FullTricks), r \in Seq(Letter) : q = p \o r /\ Fits(t, hand, CardsIn(p), r)

Newcomer(t, b, q) ==
    /\ b.out = <<>> /\ b.up = <<>> /\ b.waiting = FALSE
    /\ \/ b.stage = "AFTER_FIRST_DEAL" /\ Replays(t, b.hand, q)
       \/ /\ b.stage = "PRE"
          /\ \E m \in Deals, r \in Seq(Letter) : q = <<m>> \o r /\ Replays(t, m.cards, r)

\* All cards are in the hand.
Ready(t, b, q) ==
    Later(b) /\ b.out = <<>> /\ b.up = <<>> /\ t.turn = "waits" /\ Fits(t, b.hand, {}, q)

\* The trick with the last card sent is still to be heard.
Settling(t, b, q) ==
    /\ Later(b) /\ b.up = <<>> /\ t.turn = "waits"
    /\ \E card \in Card : b.out = <<card>>
    /\ \E a \in Seq(Stale(b)), m \in FullTricks, r \in Seq(Letter) :
         q = a \o (<<m>> \o r) /\ Fits(t, b.hand, {}, r)

\* The last card sent is on the table.
CardDown(t, b, q) ==
    /\ Later(b) /\ b.up = <<>> /\ t.turn = "played"
    /\ \E card \in Card : b.out = <<card>>
    /\ b.hand = t.held /\ q \in Seq(Stale(b))

\* The server does not know of the card that is missing from the hand.
Lent(t, b, card) ==
    /\ Later(b) /\ b.out = <<card>> /\ t.turn = "waits"
    /\ card \notin b.hand /\ b.hand \cup {card} = t.held

CardSent(t, b, q) ==
    \E card \in Card, no \in 1 .. TricksPerRound :
        /\ Lent(t, b, card) /\ Answers(t, b, card, no)
        /\ q \in Seq(t.asking) /\ (b.kind = "automatic" => b.next = t.no + 1)

CardRefused(t, b, q) ==
    /\ b.kind = "console" /\ b.up = <<>>
    /\ \E card \in Card : Lent(t, b, card)
    /\ \E a \in Seq(t.asking), m \in Wrongs, r \in Seq(t.asking) : q = a \o (<<m>> \o r)

InPlay(t, b, q) ==
    \/ Newcomer(t, b, q) \/ Ready(t, b, q) \/ Settling(t, b, q)
    \/ CardDown(t, b, q) \/ CardSent(t, b, q) \/ CardRefused(t, b, q)

\* A person who hurries may have several cards on their way, and a hand that
\* nothing is known of.
CardMsgs == {CardMsg(no, card) : no \in 1 .. TricksPerRound, card \in Card}
Rushes(b) == b.kind = "console" /\ b.up \in Seq(CardMsgs)
Adrift(b, q) == b.hurried /\ Rushes(b) /\ q \in Seq(Fair)

AtTable(t, b, q) == InPlay(t, b, q) \/ Adrift(b, q)

\* What is true of the game for any side.
Sound(t) ==
    /\ t.asking \subseteq Letter /\ t.dealt \subseteq Card /\ t.held \subseteq t.dealt
    /\ t.held \cap t.table = {}
    /\ t.turn \in {"waits", "played"}
    /\ t.turn = "waits" => t.dealt \cap t.table = {}
    /\ t.no \in Nat
    /\ \A m \in t.asking :
         /\ t.turn = "waits"
         /\ \/ m \in Points
            \/ /\ m.type = "TRICK" /\ m.trickNo = t.no
               /\ m.trickNo <= TricksPerRound => t.held # {} /\ Fitting(t.held, m.table) \subseteq t.legal

\* It is true.
LEMMA TruthIsSound ==
    ASSUME InStep, RoundKept, RoundCards, NEW s \in Sides
    PROVE  Sound(Truth(s))
<1>1. hands[s] \subseteq Deal.hands[s] /\ Deal.hands[s] \subseteq Card /\ (~HasPlayed(s) => Deal.hands[s] \cap OnTheTable = {})
  BY DEF RoundCards
<1>2. hands[s] \cap OnTheTable = {}
  BY TableNotHeld DEF OnTheTable
<1>3. Asking(s) \subseteq Letter
  BY DEF Asking
<1>4. ASSUME NEW m \in Asking(s), m \notin Points
      PROVE  /\ m.type = "TRICK" /\ m.trickNo = trickNo /\ ~HasPlayed(s)
             /\ m.trickNo <= TricksPerRound => hands[s] # {} /\ Fitting(hands[s], m.table) \subseteq {card \in Card : mayPlay(s, card)}
  <2>1. m.type = "TRICK" /\ m.table = table /\ m.trickNo = trickNo /\ nextMove = s
    BY <1>4 DEF Asking, Points
  <2>2. ~HasPlayed(s)
    BY <2>1, AgoType, RulesAssumption DEF HasPlayed, InStep, CountersAgree, GameTypeOK
  <2>3. trickNo <= TricksPerRound => hands[s] # {}
    <3>1. Cardinality(hands[s]) = TricksPerRound + 1 - trickNo
      BY <2>2, RulesAssumption DEF InStep, HandsInStep, GameTypeOK
    <3>2. hands[s] = {} => Cardinality(hands[s]) = 0
      BY FS_EmptySet
    <3>3. trickNo \in Nat /\ TricksPerRound \in Nat
      BY RulesAssumption DEF InStep, GameTypeOK
    <3>4. QED
      BY ONLY <3>1, <3>2, <3>3
  <2>4. Fitting(hands[s], table) \subseteq {card \in Card : mayPlay(s, card)}
    <3>1. ASSUME NEW card \in Fitting(hands[s], table)
          PROVE  card \in hands[s] /\ isMoveLegal(hands[s], card, table)
      <4> DEFINE following == {c \in hands[s] : table # <<>> /\ c.col = table[1].col}
      <4>1. CASE following = {}
        BY <4>1 DEF Fitting, isMoveLegal
      <4>2. CASE following # {}
        BY <4>2 DEF Fitting, isMoveLegal
      <4>3. QED
        BY <4>1, <4>2
    <3>2. QED
      BY <1>1, <2>1, <3>1 DEF mayPlay
  <2>5. QED
    BY <2>1, <2>2, <2>3, <2>4
<1>5. ASSUME NEW m \in Asking(s), m \in Points
      PROVE  ~HasPlayed(s)
  <2>1. GameOver
    BY <1>5 DEF Asking, Points
  <2>2. Len(table) = 0 /\ nextMove \in Sides
    BY <2>1, EmptyLen DEF InStep, CountersAgree, GameTypeOK
  <2>3. QED
    BY <2>2, AgoType DEF HasPlayed
<1>6. trickNo \in Nat
  BY DEF InStep, GameTypeOK
<1>7. QED
  BY <1>1, <1>2, <1>3, <1>4, <1>5, <1>6 DEF Sound, Truth

-----------------------------------------------------------------------------
(* The server sends a player more.                                         *)

\* More of what is asked still fits.
LEMMA FitsMore ==
    ASSUME NEW t, Sound(t), NEW hand, NEW shown, NEW q, Fits(t, hand, shown, q), NEW c \in Seq(t.asking)
    PROVE  Fits(t, hand, shown, q \o c)
<1>1. CASE q \in Seq(t.asking) /\ hand \subseteq t.dealt /\ hand \ (shown \cup t.table) = t.held
  BY <1>1, SameKind DEF Fits
<1>2. CASE hand \subseteq shown /\ NextDeal(t, q)
  <2>1. PICK a \in Seq(Points), m \in Deals, r \in Seq(t.asking) : m.cards = t.held /\ q = a \o (<<m>> \o r)
    BY <1>2 DEF NextDeal
  <2>2. a \in Seq(Letter) /\ m \in Letter /\ r \in Seq(Letter) /\ c \in Seq(Letter)
    BY Wider DEF Points, Deals, Sound
  <2>3. q \o c = a \o (<<m>> \o (r \o c)) /\ r \o c \in Seq(t.asking)
    BY <2>1, <2>2, Behind, SameKind, SMTT(30)
  <2>4. NextDeal(t, q \o c)
    BY <1>2, <2>1, <2>3 DEF NextDeal
  <2>5. QED
    BY <1>2, <2>4 DEF Fits
<1>3. QED
  BY <1>1, <1>2 DEF Fits

\* Somebody else's card.
Beside(t, t2) ==
    /\ t2.dealt = t.dealt /\ t2.held = t.held /\ t2.turn = t.turn
    /\ t.asking = {} /\ t.legal = {}
    /\ \E card : card \notin t.dealt /\ t2.table = t.table \cup {card}

\* What is asked after it fits.
LEMMA FitsBeside ==
    ASSUME NEW t, Sound(t), NEW t2, Sound(t2), Beside(t, t2),
           NEW hand, NEW shown, NEW q, Fits(t, hand, shown, q), NEW c \in Seq(t2.asking)
    PROVE  Fits(t2, hand, shown, q \o c)
<1>1. CASE q \in Seq(t.asking) /\ hand \subseteq t.dealt /\ hand \ (shown \cup t.table) = t.held
  <2>1. q = <<>>
    BY <1>1, NoneSent DEF Beside
  <2>2. q \o c = c
    BY <2>1, Nothing
  <2>3. hand \subseteq t2.dealt /\ hand \ (shown \cup t2.table) = t2.held
    BY <1>1 DEF Beside
  <2>4. QED
    BY <2>2, <2>3 DEF Fits
<1>2. CASE hand \subseteq shown /\ NextDeal(t, q)
  <2>1. PICK a \in Seq(Points), m \in Deals, r \in Seq(t.asking) : m.cards = t.held /\ q = a \o (<<m>> \o r)
    BY <1>2 DEF NextDeal
  <2>2. r = <<>>
    BY NoneSent DEF Beside
  <2>3. a \in Seq(Letter) /\ m \in Letter /\ <<>> \in Seq(Letter) /\ c \in Seq(Letter)
    BY Wider, Nothing DEF Points, Deals, Sound
  <2>4. q \o c = a \o (<<m>> \o (<<>> \o c)) /\ <<>> \o c = c
    BY <2>1, <2>2, <2>3, Behind, Nothing
  <2>5. NextDeal(t2, q \o c)
    BY <1>2, <2>1, <2>4 DEF NextDeal, Beside
  <2>6. QED
    BY <1>2, <2>5 DEF Fits
<1>3. QED
  BY <1>1, <1>2 DEF Fits

\* Tricks to be replayed and more.
LEMMA ReplaysOn ==
    ASSUME NEW t, NEW t2, NEW hand, NEW q, Replays(t, hand, q), NEW c \in Seq(Letter), Sound(t),
           \A shown, r : Fits(t, hand, shown, r) => Fits(t2, hand, shown, r \o c)
    PROVE  Replays(t2, hand, q \o c) /\ q \in Seq(Letter)
<1>1. PICK p \in Seq(FullTricks), r \in Seq(Letter) : q = p \o r /\ Fits(t, hand, CardsIn(p), r)
  BY DEF Replays
<1>2. p \in Seq(Letter)
  BY Wider, LetterTaken DEF FullTricks
<1>3. q \o c = p \o (r \o c) /\ r \o c \in Seq(Letter) /\ q \in Seq(Letter)
  BY <1>1, <1>2, Joined, LettersJoin
<1>4. QED
  BY <1>1, <1>3 DEF Replays

\* What a newcomer gets goes behind what it has not heard yet.
LEMMA NewcomerOn ==
    ASSUME NEW t, NEW t2, NEW b, NEW q, Newcomer(t, b, q), NEW c \in Seq(Letter), Sound(t),
           \A hand, r : Replays(t, hand, r) => Replays(t2, hand, r \o c) /\ r \in Seq(Letter)
    PROVE  Newcomer(t2, b, q \o c)
<1>1. CASE b.stage = "AFTER_FIRST_DEAL" /\ Replays(t, b.hand, q)
  BY <1>1 DEF Newcomer
<1>2. CASE b.stage = "PRE" /\ \E m \in Deals, r \in Seq(Letter) : q = <<m>> \o r /\ Replays(t, m.cards, r)
  <2>1. PICK m \in Deals, r \in Seq(Letter) : q = <<m>> \o r /\ Replays(t, m.cards, r)
    BY <1>2
  <2>2. <<m>> \in Seq(Letter)
    BY Alone DEF Deals
  <2>3. q \o c = <<m>> \o (r \o c) /\ r \o c \in Seq(Letter)
    BY <2>1, <2>2, Joined, LettersJoin
  <2>4. Replays(t2, m.cards, r \o c)
    BY <2>1
  <2>5. QED
    BY <1>2, <2>3, <2>4 DEF Newcomer
<1>3. QED
  BY <1>1, <1>2 DEF Newcomer

\* So does what goes to one whose card is settled.
LEMMA SettlingOn ==
    ASSUME NEW t, NEW t2, NEW b, NEW q, Settling(t, b, q), NEW c \in Seq(Letter), t2.turn = "waits",
           \A r : Fits(t, b.hand, {}, r) => Fits(t2, b.hand, {}, r \o c)
    PROVE  Settling(t2, b, q \o c)
<1>1. PICK a \in Seq(Stale(b)), m \in FullTricks, r \in Seq(Letter) : q = a \o (<<m>> \o r) /\ Fits(t, b.hand, {}, r)
  BY DEF Settling
<1>2. a \in Seq(Letter) /\ m \in Letter
  BY Wider, LetterTaken DEF Stale, FullTricks
<1>3. q \o c = a \o (<<m>> \o (r \o c)) /\ r \o c \in Seq(Letter)
  BY <1>1, <1>2, Behind, LettersJoin, SMTT(30)
<1>4. Fits(t2, b.hand, {}, r \o c)
  BY <1>1
<1>5. QED
  BY <1>1, <1>3, <1>4 DEF Settling

\* A player is asked, or told the last points: nothing goes to a side that has
\* played to the trick.
LEMMA Prompted ==
    ASSUME NEW t, Sound(t), NEW b, NEW q, InPlay(t, b, q), NEW c \in Seq(t.asking),
           t.turn = "waits" \/ (c = <<>> /\ q \in Seq(Letter))
    PROVE  InPlay(t, b, q \o c)
<1>1. CASE c = <<>> /\ q \in Seq(Letter)
  <2>1. q \o c = q
    BY <1>1, Nothing
  <2>2. QED
    BY <2>1
<1>2. CASE t.turn = "waits"
  <2>1. c \in Seq(Letter)
    BY Wider DEF Sound
  <2>2. \A hand, shown, r : Fits(t, hand, shown, r) => Fits(t, hand, shown, r \o c)
    BY FitsMore
  <2>3. CASE Newcomer(t, b, q)
    BY <2>1, <2>2, <2>3, ReplaysOn, NewcomerOn DEF InPlay
  <2>4. CASE Ready(t, b, q)
    BY <2>2, <2>4 DEF InPlay, Ready
  <2>5. CASE Settling(t, b, q)
    BY <1>2, <2>1, <2>2, <2>5, SettlingOn DEF InPlay
  <2>6. CASE CardDown(t, b, q)
    BY <1>2, <2>6 DEF CardDown
  <2>7. CASE CardSent(t, b, q)
    BY <2>7, SameKind DEF InPlay, CardSent
  <2>8. CASE CardRefused(t, b, q)
    <3>1. PICK a \in Seq(t.asking), m \in Wrongs, r \in Seq(t.asking) : q = a \o (<<m>> \o r)
      BY <2>8 DEF CardRefused
    <3>2. a \in Seq(Letter) /\ m \in Letter /\ r \in Seq(Letter)
      BY Wider DEF Wrongs, Sound
    <3>3. q \o c = a \o (<<m>> \o (r \o c)) /\ r \o c \in Seq(t.asking)
      BY <2>1, <3>1, <3>2, Behind, SameKind, SMTT(30)
    <3>4. QED
      BY <2>8, <3>3 DEF InPlay, CardRefused
  <2>9. QED
    BY <2>3, <2>4, <2>5, <2>6, <2>7, <2>8 DEF InPlay
<1>3. QED
  BY <1>1, <1>2

\* Somebody else's card comes on the table.
LEMMA CardBeside ==
    ASSUME NEW t, Sound(t), NEW t2, Sound(t2), Beside(t, t2), NEW b, NEW q, InPlay(t, b, q), NEW c \in Seq(t2.asking),
           t.turn = "waits" \/ c = <<>>
    PROVE  InPlay(t2, b, q \o c)
<1>1. c \in Seq(Letter)
  BY Wider DEF Sound
<1>2. \A hand, shown, r : Fits(t, hand, shown, r) => Fits(t2, hand, shown, r \o c)
  BY FitsBeside
<1>3. t2.turn = t.turn /\ t2.held = t.held /\ t.asking = {} /\ t.legal = {}
  BY DEF Beside
<1>4. CASE Newcomer(t, b, q)
  BY <1>1, <1>2, <1>4, ReplaysOn, NewcomerOn DEF InPlay
<1>5. CASE Ready(t, b, q)
  BY <1>2, <1>3, <1>5 DEF InPlay, Ready
<1>6. CASE Settling(t, b, q)
  <2>1. t2.turn = "waits"
    BY <1>3, <1>6 DEF Settling
  <2>2. QED
    BY <1>1, <1>2, <1>6, <2>1, SettlingOn DEF InPlay
<1>7. CASE CardDown(t, b, q)
  <2>1. q \in Seq(Stale(b)) /\ c = <<>>
    BY <1>7 DEF CardDown
  <2>2. q \o c = q
    BY <2>1, Nothing
  <2>3. QED
    BY <1>3, <1>7, <2>2 DEF InPlay, CardDown
<1>8. CASE CardSent(t, b, q)
  <2>1. PICK card \in Card, no \in 1 .. TricksPerRound : Lent(t, b, card) /\ Answers(t, b, card, no) /\ q \in Seq(t.asking)
    BY <1>8 DEF CardSent
  <2>2. b.kind # "automatic"
    BY <1>3, <2>1 DEF Answers
  <2>3. q = <<>>
    BY <1>3, <2>1, NoneSent
  <2>4. q \o c = c
    BY <2>3, Nothing
  <2>5. Lent(t2, b, card) /\ Answers(t2, b, card, no)
    BY <1>3, <2>1, <2>2 DEF Lent, Answers
  <2>6. QED
    BY <2>2, <2>4, <2>5 DEF InPlay, CardSent
<1>9. CASE CardRefused(t, b, q)
  <2>1. PICK a \in Seq(t.asking), m \in Wrongs, r \in Seq(t.asking) : q = a \o (<<m>> \o r)
    BY <1>9 DEF CardRefused
  <2>2. a = <<>> /\ r = <<>>
    BY <1>3, NoneSent
  <2>3. m \in Letter /\ <<>> \in Seq(Letter) /\ <<>> \in Seq(t2.asking)
    BY Nothing DEF Wrongs
  <2>4. q \o c = <<>> \o (<<m>> \o (<<>> \o c)) /\ <<>> \o c = c
    BY <1>1, <2>1, <2>2, <2>3, Behind, Nothing
  <2>5. \A card : Lent(t, b, card) => Lent(t2, b, card)
    BY <1>3 DEF Lent
  <2>6. QED
    BY <1>9, <2>3, <2>4, <2>5 DEF InPlay, CardRefused
<1>10. QED
  BY <1>4, <1>5, <1>6, <1>7, <1>8, <1>9 DEF InPlay

\* The first card of a message is known from the message.
LEMMA SameCard ==
    ASSUME NEW no, NEW card, NEW no2, NEW card2, <<CardMsg(no, card)>> = <<CardMsg(no2, card2)>>
    PROVE  no = no2 /\ card = card2
BY DEF CardMsg

\* The client after the server has taken its card.
Heard(b, b2) ==
    /\ b2.up = <<>> /\ b2.kind = b.kind /\ b2.stage = b.stage /\ b2.hand = b.hand
    /\ b2.out = b.out /\ b2.next = b.next

\* A card that the server takes was sent by a player that lent it.
LEMMA CardCame ==
    ASSUME NEW t, NEW b, NEW q, InPlay(t, b, q), NEW no, NEW card, b.up = <<CardMsg(no, card)>>
    PROVE  /\ card \in Card /\ no \in 1 .. TricksPerRound /\ Lent(t, b, card) /\ q \in Seq(t.asking)
           /\ b.kind = "automatic" => no = t.no /\ card \in t.legal /\ b.next = t.no + 1
<1>1. b.up # <<>>
  OBVIOUS
<1>2. CardSent(t, b, q)
  BY <1>1 DEF InPlay, Newcomer, Ready, Settling, CardDown, CardRefused
<1>3. PICK card2 \in Card, no2 \in 1 .. TricksPerRound :
        /\ Lent(t, b, card2) /\ Answers(t, b, card2, no2)
        /\ q \in Seq(t.asking) /\ (b.kind = "automatic" => b.next = t.no + 1)
  BY <1>2 DEF CardSent
<1>4. no2 = no /\ card2 = card
  BY <1>3, SameCard DEF Answers
<1>5. QED
  BY <1>3, <1>4 DEF Answers

\* What is asked of a player that has sent its card is stale when the card is
\* taken.
LEMMA StaleNow ==
    ASSUME NEW t, NEW b, NEW b2, Heard(b, b2), b.kind = "automatic" => b.next = t.no + 1, t.no \in Nat,
           \A m \in t.asking : m \in Letter /\ m.type = "TRICK" /\ m.trickNo = t.no /\ t.no <= TricksPerRound,
           NEW q \in Seq(t.asking)
    PROVE  q \in Seq(Stale(b2))
<1>1. t.asking \subseteq Stale(b2)
  BY DEF Stale, Heard
<1>2. QED
  BY <1>1, Wider

\* A player's own card comes on the table.
LEMMA OwnCard ==
    ASSUME NEW t, Sound(t), NEW t2, NEW b, NEW q, InPlay(t, b, q), NEW no, NEW card, b.up = <<CardMsg(no, card)>>,
           NEW b2, Heard(b, b2), t2.turn = "played", t2.held = t.held \ {card},
           \A m \in t.asking : m.type = "TRICK" /\ m.trickNo = t.no /\ t.no <= TricksPerRound
    PROVE  CardDown(t2, b2, q)
<1>1. card \in Card /\ Lent(t, b, card) /\ q \in Seq(t.asking) /\ (b.kind = "automatic" => b.next = t.no + 1)
  BY CardCame
<1>2. q \in Seq(Stale(b2))
  BY <1>1, StaleNow DEF Sound
<1>3. b2.hand = t2.held
  BY <1>1 DEF Lent, Heard
<1>4. QED
  BY <1>1, <1>2, <1>3 DEF CardDown, Lent, Later, Heard

\* It completes the trick.
LEMMA OwnTrick ==
    ASSUME NEW t, Sound(t), NEW t2, NEW b, NEW q, InPlay(t, b, q), NEW no, NEW card, b.up = <<CardMsg(no, card)>>,
           NEW b2, Heard(b, b2), t2.turn = "waits",
           \A m \in t.asking : m.type = "TRICK" /\ m.trickNo = t.no /\ t.no <= TricksPerRound,
           NEW turn \in FullTricks, NEW rest \in Seq(Letter),
           \A hand, shown : hand \subseteq t.dealt /\ hand \ shown = t.held \ {card} => Fits(t2, hand, shown, rest)
    PROVE  Settling(t2, b2, q \o (<<turn>> \o rest))
<1>1. card \in Card /\ Lent(t, b, card) /\ q \in Seq(t.asking) /\ (b.kind = "automatic" => b.next = t.no + 1)
  BY CardCame
<1>2. q \in Seq(Stale(b2))
  BY <1>1, StaleNow DEF Sound
<1>3. b2.hand = t.held \ {card} /\ b2.hand \subseteq t.dealt
  BY <1>1 DEF Lent, Heard, Sound
<1>4. Fits(t2, b2.hand, {}, rest)
  BY <1>3
<1>5. QED
  BY <1>1, <1>2, <1>4 DEF Settling, Lent, Later, Heard

\* Somebody else's card completes the trick.
LEMMA TrickBeside ==
    ASSUME NEW t, Sound(t), NEW t2, NEW b, NEW q, InPlay(t, b, q),
           t.turn = "played", t.asking = {}, t2.turn = "waits",
           NEW turn \in FullTricks, NEW card, card \notin t.dealt, CardsOf(turn.table) = t.table \cup {card},
           NEW rest \in Seq(Letter),
           \A hand, shown : hand \subseteq t.dealt /\ hand \ shown = t.held => Fits(t2, hand, shown, rest)
    PROVE  InPlay(t2, b, q \o (<<turn>> \o rest))
<1>1. turn \in Letter /\ <<turn>> \in Seq(Letter) /\ <<turn>> \o rest \in Seq(Letter)
  BY LetterTaken, Alone, LettersJoin DEF FullTricks
<1>2. CASE Newcomer(t, b, q)
  <2>1. ASSUME NEW hand, NEW r, Replays(t, hand, r)
        PROVE  Replays(t2, hand, r \o (<<turn>> \o rest)) /\ r \in Seq(Letter)
    <3>1. PICK p \in Seq(FullTricks), x \in Seq(Letter) : r = p \o x /\ Fits(t, hand, CardsIn(p), x)
      BY <2>1 DEF Replays
    <3>2. x \in Seq(t.asking) /\ hand \subseteq t.dealt /\ hand \ (CardsIn(p) \cup t.table) = t.held
      BY <3>1 DEF Fits, NextDeal
    <3>3. x = <<>>
      BY <3>2, NoneSent
    <3>4. r = p /\ p \in Seq(Letter)
      BY <3>1, <3>3, Nothing, Wider, LetterTaken DEF FullTricks
    <3>5. r \o (<<turn>> \o rest) = (p \o <<turn>>) \o rest
      BY <1>1, <3>4, Joined
    <3>6. p \o <<turn>> \in Seq(FullTricks) /\ CardsIn(p \o <<turn>>) = CardsIn(p) \cup CardsOf(turn.table)
      BY CardsOfMore
    <3>7. hand \ CardsIn(p \o <<turn>>) = t.held
      BY <3>2, <3>6
    <3>8. Fits(t2, hand, CardsIn(p \o <<turn>>), rest)
      BY <3>2, <3>7
    <3>9. QED
      BY <3>4, <3>5, <3>6, <3>8 DEF Replays
  <2>2. QED
    BY <1>1, <1>2, <2>1, NewcomerOn DEF InPlay
<1>3. CASE CardDown(t, b, q)
  <2>1. b.hand = t.held /\ q \in Seq(Stale(b))
    BY <1>3 DEF CardDown
  <2>2. Fits(t2, b.hand, {}, rest)
    BY <2>1 DEF Sound
  <2>3. QED
    BY <1>3, <2>1, <2>2 DEF InPlay, Settling, CardDown
<1>4. QED
  BY <1>2, <1>3 DEF InPlay, Ready, Settling, CardSent, CardRefused, Lent

\* The card is refused.
LEMMA CardBack ==
    ASSUME NEW t, Sound(t), NEW b, NEW q, InPlay(t, b, q), NEW no, NEW card, b.up = <<CardMsg(no, card)>>,
           b.kind = "console", NEW b2, Heard(b, b2), NEW m \in Wrongs
    PROVE  CardRefused(t, b2, q \o <<m>>)
<1>1. card \in Card /\ Lent(t, b, card) /\ q \in Seq(t.asking)
  BY CardCame
<1>2. m \in Letter /\ <<m>> \in Seq(Letter)
  BY Alone DEF Wrongs
<1>3. <<m>> = <<m>> \o <<>> /\ <<>> \in Seq(t.asking)
  BY <1>2, Nothing
<1>4. Lent(t, b2, card)
  BY <1>1 DEF Lent, Later, Heard
<1>5. QED
  BY <1>1, <1>3, <1>4 DEF CardRefused, Heard

\* Somebody comes into the round.
LEMMA Arrived ==
    ASSUME NEW t, Sound(t), NEW b, b.stage = "PRE", b.out = <<>>, b.up = <<>>, b.waiting = FALSE,
           NEW m \in Deals, NEW p \in Seq(FullTricks), NEW c \in Seq(t.asking),
           m.cards \subseteq t.dealt, m.cards \ (CardsIn(p) \cup t.table) = t.held
    PROVE  InPlay(t, b, <<m>> \o (p \o c))
<1>1. p \in Seq(Letter) /\ c \in Seq(Letter)
  BY Wider, LetterTaken DEF FullTricks, Sound
<1>2. p \o c \in Seq(Letter)
  BY <1>1, LettersJoin
<1>3. Fits(t, m.cards, CardsIn(p), c)
  BY DEF Fits
<1>4. Replays(t, m.cards, p \o c)
  BY <1>1, <1>3 DEF Replays
<1>5. QED
  BY <1>2, <1>4 DEF InPlay, Newcomer

-----------------------------------------------------------------------------
(* A player hears a message.                                               *)

\* What comes first when it fits.
LEMMA FitsFirst ==
    ASSUME NEW t, Sound(t), NEW hand, NEW shown, NEW q, Fits(t, hand, shown, q), q # <<>>
    PROVE  \/ /\ Head(q) \in t.asking \cup Points /\ Fits(t, hand, shown, Tail(q)) /\ t.turn = "waits"
              /\ Head(q) \notin Points =>
                   /\ Head(q) \in t.asking /\ Tail(q) \in Seq(t.asking)
                   /\ hand \subseteq t.dealt /\ hand \ (shown \cup t.table) = t.held
           \/ /\ Head(q) \in Deals /\ Head(q).cards = t.held /\ Tail(q) \in Seq(t.asking) /\ t.turn = "waits"
<1>1. CASE q \in Seq(t.asking) /\ hand \subseteq t.dealt /\ hand \ (shown \cup t.table) = t.held
  <2>1. Head(q) \in t.asking /\ Tail(q) \in Seq(t.asking)
    BY <1>1, FirstOf
  <2>2. Fits(t, hand, shown, Tail(q)) /\ t.turn = "waits"
    BY <1>1, <2>1 DEF Fits, Sound
  <2>3. QED
    BY <1>1, <2>1, <2>2
<1>2. CASE hand \subseteq shown /\ NextDeal(t, q)
  <2>1. PICK a \in Seq(Points), m \in Deals, r \in Seq(t.asking) : m.cards = t.held /\ q = a \o (<<m>> \o r)
    BY <1>2 DEF NextDeal
  <2>2. m \in Letter /\ r \in Seq(Letter) /\ Points \in SUBSET Letter
    BY Wider DEF Deals, Points, Sound
  <2>4. /\ a = <<>> => Head(q) = m /\ Tail(q) = r
        /\ a # <<>> => Head(q) \in Points /\ Tail(a) \in Seq(Points) /\ Tail(q) = Tail(a) \o (<<m>> \o r)
    <3>1. Divided(q, Points, a, m, r)
      BY <2>1, <2>2 DEF Divided
    <3>2. Splits(q, Points, a, m, r)
      BY ONLY <3>1, FirstBefore, Zenon
    <3>3. QED
      BY ONLY <3>2 DEF Splits
  <2>5. CASE a = <<>>
    BY <1>2, <2>1, <2>4, <2>5 DEF NextDeal
  <2>6. CASE a # <<>>
    <3>1. NextDeal(t, Tail(q))
      BY <1>2, <2>1, <2>4, <2>6 DEF NextDeal
    <3>2. QED
      BY <1>2, <2>4, <2>6, <3>1 DEF Fits, NextDeal
  <2>7. QED
    BY <2>5, <2>6
<1>3. QED
  BY <1>1, <1>2 DEF Fits

\* What comes first when tricks are replayed.
LEMMA ReplayFirst ==
    ASSUME NEW t, NEW hand, NEW q, Replays(t, hand, q)
    PROVE  \/ Fits(t, hand, {}, q)
           \/ /\ q # <<>> /\ Head(q) \in FullTricks
              /\ Replays(t, hand \ CardsOf(Head(q).table), Tail(q))
<1>1. PICK p \in Seq(FullTricks), r \in Seq(Letter) : q = p \o r /\ Fits(t, hand, CardsIn(p), r)
  BY DEF Replays
<1>2. FullTricks \in SUBSET Letter
  BY LetterTaken DEF FullTricks
<1>3. /\ p = <<>> => q = r
      /\ p # <<>> => /\ q # <<>> /\ Head(q) = Head(p) /\ Head(p) \in FullTricks
                     /\ Tail(p) \in Seq(FullTricks) /\ Tail(q) = Tail(p) \o r
  BY <1>1, <1>2, FirstPart, SMTT(30)
<1>4. CASE p = <<>>
  BY <1>1, <1>3, <1>4, CardsOfNone
<1>5. CASE p # <<>>
  <2> DEFINE first == CardsOf(Head(p).table)
  <2>1. CardsIn(p) = first \cup CardsIn(Tail(p))
    BY <1>5, CardsOfFirst
  <2>2. Fits(t, hand \ first, CardsIn(Tail(p)), r)
    <3> HIDE DEF first
    <3>1. QED
      BY <1>1, <2>1 DEF Fits
  <2>3. Replays(t, hand \ first, Tail(q))
    BY <1>3, <1>5, <2>2 DEF Replays
  <2>4. QED
    BY <1>3, <1>5, <2>3
<1>6. QED
  BY <1>4, <1>5

\* A card is out, and what comes does not change it.
Out(t, b, q) == Settling(t, b, q) \/ CardDown(t, b, q) \/ CardSent(t, b, q) \/ CardRefused(t, b, q)

\* What the first message is to a player.
DealtIn(t, b, q) ==
    /\ Head(q) \in Deals /\ b.stage = "PRE" /\ b.out = <<>> /\ b.up = <<>> /\ b.waiting = FALSE
    /\ Replays(t, Head(q).cards, Tail(q))
Replayed(t, b, q) ==
    /\ Head(q) \in FullTricks /\ b.stage = "AFTER_FIRST_DEAL"
    /\ b.out = <<>> /\ b.up = <<>> /\ b.waiting = FALSE
    /\ Replays(t, b.hand \ CardsOf(Head(q).table), Tail(q))
Asked(t, b, q) ==
    /\ Head(q) \in t.asking \cup Points /\ b.out = <<>> /\ b.up = <<>> /\ t.turn = "waits"
    /\ Fits(t, b.hand, {}, Tail(q))
    /\ Head(q) \notin Points =>
         /\ Head(q) \in t.asking /\ Tail(q) \in Seq(t.asking)
         /\ b.hand = t.held
DealtAgain(t, b, q) ==
    /\ Head(q) \in Deals /\ Head(q).cards = t.held /\ Tail(q) \in Seq(t.asking)
    /\ b.stage # "PRE" /\ b.out = <<>> /\ b.up = <<>> /\ t.turn = "waits"
Reminded(t, b, q) ==
    /\ Head(q) \in Stale(b) \cup t.asking /\ Later(b) /\ Out(t, b, Tail(q))
    /\ Head(q).type = "TRICK" /\ b.kind = "automatic" => Head(q).trickNo < b.next
TrickHeard(t, b, q) ==
    /\ Head(q) \in FullTricks /\ Later(b) /\ b.up = <<>> /\ t.turn = "waits"
    /\ \E card \in Card : b.out = <<card>>
    /\ Fits(t, b.hand, {}, Tail(q))
Returned(t, b, q) ==
    /\ Head(q) \in Wrongs /\ Tail(q) \in Seq(t.asking) /\ b.kind = "console" /\ b.up = <<>>
    /\ \E card \in Card : Lent(t, b, card)

\* Of one who has no card out.
LEMMA FirstToFree ==
    ASSUME NEW t, Sound(t), NEW b, NEW q, q # <<>>, Fits(t, b.hand, {}, q),
           b.stage # "PRE", b.out = <<>>, b.up = <<>>
    PROVE  Asked(t, b, q) \/ DealtAgain(t, b, q)
<1>1. CASE Head(q) \in Deals /\ Head(q).cards = t.held /\ Tail(q) \in Seq(t.asking) /\ t.turn = "waits"
  BY <1>1 DEF DealtAgain
<1>2. CASE /\ Head(q) \in t.asking \cup Points /\ Fits(t, b.hand, {}, Tail(q)) /\ t.turn = "waits"
           /\ Head(q) \notin Points =>
                /\ Head(q) \in t.asking /\ Tail(q) \in Seq(t.asking)
                /\ b.hand \subseteq t.dealt /\ b.hand \ ({} \cup t.table) = t.held
  <2>1. Head(q) \notin Points => b.hand = t.held
    BY <1>2 DEF Sound
  <2>2. QED
    BY <1>2, <2>1 DEF Asked
<1>3. QED
  BY <1>1, <1>2, FitsFirst

\* Of a newcomer.
LEMMA FirstToNewcomer ==
    ASSUME NEW t, Sound(t), NEW b, NEW q, q # <<>>, Newcomer(t, b, q)
    PROVE  DealtIn(t, b, q) \/ Replayed(t, b, q) \/ Asked(t, b, q) \/ DealtAgain(t, b, q)
<1>1. CASE b.stage = "AFTER_FIRST_DEAL" /\ Replays(t, b.hand, q)
  <2>1. CASE Fits(t, b.hand, {}, q)
    BY <1>1, <2>1, FirstToFree DEF Newcomer
  <2>2. CASE Head(q) \in FullTricks /\ Replays(t, b.hand \ CardsOf(Head(q).table), Tail(q))
    BY <1>1, <2>2 DEF Newcomer, Replayed
  <2>3. QED
    BY <1>1, <2>1, <2>2, ReplayFirst
<1>2. CASE b.stage = "PRE" /\ \E m \in Deals, r \in Seq(Letter) : q = <<m>> \o r /\ Replays(t, m.cards, r)
  <2>1. PICK m \in Deals, r \in Seq(Letter) : q = <<m>> \o r /\ Replays(t, m.cards, r)
    BY <1>2
  <2>2. Head(q) = m /\ Tail(q) = r
    BY <2>1, FirstIs DEF Deals
  <2>3. QED
    BY <1>2, <2>1, <2>2 DEF Newcomer, DealtIn
<1>3. QED
  BY <1>1, <1>2 DEF Newcomer

\* Of one whose card is to be settled.
LEMMA FirstToSettle ==
    ASSUME NEW t, Sound(t), NEW b, NEW q, q # <<>>, Settling(t, b, q)
    PROVE  Reminded(t, b, q) \/ TrickHeard(t, b, q)
<1>1. PICK a \in Seq(Stale(b)), m \in FullTricks, r \in Seq(Letter) : q = a \o (<<m>> \o r) /\ Fits(t, b.hand, {}, r)
  BY DEF Settling
<1>2. m \in Letter /\ Stale(b) \in SUBSET Letter
  BY LetterTaken DEF Stale, FullTricks
<1>4. /\ a = <<>> => Head(q) = m /\ Tail(q) = r
      /\ a # <<>> => Head(q) \in Stale(b) /\ Tail(a) \in Seq(Stale(b)) /\ Tail(q) = Tail(a) \o (<<m>> \o r)
  <2>1. Divided(q, Stale(b), a, m, r)
    BY <1>1, <1>2 DEF Divided
  <2>2. Splits(q, Stale(b), a, m, r)
    BY ONLY <2>1, FirstBefore, Zenon
  <2>3. QED
    BY ONLY <2>2 DEF Splits
<1>5. CASE a = <<>>
  BY <1>1, <1>4, <1>5 DEF TrickHeard, Settling
<1>6. CASE a # <<>>
  <2>1. Settling(t, b, Tail(q))
    BY <1>1, <1>4, <1>6 DEF Settling
  <2>2. QED
    BY <1>4, <1>6, <2>1 DEF Reminded, Out, Stale, Settling
<1>7. QED
  BY <1>5, <1>6

\* Of one whose card is refused.
LEMMA FirstToRefused ==
    ASSUME NEW t, Sound(t), NEW b, NEW q, q # <<>>, CardRefused(t, b, q)
    PROVE  Reminded(t, b, q) \/ Returned(t, b, q)
<1>1. PICK a \in Seq(t.asking), m \in Wrongs, r \in Seq(t.asking) : q = a \o (<<m>> \o r)
  BY DEF CardRefused
<1>2. m \in Letter /\ t.asking \in SUBSET Letter /\ r \in Seq(Letter)
  BY Wider DEF Wrongs, Sound
<1>4. /\ a = <<>> => Head(q) = m /\ Tail(q) = r
      /\ a # <<>> => Head(q) \in t.asking /\ Tail(a) \in Seq(t.asking) /\ Tail(q) = Tail(a) \o (<<m>> \o r)
  <2>1. Divided(q, t.asking, a, m, r)
    BY <1>1, <1>2 DEF Divided
  <2>2. Splits(q, t.asking, a, m, r)
    BY ONLY <2>1, FirstBefore, Zenon
  <2>3. QED
    BY ONLY <2>2 DEF Splits
<1>5. CASE a = <<>>
  BY <1>1, <1>4, <1>5 DEF Returned, CardRefused
<1>6. CASE a # <<>>
  <2>1. CardRefused(t, b, Tail(q))
    BY <1>1, <1>4, <1>6 DEF CardRefused
  <2>2. QED
    BY <1>4, <1>6, <2>1 DEF Reminded, Out, CardRefused, Lent
<1>7. QED
  BY <1>5, <1>6

\* Of anyone.
LEMMA FirstHeard ==
    ASSUME NEW t, Sound(t), NEW b, NEW q, q # <<>>, InPlay(t, b, q)
    PROVE  \/ DealtIn(t, b, q) \/ Replayed(t, b, q) \/ Asked(t, b, q) \/ DealtAgain(t, b, q)
           \/ Reminded(t, b, q) \/ TrickHeard(t, b, q) \/ Returned(t, b, q)
<1>1. CASE Newcomer(t, b, q)
  BY <1>1, FirstToNewcomer
<1>2. CASE Ready(t, b, q)
  BY <1>2, FirstToFree DEF Ready, Later
<1>3. CASE Settling(t, b, q)
  BY <1>3, FirstToSettle
<1>4. CASE CardDown(t, b, q)
  <2>1. Head(q) \in Stale(b) /\ Tail(q) \in Seq(Stale(b))
    BY <1>4, FirstOf DEF CardDown
  <2>2. CardDown(t, b, Tail(q))
    BY <1>4, <2>1 DEF CardDown
  <2>3. QED
    BY <1>4, <2>1, <2>2 DEF Reminded, Out, Stale, CardDown
<1>5. CASE CardSent(t, b, q)
  <2>1. PICK card \in Card, no \in 1 .. TricksPerRound :
          /\ Lent(t, b, card) /\ Answers(t, b, card, no)
          /\ q \in Seq(t.asking) /\ (b.kind = "automatic" => b.next = t.no + 1)
    BY <1>5 DEF CardSent
  <2>2. Head(q) \in t.asking /\ Tail(q) \in Seq(t.asking)
    BY <2>1, FirstOf
  <2>3. CardSent(t, b, Tail(q))
    BY <2>1, <2>2 DEF CardSent
  <2>4. Head(q).type = "TRICK" /\ b.kind = "automatic" => Head(q).trickNo < b.next
    BY <2>1, <2>2 DEF Sound, Points
  <2>5. QED
    BY <2>1, <2>2, <2>3, <2>4 DEF Reminded, Out, Lent
<1>6. CASE CardRefused(t, b, q)
  BY <1>6, FirstToRefused
<1>7. QED
  BY <1>1, <1>2, <1>3, <1>4, <1>5, <1>6 DEF InPlay

\* The kinds of messages do not mix.
LEMMA Kinds ==
    ASSUME NEW t, Sound(t), NEW b, NEW m
    PROVE  /\ m \in FullTricks => m.type = "TAKEN" /\ m.trickNo \in 1 .. TricksPerRound
           /\ m \in Deals => m.type = "DEAL"
           /\ m \in Wrongs => m.type = "WRONG"
           /\ m \in Points => m.type \in {"SCORE", "TOTAL"}
           /\ m \in Stale(b) => m.type = "TRICK"
           /\ m \in t.asking => m.type = "TRICK" \/ m \in Points
BY DEF FullTricks, Messages, Deals, Wrongs, Points, Stale, Sound

\* A client that keeps its cards.
Keeps(b, b2) ==
    b2.kind = b.kind /\ b2.hand = b.hand /\ b2.out = b.out /\ b2.next = b.next /\ b2.up = b.up

\* A card that is out stays out.
LEMMA OutStays ==
    ASSUME NEW t, NEW b, NEW q, Out(t, b, q), NEW b2, Keeps(b, b2), Later(b2)
    PROVE  InPlay(t, b2, q)
<1>1. Stale(b2) = Stale(b) /\ b2.kind = b.kind /\ b2.hand = b.hand /\ b2.out = b.out /\ b2.next = b.next /\ b2.up = b.up
  BY DEF Stale, Keeps
<1>2. CASE Settling(t, b, q)
  BY <1>1, <1>2 DEF InPlay, Settling
<1>3. CASE CardDown(t, b, q)
  BY <1>1, <1>3 DEF InPlay, CardDown
<1>4. \A card : Lent(t, b, card) => Lent(t, b2, card)
  BY <1>1 DEF Lent
<1>5. \A card, no : Answers(t, b, card, no) => Answers(t, b2, card, no)
  BY <1>1 DEF Answers
<1>6. CASE CardSent(t, b, q)
  BY <1>1, <1>4, <1>5, <1>6 DEF InPlay, CardSent
<1>7. CASE CardRefused(t, b, q)
  BY <1>1, <1>4, <1>7 DEF InPlay, CardRefused
<1>8. QED
  BY <1>2, <1>3, <1>6, <1>7 DEF Out

\* A prompt that is not answered, and points.
LEMMA HearKeep ==
    ASSUME NEW t, Sound(t), NEW b, NEW q, q # <<>>, InPlay(t, b, q),
           Head(q).type \in {"TRICK", "SCORE", "TOTAL"}, NEW b2, Keeps(b, b2), Later(b2)
    PROVE  InPlay(t, b2, Tail(q))
<1>1. Asked(t, b, q) \/ Reminded(t, b, q)
  BY FirstHeard, Kinds DEF DealtIn, Replayed, DealtAgain, TrickHeard, Returned
<1>2. CASE Asked(t, b, q)
  BY <1>2 DEF Asked, Keeps, InPlay, Ready
<1>3. CASE Reminded(t, b, q)
  BY <1>3, OutStays DEF Reminded
<1>4. QED
  BY <1>1, <1>2, <1>3

\* A prompt that is answered at once.
LEMMA HearAnswer ==
    ASSUME NEW t, Sound(t), NEW b, NEW q, q # <<>>, InPlay(t, b, q), b.kind = "automatic",
           NEW m, m = Head(q), m.type = "TRICK", m \in Letter, m.trickNo <= TricksPerRound, ~(m.trickNo < b.next),
           NEW card \in Fitting(b.hand, m.table),
           NEW b2, b2.kind = b.kind, Later(b2), b2.hand = b.hand \ {card},
           b2.out = Append(b.out, card), b2.up = Append(b.up, CardMsg(m.trickNo, card)), b2.next = m.trickNo + 1
    PROVE  InPlay(t, b2, Tail(q))
<1>1. Asked(t, b, q)
  BY FirstHeard, Kinds DEF DealtIn, Replayed, DealtAgain, Reminded, TrickHeard, Returned
<1>2. m \notin Points
  BY DEF Points
<1>3. /\ m \in t.asking /\ Tail(q) \in Seq(t.asking) /\ b.hand = t.held
      /\ b.out = <<>> /\ b.up = <<>> /\ t.turn = "waits"
  BY <1>1, <1>2 DEF Asked
<1>4. m.trickNo = t.no /\ Fitting(t.held, m.table) \subseteq t.legal
  BY <1>2, <1>3 DEF Sound
<1>5. card \in t.legal /\ card \in t.held /\ card \in Card
  BY <1>3, <1>4 DEF Fitting, Sound
<1>6. m.trickNo \in 1 .. TricksPerRound
  <2>1. m.trickNo \in 1 .. TricksPerRound + 1
    BY DEF Letter, Messages
  <2>2. QED
    BY <2>1, RulesAssumption
<1>7. b2.out = <<card>> /\ b2.up = <<CardMsg(m.trickNo, card)>>
  BY <1>3
<1>8. Lent(t, b2, card) /\ Answers(t, b2, card, m.trickNo)
  BY <1>3, <1>4, <1>5, <1>7 DEF Lent, Answers
<1>9. QED
  BY <1>3, <1>4, <1>5, <1>6, <1>8 DEF InPlay, CardSent

\* A deal.
LEMMA HearDeal ==
    ASSUME NEW t, Sound(t), NEW b, NEW q, q # <<>>, InPlay(t, b, q), Head(q).type = "DEAL",
           NEW b2, b2.stage = IF b.stage = "PRE" THEN "AFTER_FIRST_DEAL" ELSE "AFTER_DEAL",
           b2.hand = Head(q).cards, b2.out = b.out, b2.up = b.up, b2.waiting = b.waiting
    PROVE  InPlay(t, b2, Tail(q))
<1>1. DealtIn(t, b, q) \/ DealtAgain(t, b, q)
  BY FirstHeard, Kinds DEF Replayed, Asked, Reminded, TrickHeard, Returned
<1>2. CASE DealtIn(t, b, q)
  BY <1>2 DEF DealtIn, InPlay, Newcomer
<1>3. CASE DealtAgain(t, b, q)
  <2>1. Later(b2) /\ b2.out = <<>> /\ b2.up = <<>> /\ t.turn = "waits" /\ b2.hand = t.held /\ Tail(q) \in Seq(t.asking)
    BY <1>3 DEF DealtAgain, Later
  <2>2. Fits(t, b2.hand, {}, Tail(q))
    BY <2>1 DEF Fits, Sound
  <2>3. QED
    BY <2>1, <2>2 DEF InPlay, Ready
<1>4. QED
  BY <1>1, <1>2, <1>3

\* A trick: one that is replayed, or the one with the card that was out.
LEMMA HearTaken ==
    ASSUME NEW t, Sound(t), NEW b, NEW q, q # <<>>, InPlay(t, b, q), Head(q).type = "TAKEN",
           NEW b2, b2.stage = b.stage, b2.up = b.up, b2.waiting = b.waiting,
           IF b.stage = "AFTER_FIRST_DEAL"
             THEN b2.hand = b.hand \ Oldest(Head(q).table, NSides) /\ b2.out = b.out
             ELSE b2.hand = b.hand /\ b2.out = SubSeq(b.out, 2, Len(b.out))
    PROVE  InPlay(t, b2, Tail(q)) /\ Head(q) \in FullTricks
<1>1. Replayed(t, b, q) \/ TrickHeard(t, b, q)
  BY FirstHeard, Kinds DEF DealtIn, Asked, DealtAgain, Reminded, Returned
<1>2. Head(q) \in FullTricks
  BY <1>1 DEF Replayed, TrickHeard
<1>3. CASE Replayed(t, b, q)
  <2>1. Oldest(Head(q).table, NSides) = CardsOf(Head(q).table)
    BY <1>2 DEF FullTricks, Messages, Oldest, CardsOf
  <2>2. QED
    BY <1>2, <1>3, <2>1 DEF Replayed, InPlay, Newcomer
<1>4. CASE TrickHeard(t, b, q)
  <2>1. b.stage # "AFTER_FIRST_DEAL" /\ Later(b2)
    BY <1>4 DEF TrickHeard, Later
  <2>2. b2.out = <<>>
    <3>1. PICK card \in Card : b.out = <<card>>
      BY <1>4 DEF TrickHeard
    <3>2. b2.out = SubSeq(b.out, 2, Len(b.out))
      BY <2>1
    <3>3. SubSeq(<<card>>, 2, Len(<<card>>)) = <<>>
      OBVIOUS
    <3>4. QED
      BY <3>1, <3>2, <3>3
  <2>3. QED
    BY <1>2, <1>4, <2>1, <2>2 DEF TrickHeard, InPlay, Ready
<1>5. QED
  BY <1>1, <1>2, <1>3, <1>4

\* The card comes back.
LEMMA HearWrong ==
    ASSUME NEW t, Sound(t), NEW b, NEW q, q # <<>>, InPlay(t, b, q), Head(q).type = "WRONG",
           NEW b2, b2.stage = b.stage, b2.up = b.up,
           b2.hand = b.hand \cup Oldest(b.out, 1), b2.out = SubSeq(b.out, 2, Len(b.out))
    PROVE  InPlay(t, b2, Tail(q))
<1>1. Returned(t, b, q)
  BY FirstHeard, Kinds DEF DealtIn, Replayed, Asked, DealtAgain, Reminded, TrickHeard
<1>2. PICK card \in Card : Lent(t, b, card)
  BY <1>1 DEF Returned
<1>3. b.out = <<card>>
  BY <1>2 DEF Lent
<1>4. b2.out = <<>> /\ Oldest(b.out, 1) = {card}
  BY <1>3 DEF Oldest
<1>5. b2.hand = t.held /\ t.turn = "waits" /\ Later(b2) /\ b2.up = <<>> /\ Tail(q) \in Seq(t.asking)
  BY <1>1, <1>2, <1>4 DEF Lent, Later, Returned
<1>6. Fits(t, b2.hand, {}, Tail(q))
  BY <1>5 DEF Fits, Sound
<1>7. QED
  BY <1>4, <1>5, <1>6 DEF InPlay, Ready

\* Nobody who plays is refused.
LEMMA HearNoBusy ==
    ASSUME NEW t, Sound(t), NEW b, NEW q, q # <<>>, InPlay(t, b, q)
    PROVE  Head(q).type # "BUSY"
BY FirstHeard, Kinds DEF DealtIn, Replayed, Asked, DealtAgain, Reminded, TrickHeard, Returned

\* An automatic player that is to answer holds cards.
LEMMA AskedHolds ==
    ASSUME NEW t, Sound(t), NEW b, NEW q, q # <<>>, InPlay(t, b, q), b.kind = "automatic",
           Head(q).type = "TRICK", Head(q).trickNo <= TricksPerRound, ~(Head(q).trickNo < b.next)
    PROVE  b.hand # {}
<1>1. Asked(t, b, q) /\ Head(q) \notin Points
  BY FirstHeard, Kinds DEF DealtIn, Replayed, DealtAgain, Reminded, TrickHeard, Returned, Points
<1>2. QED
  BY <1>1 DEF Asked, Sound

\* Something is on its way where there is a message.
LEMMA SomethingComes ==
    ASSUME NEW a \in Seq(Letter), NEW m \in Letter, NEW r \in Seq(Letter)
    PROVE  a \o (<<m>> \o r) # <<>>
<1>1. <<m>> \o r # <<>> /\ <<m>> \o r \in Seq(Letter)
  BY FirstIs
<1>2. Letter \in SUBSET Letter
  OBVIOUS
<1>3. QED
  BY <1>1, <1>2, FirstPart

\* A hand that fits with nothing on its way is right.
LEMMA FitsNow ==
    ASSUME NEW t, Sound(t), NEW hand, NEW shown, Fits(t, hand, shown, <<>>)
    PROVE  hand \subseteq t.dealt /\ hand \ (shown \cup t.table) = t.held
<1>1. ~NextDeal(t, <<>>)
  <2> SUFFICES ASSUME NEW a \in Seq(Points), NEW m \in Deals, NEW r \in Seq(t.asking), <<>> = a \o (<<m>> \o r)
               PROVE  FALSE
    BY DEF NextDeal
  <2>1. a \in Seq(Letter) /\ m \in Letter /\ r \in Seq(Letter)
    BY Wider DEF Points, Deals, Sound
  <2>2. QED
    BY <2>1, SomethingComes
<1>2. QED
  BY <1>1 DEF Fits

\* When nothing is on its way, the hand is right but for the player's card on
\* the table.
LEMMA NothingOnItsWay ==
    ASSUME NEW t, Sound(t), NEW b, InPlay(t, b, <<>>), b.up = <<>>
    PROVE  b.hand \ t.table = t.held
<1>1. ASSUME NEW a \in Seq(Letter), NEW m \in Letter, NEW r \in Seq(Letter), <<>> = a \o (<<m>> \o r)
      PROVE  FALSE
  BY <1>1, SomethingComes
<1>2. CASE Newcomer(t, b, <<>>)
  <2>1. b.stage # "PRE"
    <3> SUFFICES ASSUME NEW m \in Deals, NEW r \in Seq(Letter), <<>> = <<m>> \o r
                 PROVE  FALSE
      BY <1>2 DEF Newcomer
    <3>1. QED
      BY FirstIs DEF Deals
  <2>2. PICK p \in Seq(FullTricks), r \in Seq(Letter) : <<>> = p \o r /\ Fits(t, b.hand, CardsIn(p), r)
    BY <1>2, <2>1 DEF Newcomer, Replays
  <2>3. p = <<>> /\ r = <<>>
    <3>1. FullTricks \in SUBSET Letter
      BY LetterTaken DEF FullTricks
    <3>2. QED
      BY <2>2, <3>1, FirstPart
  <2>4. QED
    BY <2>2, <2>3, CardsOfNone, FitsNow
<1>3. CASE Ready(t, b, <<>>)
  BY <1>3, FitsNow DEF Ready
<1>4. CASE CardDown(t, b, <<>>)
  BY <1>4 DEF CardDown, Sound
<1>5. ~Settling(t, b, <<>>)
  <2> SUFFICES ASSUME NEW a \in Seq(Stale(b)), NEW m \in FullTricks, NEW r \in Seq(Letter), <<>> = a \o (<<m>> \o r)
               PROVE  FALSE
    BY DEF Settling
  <2>1. a \in Seq(Letter) /\ m \in Letter
    BY Wider, LetterTaken DEF Stale, FullTricks
  <2>2. QED
    BY <1>1, <2>1
<1>6. ~CardSent(t, b, <<>>)
  BY DEF CardSent, Answers
<1>7. ~CardRefused(t, b, <<>>)
  <2> SUFFICES ASSUME NEW a \in Seq(t.asking), NEW m \in Wrongs, NEW r \in Seq(t.asking), <<>> = a \o (<<m>> \o r)
               PROVE  FALSE
    BY DEF CardRefused
  <2>1. a \in Seq(Letter) /\ m \in Letter /\ r \in Seq(Letter)
    BY Wider DEF Wrongs, Sound
  <2>2. QED
    BY <1>1, <2>1
<1>8. QED
  BY <1>2, <1>3, <1>4, <1>5, <1>6, <1>7 DEF InPlay

\* A person types a card.
LEMMA CardTyped ==
    ASSUME NEW t, Sound(t), NEW b, NEW q, InPlay(t, b, q), b.kind = "console", b.waiting = TRUE, b.out = <<>>,
           NEW card \in b.hand, NEW no \in 1 .. TricksPerRound,
           NEW b2, b2.kind = b.kind, b2.stage = b.stage, b2.hand = b.hand \ {card}, b2.out = <<card>>,
           b2.up = Append(b.up, CardMsg(no, card))
    PROVE  InPlay(t, b2, q)
<1>1. \A x : b.out # <<x>>
  OBVIOUS
<1>2. Ready(t, b, q)
  BY <1>1 DEF InPlay, Newcomer, Settling, CardDown, CardSent, CardRefused, Lent
<1>3. q \in Seq(t.asking) /\ b.hand \subseteq t.dealt /\ b.hand \ ({} \cup t.table) = t.held
  BY <1>2 DEF Ready, Fits
<1>4. b.hand = t.held /\ t.turn = "waits" /\ card \in Card /\ Later(b2) /\ b.up = <<>>
  BY <1>2, <1>3 DEF Ready, Sound, Later
<1>5. b2.up = <<CardMsg(no, card)>>
  BY <1>4
<1>6. Lent(t, b2, card) /\ Answers(t, b2, card, no)
  BY <1>4, <1>5 DEF Lent, Answers
<1>7. QED
  BY <1>3, <1>4, <1>6 DEF InPlay, CardSent

-----------------------------------------------------------------------------
(* A person who hurries.                                                   *)

\* What is asked, and what is told again, is fair.
LEMMA AllFair ==
    ASSUME NEW t, Sound(t), NEW b
    PROVE  /\ t.asking \subseteq Fair /\ Stale(b) \subseteq Fair /\ FullTricks \subseteq Fair
           /\ Wrongs \subseteq Fair /\ Points \subseteq Fair /\ Deals \subseteq Fair
BY LetterTaken DEF Fair, Sound, Stale, FullTricks, Wrongs, Points, Deals, Messages

\* Three parts of what is on its way.
LEMMA FairParts ==
    ASSUME NEW A, A \subseteq Fair, NEW C, C \subseteq Fair, NEW a \in Seq(A), NEW m \in Fair, NEW c \in Seq(C)
    PROVE  a \o (<<m>> \o c) \in Seq(Fair)
<1>1. a \in Seq(Fair) /\ c \in Seq(Fair) /\ <<m>> \in Seq(Fair)
  BY Wider, Alone
<1>2. QED
  BY <1>1, SameKind

\* What a hand fits is fair.
LEMMA FitsFair ==
    ASSUME NEW t, Sound(t), NEW hand, NEW shown, NEW q, Fits(t, hand, shown, q)
    PROVE  q \in Seq(Fair)
<1>1. t.asking \subseteq Fair /\ Points \subseteq Fair /\ Deals \subseteq Fair
  BY AllFair
<1>2. CASE q \in Seq(t.asking)
  BY <1>1, <1>2, Wider
<1>3. CASE NextDeal(t, q)
  <2>1. PICK a \in Seq(Points), m \in Deals, r \in Seq(t.asking) : q = a \o (<<m>> \o r)
    BY <1>3 DEF NextDeal
  <2>2. m \in Fair
    BY <1>1
  <2> HIDE DEF Fair, Points, Deals
  <2>3. QED
    BY ONLY <1>1, <2>1, <2>2, FairParts
<1>4. QED
  BY <1>2, <1>3 DEF Fits

\* A second card is typed while the first is not settled.
LEMMA Hurries ==
    ASSUME NEW t, Sound(t), NEW b, NEW q, InPlay(t, b, q), b.kind = "console", b.out # <<>>,
           NEW card \in Card, NEW no \in 1 .. TricksPerRound,
           NEW b2, b2.kind = b.kind, b2.hurried, b2.up = Append(b.up, CardMsg(no, card))
    PROVE  Adrift(b2, q)
<1>1. Settling(t, b, q) \/ CardDown(t, b, q) \/ CardSent(t, b, q) \/ CardRefused(t, b, q)
  BY DEF InPlay, Newcomer, Ready
<1>2. /\ t.asking \subseteq Fair /\ Stale(b) \subseteq Fair /\ FullTricks \subseteq Fair
      /\ Wrongs \subseteq Fair
  BY AllFair
<1>3. q \in Seq(Fair)
  <2>1. CASE Settling(t, b, q)
    <3>1. PICK a \in Seq(Stale(b)), m \in FullTricks, r \in Seq(Letter) : q = a \o (<<m>> \o r) /\ Fits(t, b.hand, {}, r)
      BY <2>1 DEF Settling
    <3>2. r \in Seq(Fair) /\ m \in Fair /\ Fair \subseteq Fair
      BY <1>2, <3>1, FitsFair
    <3> HIDE DEF Fair, Stale, FullTricks
    <3>3. QED
      BY ONLY <1>2, <3>1, <3>2, FairParts
  <2>2. CASE CardDown(t, b, q)
    BY <1>2, <2>2, Wider DEF CardDown
  <2>3. CASE CardSent(t, b, q)
    BY <1>2, <2>3, Wider DEF CardSent
  <2>4. CASE CardRefused(t, b, q)
    <3>1. PICK a \in Seq(t.asking), m \in Wrongs, r \in Seq(t.asking) : q = a \o (<<m>> \o r)
      BY <2>4 DEF CardRefused
    <3>2. m \in Fair
      BY <1>2
    <3> HIDE DEF Fair, Wrongs
    <3>3. QED
      BY ONLY <1>2, <3>1, <3>2, FairParts
  <2>5. QED
    BY <1>1, <2>1, <2>2, <2>3, <2>4
<1>4. b.up \in Seq(CardMsgs)
  <2>1. CASE b.up = <<>>
    BY <2>1, Nothing
  <2>2. CASE b.up # <<>>
    <3>1. \E c \in Card, n \in 1 .. TricksPerRound : b.up = <<CardMsg(n, c)>>
      BY <1>1, <2>2 DEF Settling, CardDown, CardSent, CardRefused, Answers
    <3>2. PICK m \in CardMsgs : b.up = <<m>>
      BY <3>1 DEF CardMsgs
    <3>3. QED
      BY <3>2, Alone
  <2>3. QED
    BY <2>1, <2>2
<1>5. CardMsg(no, card) \in CardMsgs
  BY DEF CardMsgs
<1>6. b2.up \in Seq(CardMsgs)
  <2> HIDE DEF CardMsgs
  <2>1. QED
    BY <1>4, <1>5
<1>7. QED
  BY <1>3, <1>6 DEF Adrift, Rushes

\* Nothing, or one card, is on its way from a player who does not.
LEMMA OneSent ==
    ASSUME NEW t, NEW b, NEW q, InPlay(t, b, q), b.up # <<>>
    PROVE  b.up = <<Head(b.up)>>
<1>1. \E card \in Card, no \in 1 .. TricksPerRound : b.up = <<CardMsg(no, card)>>
  BY DEF InPlay, Newcomer, Ready, Settling, CardDown, CardSent, CardRefused, Answers
<1>2. QED
  BY <1>1

\* One card more is sent.
LEMMA AdriftTypes ==
    ASSUME NEW b, NEW q, Adrift(b, q), NEW card \in Card, NEW no \in 1 .. TricksPerRound,
           NEW b2, b2.kind = b.kind, b2.hurried = (b.hurried \/ b.out # <<>>), b2.up = Append(b.up, CardMsg(no, card))
    PROVE  Adrift(b2, q)
<1>1. CardMsg(no, card) \in CardMsgs
  BY DEF CardMsgs
<1>2. b2.up \in Seq(CardMsgs)
  <2> HIDE DEF CardMsgs
  <2>1. QED
    BY <1>1 DEF Adrift, Rushes
<1>3. QED
  BY <1>2 DEF Adrift, Rushes

\* The first message of a client is read.
Reads(b, b2) == b2.kind = b.kind /\ b2.hurried = b.hurried /\ b2.up = Tail(b.up)

\* The server reads one.
LEMMA AdriftRead ==
    ASSUME NEW b, NEW q, Adrift(b, q), b.up # <<>>, NEW b2, Reads(b, b2)
    PROVE  Adrift(b2, q)
<1>1. Tail(b.up) \in Seq(CardMsgs)
  BY FirstOf DEF Adrift, Rushes
<1>2. QED
  BY <1>1 DEF Adrift, Rushes, Reads

\* More may come.
LEMMA AdriftMore ==
    ASSUME NEW b, NEW q, Adrift(b, q), NEW c \in Seq(Fair)
    PROVE  Adrift(b, q \o c)
<1>1. q \o c \in Seq(Fair)
  BY SameKind DEF Adrift
<1>2. QED
  BY <1>1 DEF Adrift

-----------------------------------------------------------------------------
(* A card at the table.                                                    *)

\* What the theorems about the game say of a state.
GameKept == InStep /\ RoundKept /\ RoundCards

\* A card is the card of the side to move, which nobody else has been asked for.
LEMMA CardIsMovers ==
    ASSUME GameKept, NEW w, NEW card, acceptCard(card, w), NEW side, side = SenderSide(w)
    PROVE  /\ side \in Sides /\ card \in hands[side] /\ card \in Card /\ Play(side, card)
           /\ ~GameOver /\ trickNo <= TricksPerRound /\ side = nextMove /\ ~HasPlayed(side)
           /\ \A m \in Asking(side) : m.type = "TRICK" /\ m.trickNo = trickNo
           /\ \A s \in Sides \ {side} :
                /\ Asking(s) = {} /\ {c \in Card : mayPlay(s, c)} = {} /\ card \notin Deal.hands[s]
                /\ hands'[s] = hands[s] \/ roundNumber' # roundNumber
<1>1. side \in Sides /\ card \in hands[side] /\ card \in Card /\ Play(side, card)
  BY AcceptTypes DEF GameKept, InStep, acceptCard, Play, mayPlay, isMoveLegal, GameTypeOK
<1>2. ~GameOver /\ trickNo <= TricksPerRound /\ side = nextMove /\ ~HasPlayed(side)
  BY <1>1, NobodyPlaysOn DEF GameKept
<1>3. \A m \in Asking(side) : m.type = "TRICK" /\ m.trickNo = trickNo
  BY <1>2 DEF Asking
<1>4. ASSUME NEW s \in Sides \ {side}
      PROVE  /\ Asking(s) = {} /\ {c \in Card : mayPlay(s, c)} = {} /\ card \notin Deal.hands[s]
             /\ hands'[s] = hands[s] \/ roundNumber' # roundNumber
  <2>1. Asking(s) = {} /\ {c \in Card : mayPlay(s, c)} = {}
    BY <1>2 DEF Asking, mayPlay
  <2>2. card \notin Deal.hands[s]
    BY <1>1, DealtOnce DEF GameKept, RoundCards, InStep
  <2>3. hands'[s] = hands[s] \/ roundNumber' # roundNumber
    <3>1. hands' = HandsWithout(side, card) => hands'[s] = hands[s]
      BY DEF HandsWithout, GameKept, InStep, GameTypeOK
    <3>2. roundNumber \in Nat
      BY DEF GameKept, InStep, GameTypeOK
    <3>3. QED
      BY <1>1, <3>1, <3>2 DEF Play, playCard, addCard, closeTrick, closeRound, closeGame, settleRound
  <2>4. QED
    BY <2>1, <2>2, <2>3
<1>5. QED
  BY <1>1, <1>2, <1>3, <1>4

\* The prompt that follows a card asks for the next.
LEMMA PromptAsks ==
    ASSUME GameTypeOK', NEW s \in Sides
    PROVE  (IF s = nextMove' THEN <<TrickMsg(table', trickNo')>> ELSE <<>>) \in Seq(Asking(s)')
<1>1. table' \in Seq(Card) /\ trickNo' \in 1 .. TricksPerRound + 1
  BY DEF GameTypeOK
<1>2. s = nextMove' => TrickMsg(table', trickNo') \in Asking(s)'
  BY <1>1, LetterTrick DEF Asking, TrickMsg
<1>3. QED
  BY <1>2, Alone, Nothing

\* The first cards of a trick.
LEMMA CardGoesDown ==
    ASSUME GameKept, GameKept', NEW w, NEW card, acceptCard(card, w), NEW side, side = SenderSide(w),
           addCard(side, card), NEW s \in Sides
    PROVE  /\ AfterCard(s, card) \in Seq(Asking(s)')
           /\ s # side => Beside(Truth(s), Truth(s)')
           /\ s = side => /\ HasPlayed(s)' /\ hands'[s] = hands[s] \ {card} /\ AfterCard(s, card) = <<>>
           /\ HasPlayed(s) => AfterCard(s, card) = <<>>
<1> DEFINE prompt == IF s = nextMove' THEN <<TrickMsg(table', trickNo')>> ELSE <<>>
<1>1. /\ side \in Sides /\ card \in hands[side] /\ card \in Card /\ ~GameOver /\ side = nextMove
      /\ s # side => Asking(s) = {} /\ {c \in Card : mayPlay(s, c)} = {} /\ card \notin Deal.hands[s]
  BY CardIsMovers
<1>2. GameTypeOK /\ GameTypeOK' /\ nextMove \in Sides /\ table \in Seq(Card)
  BY DEF GameKept, InStep, GameTypeOK
<1>3. /\ Len(table) + 1 < NSides /\ roundNumber' = roundNumber /\ table' = Append(table, card)
      /\ hands' = HandsWithout(side, card) /\ nextMove' = nxtSide(nextMove)
  BY DEF addCard
<1>4. AfterCard(s, card) = prompt
  <2>1. ~(roundNumber' > roundNumber) /\ Len(table) + 1 # NSides
    BY <1>2, <1>3, RulesAssumption DEF GameTypeOK
  <2>2. QED
    BY ONLY <1>3, <2>1 DEF AfterCard
<1>5. prompt \in Seq(Asking(s)')
  BY <1>2, PromptAsks
<1>6. Deal' = Deal
  BY <1>1, <1>3 DEF Deal, GameOver
<1>7. Len(table') = Len(table) + 1 /\ Len(table) \in Nat
  BY <1>2, <1>3
<1>8. Ago(s)' = (IF s = nextMove THEN 1 ELSE Ago(s) + 1) /\ Ago(s) \in 1 .. NSides /\ (Ago(s) = NSides <=> s = nextMove)
  BY <1>2, <1>3, AgoNext, AgoType
<1>9. HasPlayed(s)' <=> HasPlayed(s) \/ s = side
  BY <1>1, <1>7, <1>8, RulesAssumption DEF HasPlayed
<1>10. HasPlayed(s)' => prompt = <<>>
  <2> SUFFICES ASSUME s = nextMove' PROVE ~HasPlayed(s)'
    OBVIOUS
  <2>1. Ago(s)' = NSides
    <3>1. \A n, t \in Sides : n = t => (IF t < n THEN n - t ELSE n + NSides - t) = NSides
      BY RulesAssumption DEF Sides
    <3>2. QED
      BY <3>1 DEF Ago
  <2>2. Len(table') < NSides
    BY <1>3, <1>7
  <2>3. QED
    BY <1>7, <2>1, <2>2, RulesAssumption DEF HasPlayed
<1>11. ASSUME s # side
       PROVE  Beside(Truth(s), Truth(s)')
  <2>1. OnTheTable' = OnTheTable \cup {card}
    <3>1. DOMAIN table' = 1 .. Len(table) + 1 /\ DOMAIN table = 1 .. Len(table)
      BY <1>2, <1>3
    <3>2. \A i \in DOMAIN table : table'[i] = table[i]
      BY <1>2, <1>3
    <3>3. table'[Len(table) + 1] = card
      BY <1>2, <1>3
    <3>4. QED
      BY <1>7, <3>1, <3>2, <3>3 DEF OnTheTable
  <2>2. hands'[s] = hands[s]
    BY <1>2, <1>3, <1>11 DEF HandsWithout, GameTypeOK
  <2>3. HasPlayed(s)' <=> HasPlayed(s)
    BY <1>9, <1>11
  <2>4. QED
    BY <1>1, <1>6, <1>11, <2>1, <2>2, <2>3 DEF Beside, Truth
<1>12. s = side => hands'[s] = hands[s] \ {card}
  BY <1>2, <1>3 DEF HandsWithout, GameTypeOK
<1>13. QED
  BY <1>4, <1>5, <1>9, <1>10, <1>11, <1>12

\* What comes after a trick fits the hand without its cards.
Suits(t, t2, left, rest) ==
    \A hand, shown : hand \subseteq t.dealt /\ hand \ shown = left => Fits(t2, hand, shown, rest)

\* The last card of a trick: the trick is told, and then what every hand will
\* fit that is left.
LEMMA TrickIsTold ==
    ASSUME GameKept, GameKept', NEW w, NEW card, acceptCard(card, w), NEW side, side = SenderSide(w),
           ~addCard(side, card), NEW s \in Sides
    PROVE  /\ Len(table) + 1 = NSides /\ ~HasPlayed(s)' /\ (s # side => HasPlayed(s))
           /\ \E rest \in Seq(Letter) :
                /\ AfterCard(s, card) = <<TakenMsg(card)>> \o rest
                /\ rest \in Seq(Calm)
                /\ Suits(Truth(s), Truth(s)', HandsWithout(side, card)[s], rest)
<1> DEFINE prompt == IF s = nextMove' THEN <<TrickMsg(table', trickNo')>> ELSE <<>>
           turn == TakenMsg(card)
           score == ScoreMsg(RoundScore(card))
           total == TotalMsg(NewTotals(card))
           left == HandsWithout(side, card)[s]
<1>1. side \in Sides /\ card \in hands[side] /\ card \in Card /\ ~GameOver /\ side = nextMove /\ Play(side, card)
  BY CardIsMovers
<1>2. GameTypeOK /\ GameTypeOK' /\ nextMove \in Sides /\ table \in Seq(Card) /\ roundNumber \in Nat
  <2>1. InStep /\ InStep'
    BY DEF GameKept
  <2>2. GameTypeOK /\ GameTypeOK'
    BY ONLY <2>1 DEF InStep
  <2>3. nextMove \in Sides /\ table \in Seq(Card) /\ roundNumber \in Nat
    BY ONLY <2>2 DEF GameTypeOK
  <2>4. QED
    BY <2>2, <2>3
<1>3. Len(table) + 1 = NSides /\ (closeTrick(side, card) \/ closeRound(side, card) \/ closeGame(side, card))
  BY <1>1 DEF Play, playCard, closeTrick, closeRound, closeGame
<1>4. ~HasPlayed(s)'
  <2>1. table' = <<>>
    BY <1>3 DEF closeTrick, closeRound, closeGame, settleRound
  <2>2. QED
    BY <1>2, <2>1, EmptyTable
<1>5. s # side => HasPlayed(s)
  <2>1. Ago(s) \in 1 .. NSides /\ (Ago(s) = NSides <=> s = nextMove)
    BY <1>2, AgoType
  <2>2. QED
    BY <1>1, <1>3, <2>1, RulesAssumption DEF HasPlayed
<1>6. prompt \in Seq(Asking(s)') /\ prompt \in Seq(Letter)
  <2>1. prompt \in Seq(Asking(s)') /\ Asking(s)' \subseteq Letter
    BY <1>2, PromptAsks DEF Asking
  <2>2. QED
    BY <2>1, Wider
<1>7. /\ score \in Points /\ total \in Points /\ <<score, total>> \in Seq(Points)
      /\ turn \in Letter /\ <<turn>> \in Seq(Letter) /\ LastTold(card) = <<turn>> \o <<score, total>>
  <2>1. turn \in Messages /\ RoundScore(card) \in [Sides -> Nat] /\ NewTotals(card) \in [Sides -> Nat]
    BY <1>1, <1>2, <1>3, TakeType
  <2>2. turn \in Letter /\ score \in Letter /\ total \in Letter
    BY <2>1, LetterTaken, LetterScore
  <2>3. score \in Points /\ total \in Points
    BY <2>2 DEF Points, ScoreMsg, TotalMsg
  <2>4. <<score, total>> \in Seq(Points)
    BY <2>3
  <2>5. QED
    BY <2>2, <2>3, <2>4, Alone DEF LastTold
<1>8. Asking(s)' \subseteq Calm /\ Points \subseteq Calm /\ Deals \subseteq Calm /\ Points \subseteq Letter
  BY DEF Asking, Calm, Fair, Points, Deals
<1>9. prompt \in Seq(Calm) /\ <<score, total>> \in Seq(Calm)
  BY <1>6, <1>7, <1>8, Wider
<1>10. <<score, total>> \in Seq(Letter)
  BY <1>7, <1>8, Wider
<1>11. OnTheTable' = {} /\ hands' \in [Sides -> SUBSET Card]
  <2>1. table' = <<>>
    BY <1>3 DEF closeTrick, closeRound, closeGame, settleRound
  <2>2. QED
    BY <1>2, <2>1 DEF OnTheTable, GameTypeOK
<1>12. ASSUME NEW rest \in Seq(Asking(s)'), Deal' = Deal, hands' = HandsWithout(side, card)
       PROVE  Suits(Truth(s), Truth(s)', left, rest)
  BY <1>11, <1>12 DEF Suits, Fits, Truth
<1> HIDE DEF prompt, turn, score, total, left
<1>13. CASE closeTrick(side, card)
  <2>1. Deal' = Deal /\ hands' = HandsWithout(side, card)
    BY <1>1, <1>13, DealStays DEF Grows, GameKept
  <2>2. ~(roundNumber' > roundNumber) /\ ~(Len(table) + 1 < NSides) /\ ~GameOver'
    BY <1>1, <1>2, <1>3, <1>13, RulesAssumption DEF closeTrick, GameOver
  <2>3. AfterCard(s, card) = <<turn>> \o prompt
    BY ONLY <2>2 DEF AfterCard, turn, prompt
  <2>4. QED
    BY <1>3, <1>4, <1>5, <1>6, <1>9, <1>12, <2>1, <2>3 DEF turn, left
<1>14. CASE closeGame(side, card)
  <2>1. Deal' = Deal /\ hands' = HandsWithout(side, card)
    BY <1>1, <1>14, DealStays DEF Grows, GameKept
  <2>2. ~(Len(table) + 1 < NSides) /\ GameOver'
    BY <1>3, <1>14, RulesAssumption DEF closeGame, settleRound, GameOver
  <2>3. AfterCard(s, card) = <<turn>> \o <<score, total>>
    BY ONLY <1>3, <1>7, <2>2 DEF AfterCard
  <2>4. Points \subseteq Asking(s)'
    BY <2>2 DEF Points, Asking
  <2>5. <<score, total>> \in Seq(Asking(s)')
    BY ONLY <1>7, <2>4, Wider
  <2>6. QED
    BY <1>3, <1>4, <1>5, <1>9, <1>10, <1>12, <2>1, <2>3, <2>5 DEF turn, left
<1>15. CASE closeRound(side, card)
  <2> DEFINE deal == DealMsg(roundMode', nextMove', hands'[s])
             rest == <<score, total>> \o (<<deal>> \o prompt)
  <2>1. roundNumber' > roundNumber /\ ~GameOver' /\ ~(Len(table) + 1 < NSides)
    <3>1. roundNumber' = roundNumber + 1 /\ roundNumber + 1 < Len(Scenario)
      BY <1>15 DEF closeRound, settleRound
    <3>2. Len(Scenario) \in Nat
      BY ScenarioLength
    <3>3. roundNumber' > roundNumber /\ roundNumber' # Len(Scenario)
      BY ONLY <1>2, <3>1, <3>2
    <3>4. ~(Len(table) + 1 < NSides)
      BY <1>3, RulesAssumption
    <3>5. QED
      BY <3>3, <3>4 DEF GameOver
  <2>2. AfterCard(s, card) = NewRound(s, card) \o prompt
    BY ONLY <1>3, <2>1 DEF AfterCard, prompt
  <2>3. NewRound(s, card) = (<<turn>> \o <<score, total>>) \o <<deal>>
    BY <1>7 DEF NewRound
  <2>4. deal \in Deals /\ deal.cards = hands'[s]
    BY <1>2, LetterDeal DEF GameTypeOK, DealMsg, Deals
  <2>5. /\ deal \in Letter /\ <<deal>> \in Seq(Letter) /\ <<deal>> \in Seq(Calm)
        /\ <<deal>> \o prompt \in Seq(Letter) /\ rest \in Seq(Letter) /\ rest \in Seq(Calm)
    <3> HIDE DEF deal
    <3>1. deal \in Letter /\ <<deal>> \in Seq(Letter) /\ <<deal>> \in Seq(Calm)
      BY <1>8, <2>4, Alone DEF Deals
    <3>2. <<deal>> \o prompt \in Seq(Letter) /\ <<deal>> \o prompt \in Seq(Calm)
      BY <1>6, <1>9, <3>1, SameKind
    <3>3. QED
      BY <1>9, <1>10, <3>1, <3>2, SameKind
  <2>6. (<<turn>> \o <<score, total>>) \o <<deal>> = <<turn>> \o (<<score, total>> \o <<deal>>)
    <3> HIDE DEF deal
    <3>1. QED
      BY <1>7, <1>10, <2>5, Joined
  <2>7. <<score, total>> \o <<deal>> \in Seq(Letter) /\ (<<score, total>> \o <<deal>>) \o prompt = rest
    <3> HIDE DEF deal
    <3>1. QED
      BY <1>6, <1>10, <2>5, Joined, SameKind
  <2>8. AfterCard(s, card) = <<turn>> \o rest
    <3> HIDE DEF deal, rest
    <3>1. (<<turn>> \o (<<score, total>> \o <<deal>>)) \o prompt = <<turn>> \o ((<<score, total>> \o <<deal>>) \o prompt)
      BY <1>6, <1>7, <2>7, Joined
    <3>2. QED
      BY <2>2, <2>3, <2>6, <2>7, <3>1
  <2>9. left = {}
    <3>1. left = IF s = side THEN hands[s] \ {card} ELSE hands[s]
      BY <1>1, <1>2 DEF left, HandsWithout, GameTypeOK
    <3>2. IsFiniteSet(hands[s]) /\ Cardinality(hands[s]) = TricksPerRound + 1 - trickNo - (IF HasPlayed(s) THEN 1 ELSE 0)
      BY DEF GameKept, InStep, HandsInStep
    <3>3. trickNo = TricksPerRound /\ TricksPerRound \in Nat
      BY <1>15, RulesAssumption DEF closeRound
    <3>4. s = side => ~HasPlayed(s)
      BY CardIsMovers
    <3>5. CASE s = side
      <4>1. Cardinality(hands[s]) = 1
        BY <3>2, <3>3, <3>4, <3>5
      <4>2. card \in hands[s] /\ IsFiniteSet(hands[s])
        BY <1>1, <3>2, <3>5
      <4>3. Cardinality(hands[s] \ {card}) = Cardinality(hands[s]) - 1 /\ IsFiniteSet(hands[s] \ {card})
        BY ONLY <4>2, FS_RemoveElement
      <4>4. Cardinality(hands[s] \ {card}) = 0
        BY ONLY <4>1, <4>3
      <4>5. QED
        BY <3>1, <3>5, <4>3, <4>4, FS_EmptySet
    <3>6. CASE s # side
      <4>1. Cardinality(hands[s]) = 0
        BY <1>5, <3>2, <3>3, <3>6
      <4>2. QED
        BY <3>1, <3>2, <3>6, <4>1, FS_EmptySet
    <3>7. QED
      BY <3>5, <3>6
  <2>10. Suits(Truth(s), Truth(s)', left, rest)
    <3>1. Truth(s)'.turn = "waits" /\ Truth(s)'.held = hands'[s] /\ Truth(s)'.asking = Asking(s)'
      BY <1>4 DEF Truth
    <3>2. NextDeal(Truth(s)', rest)
      <4> HIDE DEF deal
      <4>1. QED
        BY <1>6, <1>7, <2>4, <3>1 DEF NextDeal
    <3>3. \A hand, shown : hand \ shown = {} => hand \subseteq shown
      OBVIOUS
    <3> HIDE DEF rest
    <3>4. QED
      BY <2>9, <3>2, <3>3 DEF Suits, Fits
  <2>11. QED
    <3> HIDE DEF rest
    <3>1. QED
      BY <1>3, <1>4, <1>5, <2>5, <2>8, <2>10 DEF turn, left
<1>16. QED
  BY <1>3, <1>13, <1>14, <1>15

AllSound == \A s \in Sides : Sound(Truth(s))

\* What the theorems about the game say of any side.
LEMMA SoundNow == GameKept => AllSound
BY TruthIsSound DEF GameKept, AllSound

\* Everybody else sees the card.
LEMMA CardSeen ==
    ASSUME GameKept, GameKept', NEW w, NEW card, acceptCard(card, w), NEW side, side = SenderSide(w),
           NEW s \in Sides, s # side, NEW b, NEW q, InPlay(Truth(s), b, q)
    PROVE  InPlay(Truth(s)', b, q \o AfterCard(s, card))
<1>1. Sound(Truth(s))
  BY SoundNow DEF AllSound
<1>2. AllSound'
  BY SoundNow, PTL
<1>3. Sound(Truth(s)')
  BY <1>2 DEF AllSound
<1>4. Asking(s) = {} /\ card \notin Deal.hands[s] /\ card \in Card /\ trickNo <= TricksPerRound
  BY CardIsMovers
<1> HIDE DEF Sound, InPlay, Beside
<1>5. CASE addCard(side, card)
  <2>1. /\ AfterCard(s, card) \in Seq(Asking(s)') /\ Beside(Truth(s), Truth(s)')
        /\ HasPlayed(s) => AfterCard(s, card) = <<>>
    BY <1>5, CardGoesDown
  <2>2. Truth(s)'.asking = Asking(s)' /\ (Truth(s).turn = "waits" \/ AfterCard(s, card) = <<>>)
    BY <2>1 DEF Truth
  <2>3. QED
    BY <1>1, <1>3, <2>1, <2>2, CardBeside
<1>6. CASE ~addCard(side, card)
  <2>1. Len(table) + 1 = NSides /\ ~HasPlayed(s)' /\ HasPlayed(s)
    BY <1>6, TrickIsTold
  <2>2. PICK rest \in Seq(Letter) :
          /\ AfterCard(s, card) = <<TakenMsg(card)>> \o rest
          /\ Suits(Truth(s), Truth(s)', HandsWithout(side, card)[s], rest)
    BY <1>6, TrickIsTold
  <2>3. /\ TakenMsg(card) \in FullTricks
        /\ CardsOf(TakenMsg(card).table) = OnTheTable \cup {card}
    BY <1>4, <2>1, TrickIsFull DEF GameKept
  <2>4. HandsWithout(side, card)[s] = hands[s]
    BY DEF HandsWithout, GameKept, InStep, GameTypeOK
  <2>5. /\ Truth(s).turn = "played" /\ Truth(s).asking = {} /\ Truth(s)'.turn = "waits"
        /\ card \notin Truth(s).dealt /\ CardsOf(TakenMsg(card).table) = Truth(s).table \cup {card}
    BY <1>4, <2>1, <2>3 DEF Truth
  <2>6. \A hand, shown : hand \subseteq Truth(s).dealt /\ hand \ shown = Truth(s).held => Fits(Truth(s)', hand, shown, rest)
    BY <2>2, <2>4 DEF Suits, Truth
  <2> DEFINE turn == TakenMsg(card)
  <2> HIDE DEF turn, FullTricks, Fits
  <2>7. InPlay(Truth(s)', b, q \o (<<turn>> \o rest))
    BY <1>1, <2>3, <2>5, <2>6, TrickBeside DEF turn
  <2>8. QED
    BY <2>2, <2>7 DEF turn
<1>7. QED
  BY <1>5, <1>6

\* The player whose card it is.
LEMMA CardTaken ==
    ASSUME GameKept, GameKept', NEW w, NEW card, acceptCard(card, w), NEW side, side = SenderSide(w),
           NEW b, NEW q, InPlay(Truth(side), b, q), NEW no, b.up = <<CardMsg(no, card)>>,
           NEW b2, Heard(b, b2)
    PROVE  InPlay(Truth(side)', b2, q \o AfterCard(side, card))
<1>1. side \in Sides /\ card \in Card /\ trickNo <= TricksPerRound /\ \A m \in Asking(side) : m.type = "TRICK" /\ m.trickNo = trickNo
  BY CardIsMovers
<1>2. Sound(Truth(side))
  BY <1>1, SoundNow DEF AllSound
<1>3. \A m \in Truth(side).asking : m.type = "TRICK" /\ m.trickNo = Truth(side).no /\ Truth(side).no <= TricksPerRound
  BY <1>1 DEF Truth
<1> HIDE DEF Sound, InPlay
<1>4. CASE addCard(side, card)
  <2>1. HasPlayed(side)' /\ hands'[side] = hands[side] \ {card} /\ AfterCard(side, card) = <<>>
    BY <1>1, <1>4, CardGoesDown
  <2>2. Truth(side)'.turn = "played" /\ Truth(side)'.held = Truth(side).held \ {card}
    BY <2>1 DEF Truth
  <2>3. CardDown(Truth(side)', b2, q)
    BY <1>2, <1>3, <2>2, OwnCard
  <2>4. q \o <<>> = q
    BY <2>3, Nothing DEF CardDown
  <2>5. QED
    BY <2>1, <2>3, <2>4 DEF InPlay
<1>5. CASE ~addCard(side, card)
  <2>1. Len(table) + 1 = NSides /\ ~HasPlayed(side)'
    BY <1>1, <1>5, TrickIsTold
  <2>2. PICK rest \in Seq(Letter) :
          /\ AfterCard(side, card) = <<TakenMsg(card)>> \o rest
          /\ Suits(Truth(side), Truth(side)', HandsWithout(side, card)[side], rest)
    BY <1>1, <1>5, TrickIsTold
  <2>3. TakenMsg(card) \in FullTricks
    BY <1>1, <2>1, TrickIsFull DEF GameKept
  <2>4. HandsWithout(side, card)[side] = hands[side] \ {card}
    BY <1>1 DEF HandsWithout, GameKept, InStep, GameTypeOK
  <2>5. Truth(side)'.turn = "waits"
    BY <2>1 DEF Truth
  <2>6. \A hand, shown : hand \subseteq Truth(side).dealt /\ hand \ shown = Truth(side).held \ {card}
                           => Fits(Truth(side)', hand, shown, rest)
    BY <2>2, <2>4 DEF Suits, Truth
  <2> DEFINE turn == TakenMsg(card)
  <2> HIDE DEF turn, FullTricks, Fits
  <2>7. Settling(Truth(side)', b2, q \o (<<turn>> \o rest))
    BY <1>2, <1>3, <2>3, <2>5, <2>6, OwnTrick DEF turn
  <2>8. QED
    BY <2>2, <2>7 DEF turn, InPlay
<1>6. QED
  BY <1>4, <1>5

\* A card that is taken is no complaint.
LEMMA CardIsCalm ==
    ASSUME GameKept, GameKept', NEW w, NEW card, acceptCard(card, w), NEW s \in Sides
    PROVE  AfterCard(s, card) \in Seq(Peaceful) /\ AfterCard(s, card) \in Seq(Fair)
<1> DEFINE side == SenderSide(w)
<1> HIDE DEF side
<1>1. card \in Card /\ trickNo <= TricksPerRound
  BY CardIsMovers
<1>2. CASE addCard(side, card)
  <2>1. AfterCard(s, card) \in Seq(Asking(s)')
    BY <1>2, CardGoesDown DEF side
  <2>2. Asking(s)' \subseteq Peaceful /\ Asking(s)' \subseteq Fair
    BY DEF Asking, Peaceful, Fair
  <2>3. QED
    BY <2>1, <2>2, Wider
<1>3. CASE ~addCard(side, card)
  <2>1. Len(table) + 1 = NSides
    BY <1>3, TrickIsTold DEF side
  <2>2. PICK rest \in Seq(Letter) : AfterCard(s, card) = <<TakenMsg(card)>> \o rest /\ rest \in Seq(Calm)
    BY <1>3, TrickIsTold DEF side
  <2>3. TakenMsg(card) \in FullTricks /\ TakenMsg(card).type = "TAKEN"
    BY <1>1, <2>1, TrickIsFull DEF GameKept
  <2>4. TakenMsg(card) \in Calm
    BY <2>3, LetterTaken DEF FullTricks, Calm, Fair
  <2>5. Calm \subseteq Peaceful /\ Calm \subseteq Fair
    BY DEF Calm, Fair, Peaceful
  <2> DEFINE turn == TakenMsg(card)
  <2> HIDE DEF turn, Calm, Fair, Peaceful
  <2>6. <<turn>> \o rest \in Seq(Calm)
    BY <2>2, <2>4, Alone, SameKind DEF turn
  <2>7. QED
    BY <2>2, <2>5, <2>6, Wider DEF turn
<1>4. QED
  BY <1>2, <1>3

-----------------------------------------------------------------------------
(* The table.                                                              *)

Seated(w) == workerToSide[w] # NoSide

TableTypeOK ==
    /\ jobs \in [Workers -> Seq(Letter)]
    /\ roles \in [Workers -> Status \cup {"none"}]
    /\ activeSides \in [Sides -> Workers \cup {NoWorker}]
    /\ workerToSide \in [Workers -> Sides \cup {NoSide}]
    /\ playersConnected \in Int /\ nextIx \in Nat
    /\ link \in [Clients -> {"none", "open", "left", "shut"}]
    /\ DOMAIN up = Clients /\ lastCards \in [Clients -> Seq(Card)]

\* A side and the worker that plays it name each other.
Paired == \A w \in Workers, s \in Sides : activeSides[s] = w <=> workerToSide[w] = s

\* What becomes of a connection.
Connected(w) ==
    /\ link[w] # "none" => w \in workers /\ w < nextIx
    /\ roles[w] = "SERVING_ACTIVE" <=> Seated(w)
    /\ link[w] \in {"open", "left"} /\ ~Seated(w) => roles[w] \in {"SERVING_UNKNOWN", "CLEANUP_UNKNOWN"}
    /\ Seated(w) => link[w] \in {"open", "left"}
    /\ link[w] = "open" => running[w]
    /\ link[w] \in {"none", "left"} => ~running[w]

Unheard(b) == b.stage = "PRE" /\ b.out = <<>> /\ b.waiting = FALSE

\* Whoever has no answer yet has asked once.
Introduces(w) == up[w] = IF roles[w] = "SERVING_UNKNOWN" THEN <<IamMsg(Seat[w])>> ELSE <<>>

\* A client without a side.
Stranger(w) ==
    /\ link[w] = "none" => Unheard(Belief(w)) /\ up[w] = <<>> /\ jobs[w] = <<>>
    /\ link[w] = "open" /\ ~Seated(w) =>
         /\ Unheard(Belief(w)) /\ Introduces(w) /\ jobs[w] \in Seq(Refusals)
         /\ roles[w] = "SERVING_UNKNOWN" => jobs[w] = <<>>
    /\ link[w] = "left" /\ ~Seated(w) => Introduces(w) \/ up[w] = <<>>
    /\ link[w] = "shut" /\ running[w] => jobs[w] = <<>>

\* Nothing, or one card, is on its way from a player, or the cards of one who
\* hurries.
Sends(t, b) ==
    \/ b.up = <<>> \/ Rushes(b)
    \/ \E card \in Card, no \in 1 .. TricksPerRound : Answers(t, b, card, no)

\* A player that has ended.
Parted(w) ==
    link[w] = "left" => \A s \in Sides : workerToSide[w] = s => Sends(Truth(s), Belief(w))

Peace(w) == w \in Automatic => jobs[w] \in Seq(Peaceful)

\* A player before the first deal, and in the game.
Follows(w) ==
    link[w] = "open" /\ Seated(w) =>
        IF lastDeal = <<>>
          THEN Unheard(Belief(w)) /\ up[w] = <<>> /\ jobs[w] = <<>>
          ELSE \A s \in Sides : workerToSide[w] = s => AtTable(Truth(s), Belief(w), jobs[w])

ClientKept(w) == Connected(w) /\ Stranger(w) /\ Parted(w) /\ Peace(w) /\ Follows(w)

\* The inductive invariant.
TableKept == TableTypeOK /\ Paired /\ Laid /\ ClientTypeOK /\ \A w \in Clients : ClientKept(w)

\* A player in the game has nothing or cards on its way.
LEMMA PlayerSends == ASSUME NEW t, NEW b, NEW q, AtTable(t, b, q) PROVE Sends(t, b)
<1>1. CASE InPlay(t, b, q)
  BY <1>1 DEF InPlay, Sends, Newcomer, Ready, Settling, CardDown, CardSent, CardRefused
<1>2. CASE Adrift(b, q)
  BY <1>2 DEF Adrift, Sends
<1>3. QED
  BY <1>1, <1>2 DEF AtTable

\* A game that is left alone is the same for everybody.
LEMMA TruthStays == ASSUME UNCHANGED gameVars, NEW s PROVE Truth(s)' = Truth(s)
BY DEF gameVars, Truth, Asking, Deal, GameOver, OnTheTable, HasPlayed, Ago, mayPlay

\* A client whose connection and player are left alone is as before.
Alike(v) ==
    /\ UNCHANGED gameVars /\ (lastDeal' = <<>> <=> lastDeal = <<>>)
    /\ workers \subseteq workers' /\ nextIx' >= nextIx
    /\ link'[v] = link[v] /\ running'[v] = running[v] /\ roles'[v] = roles[v]
    /\ workerToSide'[v] = workerToSide[v] /\ jobs'[v] = jobs[v] /\ up'[v] = up[v]
    /\ Belief(v)' = Belief(v)

\* It stays so.
LEMMA AlikeKept ==
    ASSUME NEW v \in Clients, ClientKept(v), Alike(v), nextIx \in Nat, nextIx' \in Nat
    PROVE  ClientKept(v)'
<1>2. ASSUME NEW s PROVE Truth(s)' = Truth(s)
  BY TruthStays DEF Alike
<1>3. v \in Nat
  BY TableAssumption, MgrAssumption DEF Workers
<1>4. Connected(v)'
  BY <1>3 DEF ClientKept, Alike, Connected, Seated
<1>5. Stranger(v)'
  BY DEF ClientKept, Alike, Stranger, Seated, Introduces
<1>6. Parted(v)'
  BY <1>2 DEF ClientKept, Alike, Parted, Seated
<1>7. Peace(v)' /\ Follows(v)'
  BY <1>2 DEF ClientKept, Alike, Peace, Follows, Seated
<1>8. QED
  BY <1>4, <1>5, <1>6, <1>7 DEF ClientKept

-----------------------------------------------------------------------------
(* What the clients do.                                                    *)

\* The types of the clients.
ClientsOK == ClientTypeOK /\ DOMAIN up = Clients /\ lastCards \in [Clients -> Seq(Card)]

\* One client is left alone.
Same(v) == Belief(v)' = Belief(v) /\ running'[v] = running[v] /\ up'[v] = up[v]

\* What is seen of a client.
LEMMA SameIs ==
    ASSUME NEW v, stage'[v] = stage[v], waitingForCard'[v] = waitingForCard[v], localHand'[v] = localHand[v],
           lastCards'[v] = lastCards[v], nextTrick'[v] = nextTrick[v], hurried'[v] = hurried[v],
           up'[v] = up[v], running'[v] = running[v]
    PROVE  Same(v)
BY DEF Same, Belief

\* A card that is sent.
Sent(w, no, card) ==
    /\ localHand' \in [Clients -> SUBSET Card] /\ lastCards' \in [Clients -> Seq(Card)]
    /\ waitingForCard' \in [Clients -> BOOLEAN] /\ DOMAIN up' = Clients
    /\ localHand'[w] = localHand[w] \ {card} /\ lastCards'[w] = Append(lastCards[w], card)
    /\ up'[w] = Append(up[w], CardMsg(no, card)) /\ waitingForCard'[w] = FALSE
    /\ \A v \in Clients \ {w} : /\ localHand'[v] = localHand[v] /\ lastCards'[v] = lastCards[v]
                                /\ up'[v] = up[v] /\ waitingForCard'[v] = waitingForCard[v]

\* Sending a card does that.
LEMMA SendIs ==
    ASSUME ClientsOK, NEW w \in Clients, NEW no \in 1 .. TricksPerRound, NEW card \in Card, send(w, no, card)
    PROVE  Sent(w, no, card)
BY DEF ClientsOK, ClientTypeOK, send, Sent

\* Cards that the clients keep are cards.
LEMMA CardsAreCards ==
    ASSUME lastCards' \in [Clients -> Seq(Card)]
    PROVE  \A v \in Clients : \A i \in DOMAIN lastCards'[v] : lastCards'[v][i] \in Card
<1> SUFFICES ASSUME NEW v \in Clients, NEW i \in DOMAIN lastCards'[v]
             PROVE  lastCards'[v][i] \in Card
  OBVIOUS
<1>1. lastCards'[v] \in Seq(Card)
  OBVIOUS
<1>2. QED
  BY <1>1

\* A client that types a card changes nothing but itself.
LEMMA TypedIs ==
    ASSUME ClientsOK, NEW w \in Clients, NEW card, typeCard(w, card)
    PROVE  /\ ClientsOK' /\ card \in Card /\ (\A v \in Clients \ {w} : Same(v))
           /\ w \in Console /\ running'[w] = running[w] /\ waitingForCard[w] = TRUE /\ card \in localHand[w]
           /\ promptNo[w] \in 1 .. TricksPerRound
           /\ stage'[w] = stage[w] /\ localHand'[w] = localHand[w] \ {card}
           /\ lastCards'[w] = Append(lastCards[w], card) /\ up'[w] = Append(up[w], CardMsg(promptNo[w], card))
           /\ hurried'[w] = (hurried[w] \/ lastCards[w] # <<>>)
<1>1. card \in Card /\ promptNo[w] \in 1 .. TricksPerRound /\ waitingForCard[w] = TRUE
  BY DEF typeCard, ClientsOK, ClientTypeOK
<1>2. send(w, promptNo[w], card) /\ UNCHANGED <<stage, promptNo, nextTrick, running, exitFlag>>
  BY DEF typeCard
<1>3. /\ localHand' \in [Clients -> SUBSET Card] /\ lastCards' \in [Clients -> Seq(Card)]
      /\ waitingForCard' \in [Clients -> BOOLEAN] /\ DOMAIN up' = Clients
      /\ localHand'[w] = localHand[w] \ {card} /\ lastCards'[w] = Append(lastCards[w], card)
      /\ up'[w] = Append(up[w], CardMsg(promptNo[w], card))
      /\ \A v \in Clients \ {w} : /\ localHand'[v] = localHand[v] /\ lastCards'[v] = lastCards[v]
                                  /\ up'[v] = up[v] /\ waitingForCard'[v] = waitingForCard[v]
  <2>1. Sent(w, promptNo[w], card)
    BY ONLY <1>1, <1>2, ClientsOK, w \in Clients, SendIs
  <2>2. QED
    BY <2>1 DEF Sent
<1>4. /\ hurried' \in [Clients -> BOOLEAN] /\ hurried'[w] = (hurried[w] \/ lastCards[w] # <<>>)
      /\ \A v \in Clients \ {w} : hurried'[v] = hurried[v]
  <2>1. hurried' = [hurried EXCEPT ![w] = @ \/ lastCards[w] # <<>>]
    BY DEF typeCard
  <2>2. hurried \in [Clients -> BOOLEAN]
    BY DEF ClientsOK, ClientTypeOK
  <2>3. QED
    BY ONLY <2>1, <2>2, w \in Clients
<1>5. ClientsOK'
  BY <1>2, <1>3, <1>4, CardsAreCards DEF ClientsOK, ClientTypeOK
<1>6. ASSUME NEW v \in Clients \ {w} PROVE Same(v)
  BY <1>2, <1>3, <1>4, SameIs
<1>7. QED
  BY <1>1, <1>2, <1>3, <1>4, <1>5, <1>6 DEF typeCard

\* A person types a card.
LEMMA TypeKept ==
    ASSUME GameKept, TableKept, NEW w \in Clients, type(w)
    PROVE  TableKept'
<1>1. PICK card : typeCard(w, card)
  BY DEF type, typeOneOf
<1>2. UNCHANGED <<gameVars, serverVars, mgrVars, link>>
  BY DEF type, typeOneOf
<1>3. ClientsOK /\ TableTypeOK /\ nextIx \in Nat
  BY DEF TableKept, TableTypeOK, ClientsOK
<1>4. /\ ClientsOK' /\ card \in Card /\ (\A v \in Clients \ {w} : Same(v))
      /\ w \in Console /\ running'[w] = running[w] /\ waitingForCard[w] = TRUE /\ card \in localHand[w]
      /\ promptNo[w] \in 1 .. TricksPerRound
      /\ stage'[w] = stage[w] /\ localHand'[w] = localHand[w] \ {card}
      /\ lastCards'[w] = Append(lastCards[w], card) /\ up'[w] = Append(up[w], CardMsg(promptNo[w], card))
      /\ hurried'[w] = (hurried[w] \/ lastCards[w] # <<>>)
  BY <1>1, <1>3, TypedIs
<1>5. /\ UNCHANGED <<jobs, roles, activeSides, workerToSide, playersConnected, nextIx, workers, lastDeal>>
      /\ UNCHANGED gameVars
  BY <1>2 DEF serverVars, seatVars, mgrVars, tableVars, queueVars
<1>6. TableTypeOK' /\ Paired' /\ Laid'
  <2>1. TableTypeOK'
    BY <1>2, <1>3, <1>4, <1>5 DEF TableTypeOK, ClientsOK
  <2>2. Paired'
    BY <1>5 DEF TableKept, Paired
  <2>3. Incomplete => Incomplete'
    BY <1>5 DEF Incomplete
  <2>4. QED
    BY <1>5, <2>1, <2>2, <2>3, LaidStays DEF TableKept
<1>7. ASSUME NEW v \in Clients \ {w} PROVE ClientKept(v)'
  <2>1. Alike(v)
    BY <1>2, <1>3, <1>4, <1>5 DEF Alike, Same
  <2>2. QED
    BY <1>3, <1>5, <2>1, AlikeKept DEF TableKept
<1>8. ClientKept(w)'
  <2>1. running[w] /\ ClientKept(w)
    BY <1>1 DEF typeCard, TableKept
  <2>2. link[w] \in {"open", "shut"} /\ link'[w] = link[w]
    BY <1>2, <1>3, <2>1 DEF ClientKept, Connected, TableTypeOK
  <2>3. Belief(w).waiting = TRUE
    BY <1>4 DEF Belief
  <2>4. Connected(w)' /\ Peace(w)' /\ Parted(w)'
    BY <1>4, <1>5, <2>1, <2>2 DEF ClientKept, Connected, Peace, Parted, Seated
  <2>5. link[w] = "open" => Seated(w) /\ lastDeal # <<>>
    BY <2>1, <2>3 DEF ClientKept, Stranger, Follows, Unheard
  <2>6. Stranger(w)'
    BY <1>4, <1>5, <2>1, <2>2, <2>5 DEF ClientKept, Stranger, Seated
  <2>7. ASSUME link[w] = "open", NEW s \in Sides, workerToSide[w] = s
        PROVE  AtTable(Truth(s)', Belief(w)', jobs[w])
    <3> DEFINE t == Truth(s)
               b == Belief(w)
               b2 == Belief(w)'
               q == jobs[w]
    <3>1. AtTable(t, b, q) /\ Sound(t)
      BY <2>1, <2>5, <2>7, SoundNow DEF ClientKept, Follows, AllSound
    <3>2. /\ b.kind = "console" /\ b.waiting = TRUE /\ card \in b.hand /\ b2.kind = b.kind /\ b2.stage = b.stage
          /\ b2.hand = b.hand \ {card}
          /\ b2.out = Append(b.out, card) /\ b2.up = Append(b.up, CardMsg(promptNo[w], card))
          /\ b2.hurried = (b.hurried \/ b.out # <<>>)
      BY <1>2, <1>4 DEF Belief, Automatic
    <3>3. card \in Card /\ promptNo[w] \in 1 .. TricksPerRound
      BY <1>4
    <3> HIDE DEF t, b, b2, q, InPlay, Sound
    <3>4. ASSUME InPlay(t, b, q), b.out = <<>> PROVE AtTable(t, b2, q)
      <4>1. b2.out = <<card>>
        BY <3>2, <3>4
      <4>2. InPlay(t, b2, q)
        BY <3>1, <3>2, <3>3, <3>4, <4>1, CardTyped
      <4>3. QED
        BY <4>2 DEF AtTable
    <3>5. ASSUME InPlay(t, b, q), b.out # <<>> PROVE AtTable(t, b2, q)
      BY <3>1, <3>2, <3>3, <3>5, Hurries DEF AtTable
    <3>6. ASSUME Adrift(b, q) PROVE AtTable(t, b2, q)
      BY <3>2, <3>3, <3>6, AdriftTypes DEF AtTable
    <3>7. AtTable(t, b2, q)
      BY <3>1, <3>4, <3>5, <3>6 DEF AtTable
    <3>8. QED
      BY <1>5, <3>7, TruthStays DEF t, b2, q
  <2>8. Follows(w)'
    BY <1>5, <2>2, <2>5, <2>7 DEF Follows, Seated
  <2>9. QED
    BY <2>4, <2>6, <2>8 DEF ClientKept
<1>9. QED
  BY <1>4, <1>6, <1>7, <1>8 DEF TableKept, ClientsOK

\* A client in the game takes a message.
Takes(w, b, b2) ==
    /\ ClientsOK' /\ \A v \in Clients \ {w} : Same(v)
    /\ b = Belief(w) /\ b2 = Belief(w)' /\ b2.kind = b.kind

\* A prompt.
LEMMA TrickIs ==
    ASSUME ClientsOK, NEW w \in Clients, NEW m \in Letter, m.trickNo <= TricksPerRound, trickMsg(w, m),
           NEW b, b = Belief(w), NEW b2, b2 = Belief(w)'
    PROVE  /\ Takes(w, b, b2) /\ Later(b2) /\ UNCHANGED running
           /\ \/ Keeps(b, b2)
              \/ /\ b.kind = "automatic" /\ ~(m.trickNo < b.next)
                 /\ \E card \in Fitting(b.hand, m.table) :
                      /\ b2.hand = b.hand \ {card} /\ b2.out = Append(b.out, card)
                      /\ b2.up = Append(b.up, CardMsg(m.trickNo, card)) /\ b2.next = m.trickNo + 1
<1>1. m.type = "TRICK" /\ m.trickNo \in 1 .. TricksPerRound
  <2>1. m.type = "TRICK"
    BY DEF trickMsg
  <2>2. m.trickNo \in 1 .. TricksPerRound + 1
    BY <2>1 DEF Letter, Messages
  <2>3. QED
    BY <2>1, <2>2, RulesAssumption
<1>2. /\ stage' = [stage EXCEPT ![w] = "AFTER_TRICK"] /\ promptNo' = [promptNo EXCEPT ![w] = m.trickNo]
      /\ UNCHANGED <<hurried, running, exitFlag>>
  BY DEF trickMsg, enter
<1>3. /\ stage \in [Clients -> Stages] /\ promptNo \in [Clients -> 1 .. TricksPerRound]
      /\ nextTrick \in [Clients -> 0 .. TricksPerRound + 1] /\ localHand \in [Clients -> SUBSET Card]
      /\ waitingForCard \in [Clients -> BOOLEAN] /\ lastCards \in [Clients -> Seq(Card)] /\ DOMAIN up = Clients
      /\ running \in [Clients -> BOOLEAN] /\ exitFlag \in [Clients -> {0, 1}] /\ hurried \in [Clients -> BOOLEAN]
  BY DEF ClientsOK, ClientTypeOK
<1>4. /\ stage' \in [Clients -> Stages] /\ promptNo' \in [Clients -> 1 .. TricksPerRound] /\ stage'[w] = "AFTER_TRICK"
      /\ \A v \in Clients \ {w} : stage'[v] = stage[v]
  BY <1>1, <1>2, <1>3 DEF Stages
<1>5. Later(b2) /\ b2.kind = b.kind
  BY <1>4 DEF Later, Belief
<1>6. CASE keepAll(w) /\ UNCHANGED nextTrick
  <2>1. /\ waitingForCard' \in [Clients -> BOOLEAN] /\ \A v \in Clients \ {w} : waitingForCard'[v] = waitingForCard[v]
        /\ UNCHANGED <<localHand, lastCards, up, nextTrick>>
    BY <1>3, <1>6 DEF keepAll
  <2>2. ClientsOK'
    BY <1>2, <1>3, <1>4, <2>1, CardsAreCards DEF ClientsOK, ClientTypeOK
  <2>3. ASSUME NEW v \in Clients \ {w} PROVE Same(v)
    BY <1>2, <1>4, <2>1, SameIs
  <2>4. Keeps(b, b2)
    BY <2>1 DEF Keeps, Belief
  <2>5. QED
    BY <1>2, <1>5, <2>2, <2>3, <2>4 DEF Takes
<1>7. CASE ~(w \in Console \/ Repeated(w, m.trickNo))
  <2>1. /\ \E card \in Fitting(localHand[w], m.table) : send(w, m.trickNo, card)
        /\ nextTrick' = [nextTrick EXCEPT ![w] = m.trickNo + 1]
    BY <1>7 DEF trickMsg, TrickAfter
  <2>2. PICK card \in Fitting(localHand[w], m.table) : send(w, m.trickNo, card)
    BY <2>1
  <2>3. card \in Card
    BY <1>3 DEF Fitting
  <2>4. /\ localHand' \in [Clients -> SUBSET Card] /\ lastCards' \in [Clients -> Seq(Card)]
        /\ waitingForCard' \in [Clients -> BOOLEAN] /\ DOMAIN up' = Clients
        /\ localHand'[w] = localHand[w] \ {card} /\ lastCards'[w] = Append(lastCards[w], card)
        /\ up'[w] = Append(up[w], CardMsg(m.trickNo, card))
        /\ \A v \in Clients \ {w} : /\ localHand'[v] = localHand[v] /\ lastCards'[v] = lastCards[v]
                                    /\ up'[v] = up[v] /\ waitingForCard'[v] = waitingForCard[v]
    <3>1. Sent(w, m.trickNo, card)
      BY ONLY <1>1, <2>2, <2>3, ClientsOK, w \in Clients, SendIs
    <3>2. QED
      BY <3>1 DEF Sent
  <2>5. /\ nextTrick' \in [Clients -> 0 .. TricksPerRound + 1] /\ nextTrick'[w] = m.trickNo + 1
        /\ \A v \in Clients \ {w} : nextTrick'[v] = nextTrick[v]
    <3>1. m.trickNo + 1 \in 0 .. TricksPerRound + 1
      BY <1>1, RulesAssumption
    <3>2. nextTrick \in [Clients -> 0 .. TricksPerRound + 1]
      BY DEF ClientsOK, ClientTypeOK
    <3>3. QED
      BY ONLY <2>1, <3>1, <3>2, w \in Clients
  <2>6. ClientsOK'
    BY <1>2, <1>3, <1>4, <2>4, <2>5, CardsAreCards DEF ClientsOK, ClientTypeOK
  <2>7. ASSUME NEW v \in Clients \ {w} PROVE Same(v)
    BY <1>2, <1>4, <2>4, <2>5, SameIs
  <2>8. /\ b.kind = "automatic" /\ ~(m.trickNo < b.next) /\ card \in Fitting(b.hand, m.table)
        /\ b2.hand = b.hand \ {card} /\ b2.out = Append(b.out, card)
        /\ b2.up = Append(b.up, CardMsg(m.trickNo, card)) /\ b2.next = m.trickNo + 1
    BY <1>7, <2>4, <2>5 DEF Belief, Repeated, Automatic
  <2>9. QED
    BY <1>2, <1>5, <2>6, <2>7, <2>8 DEF Takes
<1>8. QED
  BY <1>6, <1>7 DEF trickMsg

\* A deal.
LEMMA DealIs ==
    ASSUME ClientsOK, NEW w \in Clients, NEW m \in Letter, dealMsg(w, m), NEW b, b = Belief(w), NEW b2, b2 = Belief(w)'
    PROVE  /\ Takes(w, b, b2) /\ UNCHANGED running /\ m.type = "DEAL"
           /\ b2.stage = (IF b.stage = "PRE" THEN "AFTER_FIRST_DEAL" ELSE "AFTER_DEAL")
           /\ b2.hand = m.cards /\ b2.out = b.out /\ b2.up = b.up /\ b2.waiting = b.waiting
<1>1. m.type = "DEAL" /\ m.cards \in SUBSET Card
  BY DEF dealMsg, Letter, Messages
<1>2. /\ stage' = [stage EXCEPT ![w] = IF stage[w] = "PRE" THEN "AFTER_FIRST_DEAL" ELSE "AFTER_DEAL"]
      /\ localHand' = [localHand EXCEPT ![w] = m.cards]
      /\ nextTrick' = [nextTrick EXCEPT ![w] = IF w \in Automatic THEN 1 ELSE @]
      /\ UNCHANGED <<waitingForCard, promptNo, lastCards, hurried, up, running, exitFlag>>
  BY DEF dealMsg, enter
<1>3. /\ stage \in [Clients -> Stages] /\ nextTrick \in [Clients -> 0 .. TricksPerRound + 1]
      /\ localHand \in [Clients -> SUBSET Card]
  BY DEF ClientsOK, ClientTypeOK
<1>4. /\ stage' \in [Clients -> Stages] /\ localHand' \in [Clients -> SUBSET Card]
      /\ stage'[w] = (IF stage[w] = "PRE" THEN "AFTER_FIRST_DEAL" ELSE "AFTER_DEAL") /\ localHand'[w] = m.cards
      /\ \A v \in Clients \ {w} : stage'[v] = stage[v] /\ localHand'[v] = localHand[v] /\ nextTrick'[v] = nextTrick[v]
  BY <1>1, <1>2, <1>3 DEF Stages
<1>5. nextTrick' \in [Clients -> 0 .. TricksPerRound + 1]
  BY <1>2, <1>3, RulesAssumption
<1>6. ClientsOK'
  BY <1>2, <1>4, <1>5 DEF ClientsOK, ClientTypeOK
<1>7. ASSUME NEW v \in Clients \ {w} PROVE Same(v)
  BY <1>2, <1>4, SameIs
<1>8. QED
  BY <1>1, <1>2, <1>4, <1>6, <1>7 DEF Takes, Belief

\* A trick of the round.
LEMMA TakenIs ==
    ASSUME ClientsOK, NEW w \in Clients, NEW m \in FullTricks, takenMsg(w, m), NEW b, b = Belief(w), NEW b2, b2 = Belief(w)'
    PROVE  Takes(w, b, b2)
<1>1. m.trickNo \in 1 .. TricksPerRound /\ m.trickNo + 1 \in 0 .. TricksPerRound + 1
  BY RulesAssumption DEF FullTricks
<1>2. /\ promptNo' = [promptNo EXCEPT ![w] = m.trickNo]
      /\ nextTrick' = [nextTrick EXCEPT ![w] = IF w \in Automatic THEN m.trickNo + 1 ELSE @]
      /\ localHand' = [localHand EXCEPT ![w] = @ \ Oldest(m.table, NSides)] \/ UNCHANGED localHand
      /\ lastCards' = [lastCards EXCEPT ![w] = SubSeq(@, 2, Len(@))] \/ UNCHANGED lastCards
      /\ UNCHANGED <<stage, waitingForCard, hurried, up, running, exitFlag>>
  BY DEF takenMsg, dropOldest, TrickAfter
<1>3. /\ promptNo \in [Clients -> 1 .. TricksPerRound] /\ nextTrick \in [Clients -> 0 .. TricksPerRound + 1]
      /\ localHand \in [Clients -> SUBSET Card] /\ lastCards \in [Clients -> Seq(Card)]
  BY DEF ClientsOK, ClientTypeOK
<1>4. promptNo' \in [Clients -> 1 .. TricksPerRound] /\ nextTrick' \in [Clients -> 0 .. TricksPerRound + 1]
  BY <1>1, <1>2, <1>3
<1>5. localHand' \in [Clients -> SUBSET Card] /\ \A v \in Clients \ {w} : localHand'[v] = localHand[v]
  BY <1>2, <1>3
<1>6. lastCards' \in [Clients -> Seq(Card)] /\ \A v \in Clients \ {w} : lastCards'[v] = lastCards[v]
  <2>1. SubSeq(lastCards[w], 2, Len(lastCards[w])) \in Seq(Card)
    BY <1>3
  <2>2. QED
    BY <1>2, <1>3, <2>1
<1>7. ClientsOK'
  BY <1>2, <1>4, <1>5, <1>6, CardsAreCards DEF ClientsOK, ClientTypeOK
<1>8. \A v \in Clients \ {w} : nextTrick'[v] = nextTrick[v]
  BY <1>2, <1>3
<1>9. ASSUME NEW v \in Clients \ {w} PROVE Same(v)
  BY <1>2, <1>5, <1>6, <1>8, SameIs
<1>10. QED
  BY <1>7, <1>9 DEF Takes, Belief

\* What it does to the player.
LEMMA TakenDoes ==
    ASSUME ClientsOK, NEW w \in Clients, NEW m, takenMsg(w, m), NEW b, b = Belief(w), NEW b2, b2 = Belief(w)'
    PROVE  /\ UNCHANGED running /\ m.type = "TAKEN"
           /\ b2.stage = b.stage /\ b2.up = b.up /\ b2.waiting = b.waiting
           /\ IF b.stage = "AFTER_FIRST_DEAL"
                THEN b2.hand = b.hand \ Oldest(m.table, NSides) /\ b2.out = b.out
                ELSE b2.hand = b.hand /\ b2.out = SubSeq(b.out, 2, Len(b.out))
<1>1. localHand \in [Clients -> SUBSET Card] /\ lastCards \in [Clients -> Seq(Card)]
  BY DEF ClientsOK, ClientTypeOK
<1>2. m.type = "TAKEN" /\ UNCHANGED <<stage, waitingForCard, up, running, exitFlag>>
  BY DEF takenMsg
<1>3. CASE stage[w] = "AFTER_FIRST_DEAL"
  <2>1. localHand' = [localHand EXCEPT ![w] = @ \ Oldest(m.table, NSides)] /\ UNCHANGED lastCards
    BY <1>3 DEF takenMsg, Applies
  <2>2. localHand'[w] = localHand[w] \ Oldest(m.table, NSides)
    BY <1>1, <2>1
  <2>3. QED
    BY <1>2, <1>3, <2>1, <2>2 DEF Belief
<1>4. CASE stage[w] # "AFTER_FIRST_DEAL"
  <2>1. lastCards' = [lastCards EXCEPT ![w] = SubSeq(@, 2, Len(@))] /\ UNCHANGED localHand
    BY <1>4 DEF takenMsg, Applies, dropOldest
  <2>2. lastCards'[w] = SubSeq(lastCards[w], 2, Len(lastCards[w]))
    BY <1>1, <2>1
  <2>3. QED
    BY <1>2, <1>4, <2>1, <2>2 DEF Belief
<1>5. QED
  BY <1>3, <1>4

\* A complaint.
LEMMA WrongIs ==
    ASSUME ClientsOK, NEW w \in Clients, NEW m \in Letter, m.trickNo <= TricksPerRound, wrongMsg(w, m),
           NEW b, b = Belief(w), NEW b2, b2 = Belief(w)'
    PROVE  /\ Takes(w, b, b2) /\ UNCHANGED running /\ m.type = "WRONG"
           /\ b2.stage = b.stage /\ b2.up = b.up
           /\ b2.hand = b.hand \cup Oldest(b.out, 1) /\ b2.out = SubSeq(b.out, 2, Len(b.out))
<1>1. m.type = "WRONG" /\ m.trickNo \in 1 .. TricksPerRound /\ m.trickNo \in 0 .. TricksPerRound + 1
  <2>1. m.type = "WRONG"
    BY DEF wrongMsg
  <2>2. m.trickNo \in 1 .. TricksPerRound + 1
    BY <2>1 DEF Letter, Messages
  <2>3. QED
    BY <2>1, <2>2, RulesAssumption
<1>2. /\ promptNo' = [promptNo EXCEPT ![w] = m.trickNo] /\ waitingForCard' = [waitingForCard EXCEPT ![w] = TRUE]
      /\ nextTrick' = [nextTrick EXCEPT ![w] = IF w \in Automatic THEN m.trickNo ELSE @]
      /\ localHand' = [localHand EXCEPT ![w] = @ \cup Oldest(lastCards[w], 1)]
      /\ lastCards' = [lastCards EXCEPT ![w] = SubSeq(@, 2, Len(@))]
      /\ UNCHANGED <<stage, hurried, up, running, exitFlag>>
  BY DEF wrongMsg, dropOldest
<1>3. /\ promptNo \in [Clients -> 1 .. TricksPerRound] /\ nextTrick \in [Clients -> 0 .. TricksPerRound + 1]
      /\ localHand \in [Clients -> SUBSET Card] /\ lastCards \in [Clients -> Seq(Card)]
      /\ waitingForCard \in [Clients -> BOOLEAN]
  BY DEF ClientsOK, ClientTypeOK
<1>4. /\ promptNo' \in [Clients -> 1 .. TricksPerRound] /\ nextTrick' \in [Clients -> 0 .. TricksPerRound + 1]
      /\ waitingForCard' \in [Clients -> BOOLEAN]
  BY <1>1, <1>2, <1>3
<1>5. Oldest(lastCards[w], 1) \subseteq Card
  <2>1. lastCards[w] \in Seq(Card)
    BY <1>3
  <2>2. QED
    BY <2>1 DEF Oldest
<1>6. /\ localHand' \in [Clients -> SUBSET Card] /\ localHand'[w] = localHand[w] \cup Oldest(lastCards[w], 1)
      /\ \A v \in Clients \ {w} : localHand'[v] = localHand[v]
  BY <1>2, <1>3, <1>5
<1>7. /\ lastCards' \in [Clients -> Seq(Card)] /\ lastCards'[w] = SubSeq(lastCards[w], 2, Len(lastCards[w]))
      /\ \A v \in Clients \ {w} : lastCards'[v] = lastCards[v]
  <2>1. SubSeq(lastCards[w], 2, Len(lastCards[w])) \in Seq(Card)
    BY <1>3
  <2>2. QED
    BY <1>2, <1>3, <2>1
<1>8. ClientsOK'
  BY <1>2, <1>4, <1>6, <1>7, CardsAreCards DEF ClientsOK, ClientTypeOK
<1>9. \A v \in Clients \ {w} : nextTrick'[v] = nextTrick[v] /\ waitingForCard'[v] = waitingForCard[v]
  BY <1>2, <1>3
<1>10. ASSUME NEW v \in Clients \ {w} PROVE Same(v)
  BY <1>2, <1>6, <1>7, <1>9, SameIs
<1>11. QED
  BY <1>1, <1>2, <1>6, <1>7, <1>8, <1>10 DEF Takes, Belief

\* Points.
LEMMA ScoreIs ==
    ASSUME ClientsOK, NEW w \in Clients, NEW m, scoreMsg(w, m), NEW b, b = Belief(w), NEW b2, b2 = Belief(w)'
    PROVE  Takes(w, b, b2) /\ UNCHANGED running /\ m.type \in {"SCORE", "TOTAL"} /\ Keeps(b, b2) /\ Later(b2)
<1>1. /\ stage' = [stage EXCEPT ![w] = IF m.type = "SCORE" THEN "AFTER_SCORE" ELSE "AFTER_TOTAL"]
      /\ UNCHANGED <<waitingForCard, promptNo, handVars, up, running, exitFlag>> /\ m.type \in {"SCORE", "TOTAL"}
  BY DEF scoreMsg, enter
<1>2. /\ stage' \in [Clients -> Stages] /\ stage'[w] \in {"AFTER_SCORE", "AFTER_TOTAL"}
      /\ \A v \in Clients \ {w} : stage'[v] = stage[v]
  BY <1>1 DEF ClientsOK, ClientTypeOK, Stages
<1>3. ClientsOK'
  BY <1>1, <1>2 DEF ClientsOK, ClientTypeOK, handVars
<1>4. ASSUME NEW v \in Clients \ {w} PROVE Same(v)
  BY <1>1, <1>2, SameIs DEF handVars
<1>5. QED
  BY <1>1, <1>2, <1>3, <1>4 DEF Takes, Belief, Keeps, Later, handVars

\* The end of a client.
LEMMA FinishIs ==
    ASSUME ClientsOK, NEW w \in Clients, NEW code \in {0, 1}, finish(w, code), DOMAIN up' = Clients,
           \A v \in Clients \ {w} : up'[v] = up[v]
    PROVE  /\ ClientsOK' /\ running'[w] = FALSE /\ (\A v \in Clients \ {w} : Same(v))
           /\ UNCHANGED <<stage, waitingForCard, handVars>>
<1>1. /\ running' = [running EXCEPT ![w] = FALSE] /\ exitFlag' = [exitFlag EXCEPT ![w] = code]
      /\ UNCHANGED <<stage, waitingForCard, promptNo, handVars>>
  BY DEF finish
<1>2. /\ running' \in [Clients -> BOOLEAN] /\ exitFlag' \in [Clients -> {0, 1}] /\ running'[w] = FALSE
      /\ \A v \in Clients \ {w} : running'[v] = running[v]
  BY <1>1 DEF ClientsOK, ClientTypeOK
<1>3. ClientsOK'
  BY <1>1, <1>2 DEF ClientsOK, ClientTypeOK, handVars
<1>4. ASSUME NEW v \in Clients \ {w} PROVE Same(v)
  BY <1>1, <1>2, SameIs DEF handVars
<1>5. QED
  BY <1>1, <1>2, <1>3, <1>4

\* A break down loses the end of what was sent.
LEMMA CrashIs ==
    ASSUME ClientsOK, NEW w \in Clients, crash(w)
    PROVE  /\ ClientsOK' /\ running'[w] = FALSE /\ (\A v \in Clients \ {w} : Same(v))
           /\ up[w] = <<>> => up'[w] = <<>>
           /\ \A m : up[w] = <<m>> => up'[w] \in {<<>>, <<m>>}
           /\ up[w] \in Seq(CardMsgs) => up'[w] \in Seq(CardMsgs)
<1>1. PICK n \in 0 .. Len(up[w]) : up' = [up EXCEPT ![w] = SubSeq(@, 1, n)]
  BY DEF crash
<1>2. DOMAIN up' = Clients /\ up'[w] = SubSeq(up[w], 1, n) /\ \A v \in Clients \ {w} : up'[v] = up[v]
  BY <1>1 DEF ClientsOK
<1>3. ASSUME up[w] = <<>> PROVE up'[w] = <<>>
  <2>1. n = 0
    BY <1>1, <1>3
  <2>2. SubSeq(<<>>, 1, 0) = <<>>
    OBVIOUS
  <2>3. QED
    BY <1>2, <1>3, <2>1, <2>2
<1>4. ASSUME NEW m, up[w] = <<m>> PROVE up'[w] \in {<<>>, <<m>>}
  <2>1. n \in {0, 1}
    BY <1>1, <1>4
  <2>2. up'[w] = SubSeq(<<m>>, 1, n)
    BY <1>2, <1>4
  <2>3. CASE n = 0
    <3>1. SubSeq(<<m>>, 1, 0) = <<>>
      OBVIOUS
    <3>2. QED
      BY <2>2, <2>3, <3>1
  <2>4. CASE n = 1
    <3> DEFINE q == SubSeq(<<m>>, 1, 1)
    <3>1. <<m>> \in Seq({m}) /\ Len(<<m>>) = 1 /\ <<m>>[1] = m
      OBVIOUS
    <3>2. q \in Seq({m}) /\ Len(q) = 1 /\ q[1] = m
      BY <3>1
    <3> HIDE DEF q
    <3>3. q = <<m>>
      BY <3>2
    <3>4. QED
      BY <2>2, <2>4, <3>3 DEF q
  <2>5. QED
    BY <2>1, <2>3, <2>4
<1>5. ASSUME up[w] \in Seq(CardMsgs) PROVE up'[w] \in Seq(CardMsgs)
  <2> DEFINE sent == up[w]
  <2> HIDE DEF CardMsgs, sent
  <2>1. sent \in Seq(CardMsgs) /\ n \in 0 .. Len(sent)
    BY <1>1, <1>5 DEF sent
  <2>2. SubSeq(sent, 1, n) \in Seq(CardMsgs)
    BY ONLY <2>1
  <2>3. QED
    BY <1>2, <2>2 DEF sent
<1>6. QED
  BY <1>2, <1>3, <1>4, <1>5, FinishIs DEF crash

\* A player that hears the next message stays in play, or breaks down.
LEMMA HearsInPlay ==
    ASSUME ClientsOK, NEW w \in Clients, NEW t, Sound(t), NEW q, q # <<>>, NEW m \in Letter, m = Head(q),
           NEW b, b = Belief(w), NEW b2, b2 = Belief(w)', InPlay(t, b, q), hear(w, m)
    PROVE  \/ crash(w)
           \/ /\ ClientsOK' /\ (\A v \in Clients \ {w} : Same(v))
              /\ UNCHANGED running /\ InPlay(t, b2, Tail(q))
<1> HIDE DEF Letter, Sound, InPlay
<1>1. CASE unreadableMsg(w, m)
  BY <1>1 DEF unreadableMsg
<1>2. CASE Readable(m) /\ trickMsg(w, m)
  <2>1. m.type = "TRICK" /\ m.trickNo <= TricksPerRound
    BY <1>2 DEF trickMsg, Readable
  <2>2. /\ Takes(w, b, b2) /\ Later(b2) /\ UNCHANGED running
        /\ \/ Keeps(b, b2)
           \/ /\ b.kind = "automatic" /\ ~(m.trickNo < b.next)
              /\ \E card \in Fitting(b.hand, m.table) :
                   /\ b2.hand = b.hand \ {card} /\ b2.out = Append(b.out, card)
                   /\ b2.up = Append(b.up, CardMsg(m.trickNo, card)) /\ b2.next = m.trickNo + 1
    BY <1>2, <2>1, TrickIs, SMTT(30)
  <2>3. CASE Keeps(b, b2)
    <3>1. InPlay(t, b2, Tail(q))
      BY <2>1, <2>2, <2>3, HearKeep
    <3>2. QED
      BY <2>2, <3>1 DEF Takes
  <2>4. CASE ~Keeps(b, b2)
    <3>1. PICK card \in Fitting(b.hand, m.table) :
                /\ b.kind = "automatic" /\ ~(m.trickNo < b.next)
                /\ b2.hand = b.hand \ {card} /\ b2.out = Append(b.out, card)
                /\ b2.up = Append(b.up, CardMsg(m.trickNo, card)) /\ b2.next = m.trickNo + 1
      BY <2>2, <2>4
    <3>2. b2.kind = b.kind
      BY <2>2 DEF Takes
    <3>3. InPlay(t, b2, Tail(q))
      BY <2>1, <2>2, <3>1, <3>2, HearAnswer
    <3>4. QED
      BY <2>2, <3>3 DEF Takes
  <2>5. QED
    BY <2>3, <2>4
<1>3. CASE Readable(m) /\ wrongMsg(w, m)
  <2>1. m.type = "WRONG" /\ m.trickNo <= TricksPerRound
    BY <1>3 DEF wrongMsg, Readable
  <2>2. /\ Takes(w, b, b2) /\ UNCHANGED running
        /\ b2.stage = b.stage /\ b2.up = b.up
        /\ b2.hand = b.hand \cup Oldest(b.out, 1) /\ b2.out = SubSeq(b.out, 2, Len(b.out))
    BY <1>3, <2>1, WrongIs
  <2>3. InPlay(t, b2, Tail(q))
    BY <2>1, <2>2, HearWrong
  <2>4. QED
    BY <2>2, <2>3 DEF Takes
<1>4. CASE dealMsg(w, m)
  <2>1. /\ Takes(w, b, b2) /\ UNCHANGED running /\ m.type = "DEAL"
        /\ b2.stage = (IF b.stage = "PRE" THEN "AFTER_FIRST_DEAL" ELSE "AFTER_DEAL")
        /\ b2.hand = m.cards /\ b2.out = b.out /\ b2.up = b.up /\ b2.waiting = b.waiting
    BY <1>4, DealIs
  <2>2. InPlay(t, b2, Tail(q))
    BY <2>1, HearDeal
  <2>3. QED
    BY <2>1, <2>2 DEF Takes
<1>5. CASE takenMsg(w, m)
  <2>1. /\ UNCHANGED running /\ m.type = "TAKEN"
        /\ b2.stage = b.stage /\ b2.up = b.up /\ b2.waiting = b.waiting
        /\ IF b.stage = "AFTER_FIRST_DEAL"
             THEN b2.hand = b.hand \ Oldest(m.table, NSides) /\ b2.out = b.out
             ELSE b2.hand = b.hand /\ b2.out = SubSeq(b.out, 2, Len(b.out))
    BY <1>5, TakenDoes
  <2>2. InPlay(t, b2, Tail(q)) /\ m \in FullTricks
    BY <2>1, HearTaken
  <2>3. Takes(w, b, b2)
    BY <1>5, <2>2, TakenIs
  <2>4. QED
    BY <2>1, <2>2, <2>3 DEF Takes
<1>6. CASE scoreMsg(w, m)
  <2>1. Takes(w, b, b2) /\ UNCHANGED running /\ m.type \in {"SCORE", "TOTAL"} /\ Keeps(b, b2) /\ Later(b2)
    BY <1>6, ScoreIs
  <2>2. InPlay(t, b2, Tail(q))
    BY <2>1, HearKeep
  <2>3. QED
    BY <2>1, <2>2 DEF Takes
<1>7. CASE busyMsg(w, m)
  BY <1>7, HearNoBusy DEF busyMsg
<1>8. QED
  BY <1>1, <1>2, <1>3, <1>4, <1>5, <1>6, <1>7 DEF hear

\* What a client hears does not make it hurry.
LEMMA HearsCalmly ==
    ASSUME NEW w, NEW m, hear(w, m)
    PROVE  UNCHANGED hurried
<1>1. CASE unreadableMsg(w, m) \/ busyMsg(w, m)
  BY <1>1 DEF unreadableMsg, busyMsg, crash, finish, handVars
<1>2. CASE trickMsg(w, m) \/ wrongMsg(w, m) \/ dealMsg(w, m) \/ takenMsg(w, m)
  BY <1>2 DEF trickMsg, wrongMsg, dealMsg, takenMsg
<1>3. CASE scoreMsg(w, m)
  BY <1>3 DEF scoreMsg, handVars
<1>4. QED
  BY <1>1, <1>2, <1>3 DEF hear

\* A person who hurries hears the next message, or breaks down.
LEMMA HearsAdrift ==
    ASSUME ClientsOK, NEW w \in Clients, NEW q, q # <<>>, NEW m \in Letter, m = Head(q),
           NEW b, b = Belief(w), NEW b2, b2 = Belief(w)', Adrift(b, q), hear(w, m)
    PROVE  \/ crash(w)
           \/ /\ ClientsOK' /\ (\A v \in Clients \ {w} : Same(v))
              /\ UNCHANGED running /\ Adrift(b2, Tail(q))
<1>1. m \in Fair /\ Tail(q) \in Seq(Fair) /\ b.kind = "console" /\ b.hurried /\ b.up \in Seq(CardMsgs)
  BY FirstOf DEF Adrift, Rushes
<1>2. b2.hurried = b.hurried
  BY HearsCalmly DEF Belief
<1> HIDE DEF Letter
<1>3. ASSUME Takes(w, b, b2), UNCHANGED running, b2.up = b.up
      PROVE  /\ ClientsOK' /\ (\A v \in Clients \ {w} : Same(v))
             /\ UNCHANGED running /\ Adrift(b2, Tail(q))
  BY <1>1, <1>2, <1>3 DEF Takes, Adrift, Rushes
<1>4. CASE unreadableMsg(w, m)
  BY <1>4 DEF unreadableMsg
<1>5. CASE Readable(m) /\ trickMsg(w, m)
  <2>1. m.trickNo <= TricksPerRound
    BY <1>5 DEF trickMsg, Readable
  <2>2. Takes(w, b, b2) /\ UNCHANGED running /\ (Keeps(b, b2) \/ b.kind = "automatic")
    BY <1>5, <2>1, TrickIs, SMTT(30)
  <2>3. QED
    BY <1>1, <1>3, <2>2 DEF Keeps
<1>6. CASE Readable(m) /\ wrongMsg(w, m)
  <2>1. m.trickNo <= TricksPerRound
    BY <1>6 DEF wrongMsg, Readable
  <2>2. QED
    BY <1>3, <1>6, <2>1, WrongIs
<1>7. CASE dealMsg(w, m)
  BY <1>3, <1>7, DealIs
<1>8. CASE takenMsg(w, m)
  <2>1. UNCHANGED running /\ m.type = "TAKEN" /\ b2.up = b.up
    BY <1>8, TakenDoes
  <2>2. m \in FullTricks
    BY <1>1, <2>1 DEF Fair
  <2>3. Takes(w, b, b2)
    BY <1>8, <2>2, TakenIs
  <2>4. QED
    BY <1>3, <2>1, <2>3
<1>9. CASE scoreMsg(w, m)
  <2>1. Takes(w, b, b2) /\ UNCHANGED running /\ Keeps(b, b2)
    BY <1>9, ScoreIs
  <2>2. QED
    BY <1>3, <2>1 DEF Keeps
<1>10. ~busyMsg(w, m)
  BY <1>1 DEF Fair, busyMsg
<1>11. QED
  BY <1>4, <1>5, <1>6, <1>7, <1>8, <1>9, <1>10 DEF hear

\* Anyone at the table does.
LEMMA HearsAtTable ==
    ASSUME ClientsOK, NEW w \in Clients, NEW t, Sound(t), NEW q, q # <<>>, NEW m \in Letter, m = Head(q),
           NEW b, b = Belief(w), NEW b2, b2 = Belief(w)', AtTable(t, b, q), hear(w, m)
    PROVE  \/ crash(w)
           \/ /\ ClientsOK' /\ (\A v \in Clients \ {w} : Same(v))
              /\ UNCHANGED running /\ AtTable(t, b2, Tail(q))
<1> HIDE DEF Letter, Sound, InPlay, Adrift
<1>1. CASE InPlay(t, b, q)
  BY <1>1, HearsInPlay DEF AtTable
<1>2. CASE Adrift(b, q)
  BY <1>2, HearsAdrift DEF AtTable
<1>3. QED
  BY <1>1, <1>2 DEF AtTable

\* A step of one client and its worker.
OnlyClient(w) ==
    /\ UNCHANGED <<gameVars, seatVars, lastDeal, nextIx, workers>>
    /\ ClientsOK'
    /\ \A v \in Clients \ {w} : Same(v) /\ link'[v] = link[v] /\ jobs'[v] = jobs[v] /\ roles'[v] = roles[v]
    /\ link' \in [Clients -> {"none", "open", "left", "shut"}] /\ jobs' \in [Workers -> Seq(Letter)]
    /\ roles' \in [Workers -> Status \cup {"none"}]

\* It concerns that client alone.
LEMMA StepOfOne ==
    ASSUME TableKept, NEW w \in Clients, OnlyClient(w), ClientKept(w)'
    PROVE  TableKept'
<1>1. /\ UNCHANGED <<activeSides, workerToSide, playersConnected, nextIx, workers, lastDeal>>
      /\ UNCHANGED gameVars /\ TableTypeOK /\ nextIx \in Nat /\ nextIx' \in Nat
  BY DEF OnlyClient, seatVars, TableKept, TableTypeOK
<1>2. TableTypeOK'
  BY <1>1 DEF TableTypeOK, ClientsOK, OnlyClient
<1>3. Paired' /\ Laid' /\ ClientTypeOK'
  <2>1. Paired'
    BY <1>1 DEF TableKept, Paired
  <2>2. Incomplete => Incomplete'
    BY <1>1 DEF Incomplete
  <2>3. QED
    BY <1>1, <2>1, <2>2, LaidStays DEF TableKept, OnlyClient, ClientsOK
<1>4. ASSUME NEW v \in Clients \ {w} PROVE ClientKept(v)'
  <2>1. Alike(v)
    BY <1>1 DEF Alike, Same, OnlyClient
  <2>2. QED
    BY <1>1, <2>1, AlikeKept DEF TableKept
<1>5. QED
  BY <1>2, <1>3, <1>4 DEF TableKept

\* A client that breaks down, whatever it is doing.
LEMMA DownKept ==
    ASSUME GameKept, TableKept, NEW w \in Clients, running[w], crash(w),
           UNCHANGED <<gameVars, serverVars, tableVars>>, Peace(w)',
           link' = [link EXCEPT ![w] = IF link[w] = "open" THEN "left" ELSE "shut"]
    PROVE  ClientKept(w)'
<1>1. /\ UNCHANGED <<roles, workerToSide, nextIx, workers, lastDeal>>
      /\ UNCHANGED gameVars /\ TableTypeOK /\ ClientsOK /\ ClientKept(w)
  BY DEF serverVars, seatVars, tableVars, TableKept, TableTypeOK, ClientsOK
<1>2. /\ running'[w] = FALSE
      /\ up[w] = <<>> => up'[w] = <<>>
      /\ \A m : up[w] = <<m>> => up'[w] \in {<<>>, <<m>>}
      /\ up[w] \in Seq(CardMsgs) => up'[w] \in Seq(CardMsgs)
  BY <1>1, CrashIs
<1>3. link[w] \in {"open", "shut"} /\ link'[w] = IF link[w] = "open" THEN "left" ELSE "shut"
  BY <1>1 DEF ClientKept, Connected, TableTypeOK
<1>4. Connected(w)'
  BY <1>1, <1>2, <1>3 DEF ClientKept, Connected, Seated
<1>5. Stranger(w)'
  <2>1. ASSUME link[w] = "open", ~Seated(w) PROVE Introduces(w)' \/ up'[w] = <<>>
    <3>1. Introduces(w)
      BY <1>1, <2>1 DEF ClientKept, Stranger
    <3>2. QED
      BY <1>1, <1>2, <3>1 DEF Introduces
  <2>2. QED
    BY <1>1, <1>2, <1>3, <2>1 DEF Stranger, Seated
<1>6. Parted(w)'
  <2> SUFFICES ASSUME link[w] = "open", NEW s \in Sides, workerToSide[w] = s
               PROVE  Sends(Truth(s)', Belief(w)')
    BY <1>1, <1>3 DEF Parted
  <2>1. Seated(w)
    BY RulesAssumption DEF Seated, Sides, NoSide
  <2>2. Sends(Truth(s), Belief(w))
    <3>1. CASE lastDeal = <<>>
      BY <1>1, <2>1, <3>1 DEF ClientKept, Follows, Sends, Belief
    <3>2. CASE lastDeal # <<>>
      BY <1>1, <2>1, <3>2, PlayerSends DEF ClientKept, Follows
    <3>3. QED
      BY <3>1, <3>2
  <2>3. Belief(w).up = up[w] /\ Belief(w)'.up = up'[w] /\ Belief(w)'.kind = Belief(w).kind
    BY DEF Belief
  <2>4. Truth(s)' = Truth(s)
    BY <1>1, TruthStays
  <2>5. CASE up[w] = <<>>
    BY <1>2, <2>3, <2>5 DEF Sends
  <2>6. CASE Rushes(Belief(w))
    BY <1>2, <2>3, <2>6 DEF Sends, Rushes
  <2>7. CASE up[w] # <<>> /\ ~Rushes(Belief(w))
    <3>1. PICK card \in Card, no \in 1 .. TricksPerRound : Answers(Truth(s), Belief(w), card, no)
      BY <2>2, <2>3, <2>7 DEF Sends
    <3>2. up[w] = <<CardMsg(no, card)>>
      BY <2>3, <3>1 DEF Answers
    <3>3. up'[w] \in {<<>>, <<CardMsg(no, card)>>}
      BY <1>2, <3>2
    <3>4. up'[w] = <<>> \/ Answers(Truth(s)', Belief(w)', card, no)
      BY <2>3, <2>4, <3>1, <3>3 DEF Answers
    <3>5. QED
      BY <2>3, <3>4 DEF Sends
  <2>8. QED
    BY <2>5, <2>6, <2>7
<1>7. Follows(w)'
  BY <1>3 DEF Follows
<1>8. QED
  BY <1>4, <1>5, <1>6, <1>7 DEF ClientKept

\* It breaks down by itself.
LEMMA BreakDownKept ==
    ASSUME GameKept, TableKept, NEW w \in Clients, breakDown(w)
    PROVE  TableKept'
<1>1. /\ running[w] /\ crash(w) /\ UNCHANGED <<gameVars, serverVars, tableVars, jobs>>
      /\ link' = [link EXCEPT ![w] = IF link[w] = "open" THEN "left" ELSE "shut"]
  BY DEF breakDown, setLink, mgrVars, queueVars
<1>2. TableTypeOK /\ ClientsOK
  BY DEF TableKept, TableTypeOK, ClientsOK
<1>3. ClientsOK' /\ (\A v \in Clients \ {w} : Same(v))
  BY <1>1, <1>2, CrashIs
<1>4. /\ link' \in [Clients -> {"none", "open", "left", "shut"}] /\ jobs' \in [Workers -> Seq(Letter)]
      /\ \A v \in Clients \ {w} : link'[v] = link[v]
  BY <1>1, <1>2 DEF TableTypeOK
<1>5. Peace(w)'
  BY <1>1 DEF TableKept, ClientKept, Peace
<1>6. ClientKept(w)'
  BY <1>1, <1>5, DownKept
<1>7. OnlyClient(w)
  BY <1>1, <1>2, <1>3, <1>4 DEF OnlyClient, serverVars, tableVars, TableTypeOK
<1>8. QED
  BY <1>6, <1>7, StepOfOne

\* It ends when the connection is shut.
LEMMA EndOfFileKept ==
    ASSUME TableKept, NEW w \in Clients, endOfFile(w)
    PROVE  TableKept'
<1>1. /\ link[w] = "shut" /\ UNCHANGED <<gameVars, serverVars, tableVars, jobs, link, up>>
      /\ \E code \in {0, 1} : finish(w, code)
  BY DEF endOfFile, eof, EofCode, mgrVars, queueVars
<1>2. TableTypeOK /\ ClientsOK /\ ClientKept(w)
  BY DEF TableKept, TableTypeOK, ClientsOK
<1>3. ClientsOK' /\ running'[w] = FALSE /\ (\A v \in Clients \ {w} : Same(v))
  <2>1. DOMAIN up' = Clients /\ \A v \in Clients \ {w} : up'[v] = up[v]
    BY <1>1, <1>2 DEF ClientsOK
  <2>2. QED
    BY <1>1, <1>2, <2>1, FinishIs
<1>4. UNCHANGED <<roles, workerToSide, nextIx, workers, lastDeal, link, jobs>>
  BY <1>1 DEF serverVars, seatVars, tableVars
<1>5. ClientKept(w)'
  BY <1>1, <1>2, <1>3, <1>4 DEF ClientKept, Connected, Stranger, Parted, Peace, Follows, Seated
<1>6. OnlyClient(w)
  BY <1>1, <1>2, <1>3 DEF OnlyClient, serverVars, tableVars, TableTypeOK
<1>7. QED
  BY <1>5, <1>6, StepOfOne

\* A message arrives at a client.
LEMMA DeliverKept ==
    ASSUME GameKept, TableKept, NEW w \in Clients, deliverNext(w)
    PROVE  TableKept'
<1> DEFINE q == jobs[w]
           m == Head(q)
           b == Belief(w)
           b2 == Belief(w)'
<1>1. /\ link[w] = "open" /\ q # <<>> /\ hear(w, m) /\ jobs' = [jobs EXCEPT ![w] = Tail(@)]
      /\ link' = [link EXCEPT ![w] = IF running'[w] THEN "open" ELSE "left"]
      /\ UNCHANGED <<gameVars, serverVars, tableVars>>
  BY DEF deliverNext, setLink
<1>2. TableTypeOK /\ ClientsOK /\ ClientKept(w) /\ w \in Workers
  BY TableAssumption DEF TableKept, TableTypeOK, ClientsOK
<1>3. q \in Seq(Letter) /\ m \in Letter /\ Tail(q) \in Seq(Letter)
  <2>1. q \in Seq(Letter)
    BY <1>2 DEF TableTypeOK
  <2> HIDE DEF Letter, q
  <2>2. QED
    BY <1>1, <2>1
<1>4. /\ jobs' \in [Workers -> Seq(Letter)] /\ jobs'[w] = Tail(q) /\ \A v \in Clients \ {w} : jobs'[v] = jobs[v]
      /\ link' \in [Clients -> {"none", "open", "left", "shut"}] /\ \A v \in Clients \ {w} : link'[v] = link[v]
      /\ link'[w] = IF running'[w] THEN "open" ELSE "left"
  <2> HIDE DEF Letter
  <2>1. \A v \in Clients : v \in Workers
    BY TableAssumption
  <2>2. QED
    BY <1>1, <1>2, <1>3, <2>1 DEF TableTypeOK
<1>5. Peace(w)'
  <2> SUFFICES ASSUME w \in Automatic PROVE Tail(q) \in Seq(Peaceful)
    BY <1>4 DEF Peace
  <2>1. q \in Seq(Peaceful)
    BY <1>2 DEF ClientKept, Peace
  <2> HIDE DEF Peaceful, q
  <2>2. QED
    BY <1>1, <2>1
<1>6. /\ UNCHANGED <<roles, workerToSide, nextIx, workers, lastDeal>> /\ UNCHANGED gameVars
      /\ running[w] = TRUE
  <2>1. running[w]
    BY <1>1, <1>2 DEF ClientKept, Connected
  <2>2. QED
    BY <1>1, <1>2, <2>1 DEF serverVars, seatVars, tableVars, ClientsOK, ClientTypeOK
<1>7. CASE ~Seated(w)
  <2>1. q \in Seq(Refusals)
    BY <1>1, <1>2, <1>7 DEF ClientKept, Stranger
  <2>2. m \in Refusals
    <3> HIDE DEF Refusals, q
    <3>1. QED
      BY <1>1, <2>1
  <2>3. finish(w, 1) /\ UNCHANGED up
    BY <1>1, <2>2 DEF Refusals, hear, unreadableMsg, Readable, trickMsg, wrongMsg, dealMsg, takenMsg, scoreMsg, busyMsg
  <2>4. ClientsOK' /\ running'[w] = FALSE /\ (\A v \in Clients \ {w} : Same(v))
    <3>1. DOMAIN up' = Clients /\ \A v \in Clients \ {w} : up'[v] = up[v]
      BY <1>2, <2>3 DEF ClientsOK
    <3>2. QED
      BY <1>2, <2>3, <3>1, FinishIs
  <2>5. Introduces(w)
    BY <1>1, <1>2, <1>7 DEF ClientKept, Stranger
  <2>6. Introduces(w)'
    BY <1>6, <2>3, <2>5 DEF Introduces
  <2>7. Connected(w)' /\ Stranger(w)'
    BY <1>1, <1>2, <1>4, <1>6, <1>7, <2>4, <2>6 DEF ClientKept, Connected, Stranger, Seated
  <2>8. Parted(w)' /\ Follows(w)'
    BY <1>6, <1>7, RulesAssumption DEF Parted, Follows, Seated, Sides, NoSide
  <2>9. OnlyClient(w) /\ ClientKept(w)'
    BY <1>1, <1>2, <1>4, <1>5, <2>4, <2>7, <2>8 DEF OnlyClient, ClientKept, serverVars, tableVars, TableTypeOK
  <2>10. QED
    BY <2>9, StepOfOne
<1>8. CASE Seated(w)
  <2>1. lastDeal # <<>>
    BY <1>1, <1>2, <1>8 DEF ClientKept, Follows
  <2>2. PICK s \in Sides : workerToSide[w] = s
    BY <1>2, <1>8 DEF TableTypeOK, Seated
  <2> DEFINE t == Truth(s)
  <2>3. Sound(t) /\ AtTable(t, b, q)
    BY <1>1, <1>2, <1>8, <2>1, <2>2, SoundNow DEF AllSound, ClientKept, Follows
  <2>4. \/ crash(w)
        \/ /\ ClientsOK' /\ (\A v \in Clients \ {w} : Same(v))
           /\ UNCHANGED running /\ AtTable(t, b2, Tail(q))
    <3> HIDE DEF t, q, m, b, b2
    <3>1. b = Belief(w) /\ b2 = Belief(w)' /\ m = Head(q)
      BY DEF b, b2, m
    <3>2. QED
      BY <1>1, <1>2, <1>3, <2>3, <3>1, HearsAtTable
  <2>5. CASE crash(w)
    <3>1. ClientsOK' /\ running'[w] = FALSE /\ (\A v \in Clients \ {w} : Same(v))
      BY <1>2, <2>5, CrashIs
    <3>2. link' = [link EXCEPT ![w] = IF link[w] = "open" THEN "left" ELSE "shut"]
      BY <1>1, <3>1
    <3>3. ClientKept(w)'
      BY <1>1, <1>5, <1>6, <2>5, <3>2, DownKept
    <3>4. OnlyClient(w)
      BY <1>1, <1>2, <1>4, <3>1 DEF OnlyClient, serverVars, tableVars, TableTypeOK
    <3>5. QED
      BY <3>3, <3>4, StepOfOne
  <2>6. CASE ~crash(w)
    <3>1. /\ ClientsOK' /\ (\A v \in Clients \ {w} : Same(v))
          /\ UNCHANGED running /\ AtTable(t, b2, Tail(q))
      BY <2>4, <2>6
    <3>2. link'[w] = "open" /\ link[w] = "open"
      BY <1>1, <1>4, <1>6, <3>1
    <3>3. Connected(w)'
      BY <1>2, <1>6, <3>1, <3>2 DEF ClientKept, Connected, Seated
    <3>4. Stranger(w)' /\ Parted(w)'
      BY <1>6, <1>8, <3>2 DEF Stranger, Parted, Seated
    <3>5. Follows(w)'
      <4>1. AtTable(Truth(s)', Belief(w)', jobs'[w])
        BY <1>4, <1>6, <3>1, TruthStays
      <4>2. QED
        BY <1>6, <2>1, <2>2, <4>1 DEF Follows
    <3>6. OnlyClient(w) /\ ClientKept(w)'
      BY <1>1, <1>2, <1>4, <1>5, <3>1, <3>3, <3>4, <3>5 DEF OnlyClient, ClientKept, serverVars, tableVars, TableTypeOK
    <3>7. QED
      BY <3>6, StepOfOne
  <2>7. QED
    BY <2>5, <2>6
<1>9. QED
  BY <1>7, <1>8

-----------------------------------------------------------------------------
(* What the server does.                                                   *)

\* A player in nobody's hands: the clients are left alone.
LEMMA ClientsStay ==
    ASSUME ClientsOK, UNCHANGED playerVars
    PROVE  ClientsOK' /\ \A v \in Clients : Same(v)
BY DEF ClientsOK, ClientTypeOK, playerVars, handVars, Same, Belief

\* A connection.
LEMMA ConnectKept ==
    ASSUME TableKept, NEW w \in Clients, connect(w)
    PROVE  TableKept'
<1>1. /\ w = nextIx /\ nextIx' = nextIx + 1 /\ workers' = workers \cup {nextIx}
      /\ roles' = [roles EXCEPT ![w] = "SERVING_UNKNOWN"] /\ link' = [link EXCEPT ![w] = "open"]
      /\ UNCHANGED <<gameVars, activeSides, workerToSide, playersConnected, lastDeal, jobs>>
  BY DEF connect, forwardConnection, spawnNewWorker, setRole, setLink, serverVars, seatVars, queueVars
<1>2. /\ running' = [running EXCEPT ![w] = TRUE] /\ up' = [up EXCEPT ![w] = <<IamMsg(Seat[w])>>]
      /\ UNCHANGED <<stage, waitingForCard, promptNo, handVars, exitFlag>>
  BY DEF connect, introduce
<1>3. /\ TableTypeOK /\ ClientsOK /\ ClientKept(w) /\ w \in Workers /\ nextIx \in Nat /\ nextIx' \in Nat
      /\ \A v \in Clients : v \in Workers
  BY <1>1, TableAssumption DEF TableKept, TableTypeOK, ClientsOK
<1>4. TableTypeOK'
  BY <1>1, <1>2, <1>3 DEF TableTypeOK, Status, handVars
<1>5. ClientTypeOK'
  BY <1>2, <1>3 DEF ClientsOK, ClientTypeOK, handVars
<1>6. Paired' /\ Laid'
  <2>1. Paired'
    BY <1>1 DEF TableKept, Paired
  <2>2. Incomplete => Incomplete'
    BY <1>1 DEF Incomplete
  <2>3. QED
    BY <1>1, <2>1, <2>2, LaidStays DEF TableKept
<1>7. ASSUME NEW v \in Clients \ {w} PROVE ClientKept(v)'
  <2>1. /\ link'[v] = link[v] /\ running'[v] = running[v] /\ up'[v] = up[v] /\ roles'[v] = roles[v]
        /\ Belief(v)' = Belief(v)
    BY <1>1, <1>2, <1>3 DEF TableTypeOK, ClientsOK, ClientTypeOK, Belief, handVars
  <2>2. Alike(v)
    BY <1>1, <1>3, <2>1 DEF Alike
  <2>3. QED
    BY <1>3, <2>2, AlikeKept DEF TableKept
<1>8. ClientKept(w)'
  <2>1. link[w] = "none"
    BY <1>1, <1>3 DEF ClientKept, Connected
  <2>2. ~Seated(w) /\ Unheard(Belief(w)) /\ jobs[w] = <<>>
    BY <1>3, <2>1 DEF ClientKept, Connected, Stranger
  <2>3. /\ link'[w] = "open" /\ running'[w] = TRUE /\ roles'[w] = "SERVING_UNKNOWN" /\ up'[w] = <<IamMsg(Seat[w])>>
        /\ w \in workers' /\ w < nextIx'
    BY <1>1, <1>2, <1>3 DEF TableTypeOK, ClientsOK, ClientTypeOK
  <2>4. Unheard(Belief(w)')
    BY <1>2, <2>2 DEF Unheard, Belief, handVars
  <2>5. Connected(w)' /\ Parted(w)' /\ Follows(w)'
    BY <1>1, <2>2, <2>3 DEF Connected, Parted, Follows, Seated
  <2>6. Stranger(w)' /\ Peace(w)'
    <3>1. <<>> \in Seq(Refusals) /\ <<>> \in Seq(Peaceful)
      BY Nothing
    <3>2. QED
      BY <1>1, <2>2, <2>3, <2>4, <3>1 DEF Stranger, Peace, Introduces, Seated
  <2>7. QED
    BY <2>5, <2>6 DEF ClientKept
<1>9. QED
  BY <1>4, <1>5, <1>6, <1>7, <1>8 DEF TableKept

\* What one worker is sent.
LEMMA MailIs ==
    ASSUME TableTypeOK, NEW w \in workers, w \in Workers, NEW msgs \in Seq(Letter), NEW killed, deliver(Mail(w, msgs), killed, {})
    PROVE  /\ jobs' \in [Workers -> Seq(Letter)] /\ jobs'[w] = jobs[w] \o msgs
           /\ \A v \in Workers \ {w} : jobs'[v] = jobs[v]
<1>1. jobs' = [v \in Workers |-> IF v \in workers THEN jobs[v] \o Mail(w, msgs)[v] ELSE jobs[v]]
  BY DEF deliver
<1>2. Mail(w, msgs)[w] = msgs /\ \A v \in Workers \ {w} : Mail(w, msgs)[v] = <<>>
  BY DEF Mail, NoMail
<1>3. ASSUME NEW v \in Workers PROVE jobs[v] \in Seq(Letter) /\ jobs[v] \o <<>> = jobs[v] /\ jobs[v] \o msgs \in Seq(Letter)
  BY LettersJoin, Nothing DEF TableTypeOK
<1> HIDE DEF Letter
<1>4. jobs'[w] = jobs[w] \o msgs /\ \A v \in Workers \ {w} : jobs'[v] = jobs[v]
  BY <1>1, <1>2, <1>3
<1>5. QED
  BY <1>1, <1>3, <1>4

\* The prompt asks the side to move.
LEMMA PromptAsksNow ==
    ASSUME GameTypeOK, NEW s \in Sides
    PROVE  PromptNow(s) \in Seq(Asking(s))
<1>1. table \in Seq(Card) /\ trickNo \in 1 .. TricksPerRound + 1
  BY DEF GameTypeOK
<1>2. s = nextMove => TrickMsg(table, trickNo) \in Asking(s)
  BY <1>1, LetterTrick DEF Asking, TrickMsg
<1>3. QED
  BY <1>2, Alone, Nothing DEF PromptNow

\* What is asked is asked of one who waits.
LEMMA AskedWaits ==
    ASSUME NEW t, Sound(t), NEW b, NEW q \in Seq(Letter), InPlay(t, b, q), NEW c \in Seq(t.asking)
    PROVE  InPlay(t, b, q \o c)
<1>1. CASE c = <<>>
  BY <1>1, Prompted
<1>2. CASE c # <<>>
  <2>1. \E m : m \in t.asking
    BY <1>2
  <2>2. t.turn = "waits"
    BY <2>1 DEF Sound
  <2>3. QED
    BY <2>2, Prompted
<1>3. QED
  BY <1>1, <1>2

\* Anyone at the table may be asked.
LEMMA AskedAtTable ==
    ASSUME NEW t, Sound(t), NEW b, NEW q \in Seq(Letter), AtTable(t, b, q), NEW c \in Seq(t.asking)
    PROVE  AtTable(t, b, q \o c)
<1>1. c \in Seq(Fair)
  BY AllFair, Wider
<1> HIDE DEF Letter, Sound, InPlay, Adrift
<1>2. CASE InPlay(t, b, q)
  BY <1>2, AskedWaits DEF AtTable
<1>3. CASE Adrift(b, q)
  BY <1>1, <1>3, AdriftMore DEF AtTable
<1>4. QED
  BY <1>2, <1>3 DEF AtTable

\* The side to move is asked again.
LEMMA AskAgainKept ==
    ASSUME GameKept, TableKept, NEW w \in Clients, askAgain(w)
    PROVE  TableKept'
<1>1. /\ link[w] = "open" /\ roles[w] = "SERVING_ACTIVE" /\ handleTimeout(w) /\ UNCHANGED <<playerVars, link>>
      /\ UNCHANGED <<gameVars, seatVars, lastDeal, tableVars>>
  BY DEF askAgain, handleTimeout
<1>2. TableTypeOK /\ ClientsOK /\ ClientKept(w) /\ w \in Workers /\ GameTypeOK /\ \A v \in Clients : v \in Workers
  BY TableAssumption DEF TableKept, TableTypeOK, ClientsOK, GameKept, InStep
<1>3. ClientsOK' /\ (\A v \in Clients : Same(v))
  BY <1>1, <1>2, ClientsStay
<1>4. Seated(w) /\ w \in workers
  BY <1>1, <1>2 DEF ClientKept, Connected
<1>5. PICK s \in Sides : workerToSide[w] = s
  BY <1>2, <1>4 DEF TableTypeOK, Seated
<1>6. \/ ~Incomplete /\ nextMove = s /\ sendTo(w, <<TrickMsg(table, trickNo)>>, {})
      \/ UNCHANGED jobs
  BY <1>1, <1>5 DEF handleTimeout, sendNothing, queueVars
<1>7. PICK msgs \in Seq(Asking(s)) :
        /\ jobs' \in [Workers -> Seq(Letter)] /\ jobs'[w] = jobs[w] \o msgs /\ msgs \in Seq(Peaceful)
        /\ \A v \in Workers \ {w} : jobs'[v] = jobs[v]
        /\ msgs # <<>> => lastDeal # <<>>
  <2>1. CASE UNCHANGED jobs
    <3>1. <<>> \in Seq(Asking(s)) /\ <<>> \in Seq(Peaceful)
      BY Nothing
    <3>2. jobs[w] \o <<>> = jobs[w]
      BY <1>2, Nothing DEF TableTypeOK
    <3>3. QED
      BY <1>2, <2>1, <3>1, <3>2 DEF TableTypeOK
  <2>2. CASE ~Incomplete /\ nextMove = s /\ sendTo(w, <<TrickMsg(table, trickNo)>>, {})
    <3> DEFINE msgs == <<TrickMsg(table, trickNo)>>
    <3>1. msgs \in Seq(Asking(s))
      BY <1>2, <2>2, PromptAsksNow DEF PromptNow
    <3>2. Asking(s) \subseteq Letter /\ Asking(s) \subseteq Peaceful
      BY DEF Asking, Peaceful
    <3>3. msgs \in Seq(Letter) /\ msgs \in Seq(Peaceful)
      BY <3>1, <3>2, Wider
    <3>4. lastDeal # <<>>
      BY <2>2 DEF TableKept, Laid
    <3>5. deliver(Mail(w, msgs), {}, {})
      BY <2>2 DEF sendTo
    <3> HIDE DEF msgs
    <3>6. /\ jobs' \in [Workers -> Seq(Letter)] /\ jobs'[w] = jobs[w] \o msgs
          /\ \A v \in Workers \ {w} : jobs'[v] = jobs[v]
      BY <1>2, <1>4, <3>3, <3>5, MailIs
    <3>7. QED
      BY <3>1, <3>3, <3>4, <3>6
  <2>3. QED
    BY <1>6, <2>1, <2>2
<1>8. OnlyClient(w)
  BY <1>1, <1>2, <1>3, <1>7 DEF OnlyClient, tableVars, TableTypeOK
<1>9. ClientKept(w)'
  <2>1. /\ Belief(w)' = Belief(w) /\ running'[w] = running[w] /\ UNCHANGED <<link, roles, workerToSide, lastDeal, workers, nextIx>>
        /\ UNCHANGED gameVars
    BY <1>1, <1>3 DEF Same, seatVars, tableVars
  <2>2. Connected(w)' /\ Stranger(w)' /\ Parted(w)'
    BY <1>1, <1>2, <1>4, <2>1 DEF ClientKept, Connected, Stranger, Parted, Seated
  <2>3. Peace(w)'
    BY <1>2, <1>7, SameKind DEF ClientKept, Peace
  <2>4. CASE lastDeal = <<>>
    <3>1. Unheard(Belief(w)) /\ up[w] = <<>> /\ jobs[w] = <<>> /\ jobs'[w] = jobs[w] \o <<>> /\ up'[w] = up[w]
      BY <1>1, <1>2, <1>3, <1>4, <1>7, <2>4 DEF ClientKept, Follows, Same
    <3>2. jobs'[w] = <<>>
      BY <1>2, <3>1, Nothing DEF TableTypeOK
    <3>3. QED
      BY <2>1, <2>2, <2>3, <2>4, <3>1, <3>2 DEF ClientKept, Follows
  <2>5. CASE lastDeal # <<>>
    <3>1. AtTable(Truth(s), Belief(w), jobs[w]) /\ Sound(Truth(s)) /\ Truth(s).asking = Asking(s)
      BY <1>1, <1>2, <1>4, <1>5, <2>5, SoundNow DEF ClientKept, Follows, AllSound, Truth
    <3>2. jobs[w] \in Seq(Letter)
      BY <1>2 DEF TableTypeOK
    <3>3. AtTable(Truth(s), Belief(w), jobs[w] \o msgs)
      <4> DEFINE t == Truth(s)
                 q == jobs[w]
      <4>1. Sound(t) /\ AtTable(t, Belief(w), q) /\ q \in Seq(Letter) /\ msgs \in Seq(t.asking)
        BY <1>7, <3>1, <3>2
      <4> HIDE DEF t, q, Sound, AtTable
      <4>2. AtTable(t, Belief(w), q \o msgs)
        BY <4>1, AskedAtTable
      <4>3. QED
        BY <4>2 DEF t, q
    <3>4. AtTable(Truth(s)', Belief(w)', jobs'[w])
      BY <1>7, <2>1, <3>3, TruthStays
    <3>5. Follows(w)'
      BY <1>5, <2>1, <2>5, <3>4 DEF Follows
    <3>6. QED
      BY <2>2, <2>3, <3>5 DEF ClientKept
  <2>6. QED
    BY <2>4, <2>5
<1>10. QED
  BY <1>8, <1>9, StepOfOne

\* The end of a worker.
LEMMA ExitKept ==
    ASSUME TableKept, NEW w \in Clients, NEW quit \in BOOLEAN, grandExitCallback(w, FALSE, FALSE, quit),
           link[w] \in {"open", "left"}, link[w] = "open" => jobs[w] = <<>>,
           setLink(w, "shut"), UNCHANGED playerVars
    PROVE  TableKept'
<1>1. TableTypeOK /\ ClientsOK /\ ClientKept(w) /\ w \in Workers /\ nextIx \in Nat /\ \A v \in Clients : v \in Workers
  BY TableAssumption DEF TableKept, TableTypeOK, ClientsOK
<1>2. ClientsOK' /\ (\A v \in Clients : Same(v))
  BY <1>1, ClientsStay
<1>3. roles[w] = "SERVING_ACTIVE" <=> Seated(w)
  BY <1>1 DEF ClientKept, Connected
<1>4. roles[w] \in {"SERVING_ACTIVE", "SERVING_UNKNOWN", "CLEANUP_UNKNOWN"}
  BY <1>1, <1>3 DEF ClientKept, Connected
<1>5. /\ UNCHANGED <<gameVars, lastDeal, nextIx, workers, jobs>>
      /\ roles' \in {roles, [roles EXCEPT ![w] = "SHUTDOWN"], [roles EXCEPT ![w] = "CLEANUP"]}
      /\ IF Seated(w)
           THEN freeSeat(w) /\ roles'[w] # "SERVING_ACTIVE"
           ELSE UNCHANGED <<activeSides, workerToSide, playersConnected>>
  <2>1. UNCHANGED <<gameVars, lastDeal, nextIx, workers>>
    BY DEF grandExitCallback
  <2>2. CASE playerLeaves(w, FALSE, quit)
    BY <1>1, <1>3, <2>1, <2>2 DEF playerLeaves, leaveOrLinger, leave, setRole, sendNothing, queueVars, TableTypeOK
  <2>3. CASE zombieLeaves(w, FALSE, quit) \/ strangerLeaves(w, quit)
    BY <1>3, <2>1, <2>3 DEF zombieLeaves, strangerLeaves, leave, setRole, sendNothing, queueVars, seatVars
  <2>4. QED
    BY <1>4, <2>2, <2>3 DEF grandExitCallback, proxyLeaves, goneAlready
<1>6. /\ roles' \in [Workers -> Status \cup {"none"}] /\ \A v \in Clients \ {w} : roles'[v] = roles[v]
      /\ roles'[w] # "SERVING_ACTIVE"
  BY <1>1, <1>3, <1>5 DEF TableTypeOK, Status
<1>7. /\ activeSides' \in [Sides -> Workers \cup {NoWorker}] /\ workerToSide' \in [Workers -> Sides \cup {NoSide}]
      /\ playersConnected' \in Int /\ playersConnected' <= playersConnected
      /\ workerToSide'[w] = NoSide /\ \A v \in Clients \ {w} : workerToSide'[v] = workerToSide[v]
      /\ Paired'
  <2>1. CASE Seated(w)
    <3>1. /\ playersConnected' = playersConnected - 1
          /\ activeSides' = [activeSides EXCEPT ![workerToSide[w]] = NoWorker]
          /\ workerToSide' = [workerToSide EXCEPT ![w] = NoSide]
      BY <1>5, <2>1 DEF freeSeat
    <3>2. workerToSide[w] \in Sides
      BY <1>1, <2>1 DEF TableTypeOK, Seated
    <3>3. NoSide \notin Sides /\ NoWorker \notin Workers
      BY RulesAssumption, MgrAssumption DEF NoSide, NoWorker, Sides, Workers
    <3>4. Paired'
      <4> SUFFICES ASSUME NEW v \in Workers, NEW s \in Sides
                   PROVE  activeSides'[s] = v <=> workerToSide'[v] = s
        BY DEF Paired
      <4>1. \A x \in Workers, y \in Sides : activeSides[y] = x <=> workerToSide[x] = y
        BY DEF TableKept, Paired
      <4>2. QED
        BY <1>1, <3>1, <3>2, <3>3, <4>1 DEF TableTypeOK
    <3>5. QED
      BY <1>1, <3>1, <3>2, <3>4 DEF TableTypeOK
  <2>2. CASE ~Seated(w)
    BY <1>1, <1>5, <2>2 DEF TableTypeOK, Seated, TableKept, Paired
  <2>3. QED
    BY <2>1, <2>2
<1>8. /\ link' \in [Clients -> {"none", "open", "left", "shut"}] /\ link'[w] = "shut"
      /\ \A v \in Clients \ {w} : link'[v] = link[v]
  BY <1>1 DEF setLink, TableTypeOK
<1>9. TableTypeOK' /\ Laid' /\ ClientTypeOK'
  <2>1. TableTypeOK'
    BY <1>1, <1>2, <1>5, <1>6, <1>7, <1>8 DEF TableTypeOK, ClientsOK
  <2>2. Incomplete => Incomplete'
    BY <1>1, <1>7, RulesAssumption DEF Incomplete, TableTypeOK
  <2>3. QED
    BY <1>2, <1>5, <2>1, <2>2, LaidStays DEF TableKept, ClientsOK
<1>10. ASSUME NEW v \in Clients \ {w} PROVE ClientKept(v)'
  <2>1. Alike(v)
    BY <1>1, <1>2, <1>5, <1>6, <1>7, <1>8 DEF Alike, Same
  <2>2. QED
    BY <1>1, <1>5, <2>1, AlikeKept DEF TableKept
<1>11. ClientKept(w)'
  <2>1. Connected(w)'
    BY <1>1, <1>5, <1>6, <1>7, <1>8 DEF ClientKept, Connected, Seated
  <2>2. link[w] = "left" => ~running[w]
    BY <1>1 DEF ClientKept, Connected
  <2>3. Stranger(w)' /\ Parted(w)' /\ Peace(w)' /\ Follows(w)'
    BY <1>1, <1>2, <1>5, <1>7, <1>8, <2>2 DEF ClientKept, Stranger, Parted, Peace, Follows, Same
  <2>4. QED
    BY <2>1, <2>3 DEF ClientKept
<1>12. QED
  BY <1>7, <1>9, <1>10, <1>11 DEF TableKept

\* A message of a client is read.
LEMMA ReadIs ==
    ASSUME ClientsOK, NEW w \in Clients, up' = [up EXCEPT ![w] = Tail(@)],
           UNCHANGED <<stage, waitingForCard, promptNo, handVars, running, exitFlag>>
    PROVE  /\ ClientsOK' /\ (\A v \in Clients \ {w} : Same(v))
           /\ running'[w] = running[w] /\ up'[w] = Tail(up[w])
           /\ Reads(Belief(w), Belief(w)')
           /\ \A x : up[w] = <<x>> => up'[w] = <<>> /\ Heard(Belief(w), Belief(w)')
           /\ Unheard(Belief(w)) => Unheard(Belief(w)')
<1>1. \A x : Tail(<<x>>) = <<>>
  OBVIOUS
<1>2. DOMAIN up' = Clients /\ up'[w] = Tail(up[w]) /\ \A v \in Clients \ {w} : up'[v] = up[v]
  BY DEF ClientsOK
<1>3. ClientsOK'
  BY <1>2 DEF ClientsOK, ClientTypeOK, handVars
<1>4. ASSUME NEW x, up[w] = <<x>> PROVE up'[w] = <<>> /\ Heard(Belief(w), Belief(w)')
  BY <1>1, <1>2, <1>4 DEF Belief, handVars, Heard
<1>5. Reads(Belief(w), Belief(w)') /\ (Unheard(Belief(w)) => Unheard(Belief(w)'))
  BY <1>2 DEF Reads, Belief, handVars, Unheard
<1>6. \A v \in Clients \ {w} : Same(v)
  BY <1>2 DEF Same, Belief, handVars
<1>7. QED
  BY <1>2, <1>3, <1>4, <1>5, <1>6

\* A stranger asks for its side, a player plays a card.
Asks(w) ==
    /\ ~Seated(w) /\ roles[w] = "SERVING_UNKNOWN" /\ up[w] = <<IamMsg(Seat[w])>>
    /\ takeSide(Seat[w], w) \/ answerBusy(Seat[w], w)

Plays(w, s, no, card) ==
    /\ workerToSide[w] = s /\ SenderSide(w) = s /\ lastDeal # <<>>
    /\ up[w] # <<>> /\ Head(up[w]) = CardMsg(no, card)
    /\ Answers(Truth(s), Belief(w), card, no) \/ Rushes(Belief(w))
    /\ (no = trickNo /\ acceptCard(card, w)) \/ rejectCard(no, card, w)

\* What a player has sent may be read.
LEMMA SendsOn ==
    ASSUME NEW t, NEW t2, NEW w, up[w] # <<>>, NEW b2, Reads(Belief(w), b2),
           (\E card, no : Answers(t, Belief(w), card, no)) \/ Rushes(Belief(w))
    PROVE  Sends(t2, b2)
<1>1. b2.kind = Belief(w).kind /\ b2.up = Tail(up[w]) /\ Belief(w).up = up[w]
  BY DEF Belief, Reads
<1>2. CASE \E card, no : Answers(t, Belief(w), card, no)
  <2>1. \E m : up[w] = <<m>>
    BY <1>1, <1>2 DEF Answers
  <2>2. Tail(up[w]) = <<>>
    BY <2>1
  <2>3. QED
    BY <1>1, <2>2 DEF Sends
<1>3. CASE Rushes(Belief(w))
  <2>1. Tail(up[w]) \in Seq(CardMsgs)
    BY <1>1, <1>3, FirstOf DEF Rushes
  <2>2. QED
    BY <1>1, <1>3, <2>1 DEF Sends, Rushes
<1>4. QED
  BY <1>2, <1>3

\* Nothing else is served.
LEMMA ServedIs ==
    ASSUME GameKept, TableKept, NEW w \in Clients, serve(w)
    PROVE  Asks(w) \/ \E s \in Sides, no \in 1 .. TricksPerRound, card \in Card : Plays(w, s, no, card)
<1>1. /\ link[w] \in {"open", "left"} /\ up[w] # <<>>
      /\ LET m == Head(up[w])
         IN  \/ m.type = "IAM" /\ playerIntro(m.side, w, TRUE)
             \/ m.type = "TRICK" /\ playerTricked(m.trickNo, m.card, w, TRUE)
  BY DEF serve
<1>2. TableTypeOK /\ ClientKept(w) /\ w \in Workers
  BY TableAssumption DEF TableKept
<1>3. roles[w] = "SERVING_ACTIVE" <=> Seated(w)
  BY <1>2 DEF ClientKept, Connected
<1>4. CASE ~Seated(w)
  <2>1. Introduces(w)
    BY <1>1, <1>2, <1>4 DEF ClientKept, Stranger
  <2>2. roles[w] = "SERVING_UNKNOWN" /\ up[w] = <<IamMsg(Seat[w])>>
    BY <1>1, <2>1 DEF Introduces
  <2>3. Head(up[w]).type = "IAM" /\ Head(up[w]).side = Seat[w]
    BY <2>2 DEF IamMsg
  <2>4. playerIntro(Seat[w], w, TRUE)
    BY <1>1, <2>3
  <2>5. QED
    BY <1>4, <2>2, <2>4 DEF Asks, playerIntro, dismissRepeat
<1>5. CASE Seated(w)
  <2>1. PICK s \in Sides : workerToSide[w] = s
    BY <1>2, <1>5 DEF TableTypeOK, Seated
  <2>2. Sends(Truth(s), Belief(w))
    <3>1. CASE link[w] = "left"
      BY <1>2, <2>1, <3>1 DEF ClientKept, Parted
    <3>2. CASE link[w] = "open"
      <4>1. lastDeal # <<>>
        BY <1>1, <1>2, <1>5, <3>2 DEF ClientKept, Follows
      <4>2. QED
        BY <1>2, <1>5, <2>1, <3>2, <4>1, PlayerSends DEF ClientKept, Follows
    <3>3. QED
      BY <1>1, <3>1, <3>2
  <2>3. PICK card \in Card, no \in 1 .. TricksPerRound :
          Head(up[w]) = CardMsg(no, card) /\ (Answers(Truth(s), Belief(w), card, no) \/ Rushes(Belief(w)))
    <3>1. Belief(w).up = up[w]
      BY DEF Belief
    <3>2. CASE \E card \in Card, no \in 1 .. TricksPerRound : Answers(Truth(s), Belief(w), card, no)
      BY <3>1, <3>2 DEF Answers
    <3>3. CASE Rushes(Belief(w))
      <4>1. Head(up[w]) \in CardMsgs
        BY <1>1, <3>1, <3>3, FirstOf DEF Rushes
      <4>2. QED
        BY <3>3, <4>1 DEF CardMsgs
    <3>4. QED
      BY <1>1, <2>2, <3>1, <3>2, <3>3 DEF Sends
  <2>4. Head(up[w]) = CardMsg(no, card)
    BY <2>3
  <2>5. Head(up[w]).type = "TRICK" /\ Head(up[w]).trickNo = no /\ Head(up[w]).card = card
    BY <2>4 DEF CardMsg
  <2>6. playerTricked(no, card, w, TRUE)
    BY <1>1, <2>5
  <2>7. ~Incomplete /\ ((no = trickNo /\ acceptCard(card, w)) \/ rejectCard(no, card, w))
    BY <1>3, <1>5, <2>6 DEF playerTricked, refuseStranger, ignoreCard
  <2>8. lastDeal # <<>>
    BY <2>7 DEF TableKept, Laid
  <2>9. SenderSide(w) = s
    BY <1>3, <1>5, <2>1 DEF SenderSide
  <2>10. Plays(w, s, no, card)
    BY <1>1, <2>1, <2>3, <2>7, <2>8, <2>9 DEF Plays
  <2>11. QED
    BY <2>10
<1>6. QED
  BY <1>4, <1>5

\* The side is taken.
LEMMA BusyKept ==
    ASSUME GameKept, TableKept, NEW w \in Clients, serve(w), Asks(w), answerBusy(Seat[w], w)
    PROVE  TableKept'
<1>1. /\ up' = [up EXCEPT ![w] = Tail(@)] /\ link[w] \in {"open", "left"}
      /\ UNCHANGED <<stage, waitingForCard, promptNo, handVars, running, exitFlag, link>>
  BY DEF serve
<1>2. TableTypeOK /\ ClientsOK /\ ClientKept(w) /\ w \in Workers /\ \A v \in Clients : v \in Workers
  BY TableAssumption DEF TableKept, TableTypeOK, ClientsOK
<1>3. ~Seated(w) /\ roles[w] = "SERVING_UNKNOWN" /\ up[w] = <<IamMsg(Seat[w])>>
  BY DEF Asks
<1>4. /\ ClientsOK' /\ (\A v \in Clients \ {w} : Same(v))
      /\ running'[w] = running[w] /\ up'[w] = <<>>
      /\ Unheard(Belief(w)) => Unheard(Belief(w)')
  BY <1>1, <1>2, <1>3, ReadIs
<1> DEFINE no == BusyMsg({s \in Sides : activeSides[s] # NoWorker})
<1>5. /\ roles' = [roles EXCEPT ![w] = "CLEANUP_UNKNOWN"] /\ deliver(Mail(w, <<no>>), {}, {})
      /\ UNCHANGED <<gameVars, seatVars, lastDeal, nextIx, workers>>
  BY DEF answerBusy, setRole, sendTo
<1>6. no \in Letter /\ no.type = "BUSY"
  BY LetterBusy DEF BusyMsg
<1>7. no \in Refusals /\ no \in Peaceful
  BY <1>6 DEF Refusals, Peaceful
<1> HIDE DEF no
<1>8. <<no>> \in Seq(Letter) /\ <<no>> \in Seq(Refusals) /\ <<no>> \in Seq(Peaceful)
  BY <1>6, <1>7, Alone
<1>9. w \in workers /\ w < nextIx
  BY <1>1, <1>2 DEF ClientKept, Connected
<1>10. /\ jobs' \in [Workers -> Seq(Letter)] /\ jobs'[w] = jobs[w] \o <<no>>
       /\ \A v \in Workers \ {w} : jobs'[v] = jobs[v]
  BY <1>2, <1>5, <1>8, <1>9, MailIs
<1>11. OnlyClient(w)
  BY <1>1, <1>2, <1>4, <1>5, <1>10 DEF OnlyClient, TableTypeOK, Status
<1>12. ClientKept(w)'
  <2>1. roles'[w] = "CLEANUP_UNKNOWN" /\ workerToSide'[w] = workerToSide[w] /\ UNCHANGED <<link, workers, nextIx>>
    BY <1>1, <1>2, <1>5 DEF TableTypeOK, seatVars
  <2>2. Connected(w)' /\ Parted(w)' /\ Follows(w)'
    BY <1>2, <1>3, <1>4, <2>1, RulesAssumption DEF ClientKept, Connected, Parted, Follows, Seated, Sides, NoSide
  <2>3. link[w] = "open" => jobs'[w] \in Seq(Refusals)
    BY <1>2, <1>3, <1>8, <1>10, SameKind DEF ClientKept, Stranger
  <2>4. Peace(w)'
    BY <1>2, <1>8, <1>10, SameKind DEF ClientKept, Peace
  <2>5. Introduces(w)'
    BY <1>4, <2>1 DEF Introduces
  <2>6. Stranger(w)'
    BY <1>1, <1>2, <1>3, <1>4, <2>1, <2>3, <2>5 DEF ClientKept, Stranger, Seated
  <2>7. QED
    BY <2>2, <2>4, <2>6 DEF ClientKept
<1>13. QED
  BY <1>11, <1>12, StepOfOne

\* A card that is refused.
LEMMA RejectKept ==
    ASSUME GameKept, TableKept, NEW w \in Clients, serve(w), NEW s \in Sides, NEW no \in 1 .. TricksPerRound,
           NEW card \in Card, Plays(w, s, no, card), rejectCard(no, card, w)
    PROVE  TableKept'
<1>1. /\ up' = [up EXCEPT ![w] = Tail(@)] /\ link[w] \in {"open", "left"}
      /\ UNCHANGED <<stage, waitingForCard, promptNo, handVars, running, exitFlag, link>>
  BY DEF serve
<1>2. TableTypeOK /\ ClientsOK /\ ClientKept(w) /\ w \in Workers /\ GameTypeOK /\ \A v \in Clients : v \in Workers
  BY TableAssumption DEF TableKept, TableTypeOK, ClientsOK, GameKept, InStep
<1>3. /\ workerToSide[w] = s /\ SenderSide(w) = s /\ lastDeal # <<>>
      /\ up[w] # <<>> /\ Head(up[w]) = CardMsg(no, card)
      /\ Answers(Truth(s), Belief(w), card, no) \/ Rushes(Belief(w))
  BY DEF Plays
<1>4. /\ ClientsOK' /\ (\A v \in Clients \ {w} : Same(v))
      /\ running'[w] = running[w] /\ Reads(Belief(w), Belief(w)')
      /\ \A x : up[w] = <<x>> => Heard(Belief(w), Belief(w)')
  BY <1>1, <1>2, ReadIs
<1> DEFINE wrong == WrongMsg(trickNo)
<1>5. /\ no # trickNo \/ ~mayPlay(s, card)
      /\ deliver(ToWorkers(activeSides, Post(s, <<wrong>>)), {}, {})
      /\ UNCHANGED <<gameVars, seatVars, lastDeal, tableVars>>
  BY <1>3 DEF rejectCard, post
<1>6. Belief(w).kind = "console"
  BY <1>3, <1>5 DEF Answers, Truth, Belief, Rushes
<1>7. wrong \in Letter /\ wrong \in Wrongs
  BY <1>2, LetterWrong DEF GameTypeOK, Wrongs, WrongMsg
<1> HIDE DEF wrong
<1>8. Seated(w) /\ w \in workers
  <2>1. Seated(w)
    BY <1>3, RulesAssumption DEF Seated, Sides, NoSide
  <2>2. QED
    BY <1>1, <1>2, <2>1 DEF ClientKept, Connected
<1>9. ToWorkers(activeSides, Post(s, <<wrong>>)) = Mail(w, <<wrong>>)
  <2>1. \A x \in Workers, y \in Sides : activeSides[y] = x <=> workerToSide[x] = y
    BY DEF TableKept, Paired
  <2>2. ASSUME NEW v \in Workers
        PROVE  ToWorkers(activeSides, Post(s, <<wrong>>))[v] = Mail(w, <<wrong>>)[v]
    <3>1. CASE v = w
      <4>1. activeSides[s] = w /\ \A t \in Sides : activeSides[t] = w => t = s
        BY <1>2, <1>3, <2>1
      <4>2. ToWorkers(activeSides, Post(s, <<wrong>>))[w] = Post(s, <<wrong>>)[s]
        BY <1>2, <4>1, ToWorkersAt
      <4>3. QED
        BY <1>2, <3>1, <4>2 DEF Post, NoPost, Mail, NoMail
    <3>2. CASE v # w
      <4>1. CASE \E t \in Sides : activeSides[t] = v
        <5>1. PICK t \in Sides : activeSides[t] = v
          BY <4>1
        <5>2. t # s /\ \A y \in Sides : activeSides[y] = v => y = t
          BY <1>2, <1>3, <2>1, <3>2, <5>1
        <5>3. ToWorkers(activeSides, Post(s, <<wrong>>))[v] = Post(s, <<wrong>>)[t]
          BY <5>1, <5>2, ToWorkersAt
        <5>4. QED
          BY <3>2, <5>2, <5>3 DEF Post, NoPost, Mail, NoMail
      <4>2. CASE ~\E t \in Sides : activeSides[t] = v
        BY <3>2, <4>2 DEF ToWorkers, Mail, NoMail
      <4>3. QED
        BY <4>1, <4>2
    <3>3. QED
      BY <3>1, <3>2
  <2>3. QED
    BY <2>2 DEF ToWorkers, Mail, NoMail
<1>10. /\ jobs' \in [Workers -> Seq(Letter)] /\ jobs'[w] = jobs[w] \o <<wrong>>
       /\ \A v \in Workers \ {w} : jobs'[v] = jobs[v]
  <2>1. <<wrong>> \in Seq(Letter)
    BY <1>7, Alone
  <2>2. QED
    BY <1>2, <1>5, <1>8, <1>9, <2>1, MailIs
<1>11. OnlyClient(w)
  BY <1>1, <1>2, <1>4, <1>5, <1>10 DEF OnlyClient, TableTypeOK, tableVars
<1>12. ClientKept(w)'
  <2>1. UNCHANGED <<link, workers, nextIx, roles, workerToSide, lastDeal>> /\ UNCHANGED gameVars
    BY <1>1, <1>5 DEF tableVars, seatVars
  <2>2. Connected(w)' /\ Stranger(w)'
    BY <1>1, <1>2, <1>4, <1>8, <2>1 DEF ClientKept, Connected, Stranger, Seated
  <2>3. Parted(w)' /\ Peace(w)'
    <3>1. Sends(Truth(s), Belief(w)')
      BY <1>3, <1>4, SendsOn
    <3>2. Parted(w)'
      BY <1>3, <2>1, <3>1, TruthStays DEF Parted
    <3>3. Peace(w)'
      BY <1>6 DEF Peace, Belief
    <3>4. QED
      BY <3>2, <3>3
  <2>4. Follows(w)'
    <3> SUFFICES ASSUME link[w] = "open" PROVE AtTable(Truth(s)', Belief(w)', jobs'[w])
      BY <1>3, <2>1 DEF Follows
    <3> DEFINE t == Truth(s)
               b == Belief(w)
               b2 == Belief(w)'
               q == jobs[w]
    <3>1. AtTable(t, b, q) /\ Sound(t)
      BY <1>2, <1>3, <1>8, SoundNow DEF ClientKept, Follows, AllSound
    <3>2. /\ b.up # <<>> /\ Head(b.up) = CardMsg(no, card) /\ b.kind = "console" /\ Reads(b, b2)
          /\ \A x : b.up = <<x>> => Heard(b, b2)
      BY <1>3, <1>4, <1>6 DEF Belief
    <3> HIDE DEF t, b, b2, q, InPlay, Sound
    <3>3. ASSUME InPlay(t, b, q) PROVE AtTable(t, b2, q \o <<wrong>>)
      <4>1. b.up = <<CardMsg(no, card)>> /\ Heard(b, b2)
        BY <3>2, <3>3, OneSent
      <4>2. CardRefused(t, b2, q \o <<wrong>>)
        BY <1>7, <3>1, <3>2, <3>3, <4>1, CardBack
      <4>3. QED
        BY <4>2 DEF InPlay, AtTable
    <3>4. ASSUME Adrift(b, q) PROVE AtTable(t, b2, q \o <<wrong>>)
      <4>1. Adrift(b2, q)
        BY <3>2, <3>4, AdriftRead
      <4>2. <<wrong>> \in Seq(Fair)
        BY <1>7, <3>1, AllFair, Alone
      <4>3. QED
        BY <4>1, <4>2, AdriftMore DEF AtTable
    <3>5. AtTable(t, b2, q \o <<wrong>>)
      BY <3>1, <3>3, <3>4 DEF AtTable
    <3>6. QED
      BY <1>10, <2>1, <3>5, TruthStays DEF t, b2, q
  <2>5. QED
    BY <2>2, <2>3, <2>4 DEF ClientKept
<1>13. QED
  BY <1>11, <1>12, StepOfOne

\* What a handler sends to the sides.
Posted(at, f) ==
    /\ jobs' \in [Workers -> Seq(Letter)]
    /\ \A v \in Workers : (\A y \in Sides : at[y] # v) => jobs'[v] = jobs[v]
    /\ \A v \in workers \cap Workers, s \in Sides : (\A y \in Sides : at[y] = v <=> y = s) => jobs'[v] = jobs[v] \o f[s]

\* Each client gets what goes to its side.
LEMMA PostIs ==
    ASSUME TableTypeOK, NEW at, NEW f \in [Sides -> Seq(Letter)], NEW killed, NEW woken,
           deliver(ToWorkers(at, f), killed, woken)
    PROVE  Posted(at, f)
<1>1. jobs' = [v \in Workers |-> IF v \in workers THEN jobs[v] \o ToWorkers(at, f)[v] ELSE jobs[v]]
  BY DEF deliver
<1>2. ASSUME NEW v \in Workers
      PROVE  jobs[v] \in Seq(Letter) /\ ToWorkers(at, f)[v] \in Seq(Letter) /\ jobs[v] \o ToWorkers(at, f)[v] \in Seq(Letter)
  <2>1. jobs[v] \in Seq(Letter) /\ ToWorkers(at, f)[v] \in Seq(Letter)
    BY ToWorkersType DEF TableTypeOK
  <2>2. QED
    BY <2>1, LettersJoin
<1> HIDE DEF Letter
<1>3. jobs' \in [Workers -> Seq(Letter)]
  BY <1>1, <1>2
<1>4. ASSUME NEW v \in Workers, \A y \in Sides : at[y] # v PROVE jobs'[v] = jobs[v]
  <2>1. ToWorkers(at, f)[v] = <<>>
    BY <1>4 DEF ToWorkers
  <2>2. jobs[v] \o <<>> = jobs[v]
    BY <1>2, Nothing
  <2>3. QED
    BY <1>1, <2>1, <2>2
<1>5. ASSUME NEW v \in workers \cap Workers, NEW s \in Sides, \A y \in Sides : at[y] = v <=> y = s
      PROVE  jobs'[v] = jobs[v] \o f[s]
  <2>1. ToWorkers(at, f)[v] = f[s]
    BY <1>5, ToWorkersAt
  <2>2. QED
    BY <1>1, <2>1
<1>6. QED
  BY <1>3, <1>4, <1>5 DEF Posted

\* A card that is played.
LEMMA CardPosted ==
    ASSUME GameKept, GameKept', TableKept, NEW w \in Clients, NEW s \in Sides, NEW no \in 1 .. TricksPerRound,
           NEW card \in Card, Plays(w, s, no, card), acceptCard(card, w)
    PROVE  /\ Posted(activeSides, [t \in Sides |-> AfterCard(t, card)])
           /\ Laid' /\ lastDeal' # <<>> /\ UNCHANGED <<seatVars, nextIx, workers, roles>>
<1>1. GameTypeOK /\ GameTypeOK' /\ InStep /\ TableTypeOK /\ Laid /\ lastDeal # <<>>
  BY DEF GameKept, InStep, TableKept, Plays
<1>2. [t \in Sides |-> AfterCard(t, card)] \in [Sides -> Seq(Letter)]
  <2>1. \A t \in Sides : AfterCard(t, card) \in Seq(Letter)
    BY <1>1, AfterCardType
  <2>2. QED
    BY <2>1
<1>3. \E killed : deliver(ToWorkers(activeSides, [t \in Sides |-> AfterCard(t, card)]), killed, {})
  BY DEF acceptCard, post
<1>4. Posted(activeSides, [t \in Sides |-> AfterCard(t, card)])
  BY <1>1, <1>2, <1>3, PostIs
<1>5. lastDeal' \in {hands', lastDeal} /\ UNCHANGED <<seatVars, nextIx, workers, roles>>
  BY DEF acceptCard
<1>6. hands' # <<>>
  <2>1. DOMAIN hands' = Sides
    BY <1>1 DEF GameTypeOK
  <2>2. QED
    BY <2>1, SomeHands
<1>7. Laid'
  BY ONLY <1>1, acceptCard(card, w), CardLays
<1>8. lastDeal' # <<>>
  BY <1>1, <1>5, <1>6
<1>9. QED
  BY <1>4, <1>5, <1>7, <1>8

\* It reaches a client, whoever it is.
LEMMA CardReaches ==
    ASSUME TableKept, NEW card, Posted(activeSides, [t \in Sides |-> AfterCard(t, card)]), NEW v \in Clients
    PROVE  /\ ~Seated(v) => jobs'[v] = jobs[v]
           /\ \A t \in Sides : workerToSide[v] = t => jobs'[v] = jobs[v] \o AfterCard(t, card)
<1>1. v \in Workers /\ ClientKept(v) /\ TableTypeOK /\ NoSide \notin Sides
  BY TableAssumption, RulesAssumption DEF TableKept, NoSide, Sides
<1>2. \A y \in Sides : activeSides[y] = v <=> workerToSide[v] = y
  BY <1>1 DEF TableKept, Paired
<1>3. CASE ~Seated(v)
  BY <1>1, <1>2, <1>3 DEF Seated, Posted
<1>4. ASSUME NEW t \in Sides, workerToSide[v] = t
      PROVE  jobs'[v] = jobs[v] \o AfterCard(t, card)
  <2>1. v \in workers
    BY <1>1, <1>4 DEF Seated, ClientKept, Connected
  <2>2. \A y \in Sides : activeSides[y] = v <=> y = t
    BY <1>2, <1>4
  <2>3. QED
    BY <1>1, <2>1, <2>2 DEF Posted
<1>5. QED
  BY <1>1, <1>3, <1>4 DEF Seated

\* Everybody else sees the card come.
LEMMA OthersSee ==
    ASSUME GameKept, GameKept', TableKept, NEW w \in Clients, NEW s \in Sides, NEW no \in 1 .. TricksPerRound,
           NEW card \in Card, Plays(w, s, no, card), acceptCard(card, w),
           NEW v \in Clients, v # w, Same(v), link'[v] = link[v]
    PROVE  ClientKept(v)'
<1>1. /\ workerToSide[w] = s /\ SenderSide(w) = s /\ lastDeal # <<>>
  BY DEF Plays
<1>2. /\ Posted(activeSides, [t \in Sides |-> AfterCard(t, card)])
      /\ lastDeal' # <<>> /\ UNCHANGED <<seatVars, nextIx, workers, roles>>
  BY CardPosted
<1>3. /\ ~Seated(v) => jobs'[v] = jobs[v]
      /\ \A t \in Sides : workerToSide[v] = t => jobs'[v] = jobs[v] \o AfterCard(t, card)
  BY <1>2, CardReaches
<1>4. /\ TableTypeOK /\ ClientKept(v) /\ v \in Workers /\ w \in Workers /\ NoSide \notin Sides
      /\ Belief(v)' = Belief(v) /\ running'[v] = running[v] /\ up'[v] = up[v] /\ UNCHANGED workerToSide
  BY <1>2, TableAssumption, RulesAssumption DEF TableKept, NoSide, Sides, Same, seatVars
<1>5. Connected(v)'
  BY <1>2, <1>4 DEF ClientKept, Connected, Seated
<1>6. CASE ~Seated(v)
  <2>1. jobs'[v] = jobs[v]
    BY <1>3, <1>6
  <2>2. Stranger(v)' /\ Peace(v)'
    BY <1>2, <1>4, <2>1 DEF ClientKept, Stranger, Peace, Introduces, Seated
  <2>3. Parted(v)' /\ Follows(v)'
    BY <1>4, <1>6 DEF Parted, Follows, Seated
  <2>4. QED
    BY <1>5, <2>2, <2>3 DEF ClientKept
<1>7. CASE Seated(v)
  <2>1. PICK t \in Sides : workerToSide[v] = t
    BY <1>4, <1>7 DEF TableTypeOK, Seated
  <2>2. t # s
    <3>1. \A x \in Workers, y \in Sides : activeSides[y] = x <=> workerToSide[x] = y
      BY DEF TableKept, Paired
    <3>2. QED
      BY <1>1, <1>4, <2>1, <3>1
  <2>3. jobs'[v] = jobs[v] \o AfterCard(t, card)
    BY <1>3, <2>1
  <2>4. Stranger(v)'
    BY <1>4, <1>5, <1>7 DEF Stranger, Seated, Connected
  <2>5. Peace(v)'
    <3>1. AfterCard(t, card) \in Seq(Peaceful)
      BY CardIsCalm
    <3>2. QED
      BY <1>4, <2>3, <3>1, SameKind DEF ClientKept, Peace
  <2>6. Parted(v)'
    <3> SUFFICES ASSUME link[v] = "left" PROVE Sends(Truth(t)', Belief(v))
      BY <1>4, <2>1 DEF Parted
    <3>1. Sends(Truth(t), Belief(v))
      BY <1>4, <2>1 DEF ClientKept, Parted
    <3>2. {c \in Card : mayPlay(t, c)} = {}
      BY <1>1, <2>2, CardIsMovers
    <3>3. Truth(t).legal = {}
      BY <3>2 DEF Truth
    <3>4. ASSUME NEW c \in Card, NEW n \in 1 .. TricksPerRound, Answers(Truth(t), Belief(v), c, n)
          PROVE  Answers(Truth(t)', Belief(v), c, n)
      BY <3>3, <3>4 DEF Answers
    <3>5. QED
      BY <3>1, <3>4 DEF Sends
  <2>7. Follows(v)'
    <3> SUFFICES ASSUME link[v] = "open" PROVE AtTable(Truth(t)', Belief(v), jobs'[v])
      BY <1>2, <1>4, <2>1 DEF Follows
    <3>1. AtTable(Truth(t), Belief(v), jobs[v])
      BY <1>1, <1>4, <1>7, <2>1 DEF ClientKept, Follows
    <3> DEFINE q == jobs[v]
               b == Belief(v)
    <3>2. ASSUME InPlay(Truth(t), b, q) PROVE AtTable(Truth(t)', b, q \o AfterCard(t, card))
      <4>1. s = SenderSide(w)
        BY <1>1
      <4> HIDE DEF b, q, InPlay
      <4>2. QED
        BY <2>2, <3>2, <4>1, CardSeen DEF AtTable
    <3>3. ASSUME Adrift(b, q) PROVE AtTable(Truth(t)', b, q \o AfterCard(t, card))
      <4> HIDE DEF b, q
      <4>1. QED
        BY <3>3, CardIsCalm, AdriftMore DEF AtTable
    <3>4. QED
      BY <2>3, <3>1, <3>2, <3>3 DEF AtTable
  <2>8. QED
    BY <1>5, <2>4, <2>5, <2>6, <2>7 DEF ClientKept
<1>8. QED
  BY <1>6, <1>7

\* A card that is played.
LEMMA AcceptKept ==
    ASSUME GameKept, GameKept', TableKept, NEW w \in Clients, serve(w), NEW s \in Sides, NEW no \in 1 .. TricksPerRound,
           NEW card \in Card, Plays(w, s, no, card), acceptCard(card, w)
    PROVE  TableKept'
<1>1. /\ up' = [up EXCEPT ![w] = Tail(@)] /\ link[w] \in {"open", "left"}
      /\ UNCHANGED <<stage, waitingForCard, promptNo, handVars, running, exitFlag, link>>
  BY DEF serve
<1>2. TableTypeOK /\ ClientsOK /\ ClientKept(w) /\ w \in Workers
  BY TableAssumption DEF TableKept, TableTypeOK, ClientsOK
<1>3. /\ workerToSide[w] = s /\ SenderSide(w) = s /\ lastDeal # <<>>
      /\ up[w] # <<>> /\ Head(up[w]) = CardMsg(no, card)
      /\ Answers(Truth(s), Belief(w), card, no) \/ Rushes(Belief(w))
  BY DEF Plays
<1>4. /\ ClientsOK' /\ (\A v \in Clients \ {w} : Same(v))
      /\ running'[w] = running[w] /\ Reads(Belief(w), Belief(w)')
      /\ \A x : up[w] = <<x>> => Heard(Belief(w), Belief(w)')
  BY <1>1, <1>2, ReadIs
<1>5. /\ Posted(activeSides, [t \in Sides |-> AfterCard(t, card)])
      /\ lastDeal' # <<>> /\ UNCHANGED <<seatVars, nextIx, workers, roles>> /\ Laid'
  BY CardPosted
<1>6. jobs'[w] = jobs[w] \o AfterCard(s, card)
  BY <1>3, <1>5, CardReaches
<1>7. UNCHANGED <<activeSides, workerToSide, playersConnected>>
  BY <1>5 DEF seatVars
<1>8. TableTypeOK' /\ Paired' /\ ClientTypeOK'
  <2>1. jobs' \in [Workers -> Seq(Letter)]
    BY <1>5 DEF Posted
  <2>2. TableTypeOK'
    BY <1>1, <1>2, <1>4, <1>5, <1>7, <2>1 DEF TableTypeOK, ClientsOK
  <2>3. QED
    BY <1>4, <1>7, <2>2 DEF TableKept, Paired, ClientsOK
<1>9. ASSUME NEW v \in Clients \ {w} PROVE ClientKept(v)'
  BY <1>1, <1>4, OthersSee
<1>10. ClientKept(w)'
  <2>1. Seated(w)
    BY <1>3, RulesAssumption DEF Seated, Sides, NoSide
  <2>2. Connected(w)' /\ Stranger(w)'
    BY <1>1, <1>2, <1>4, <1>5, <1>7, <2>1 DEF ClientKept, Connected, Stranger, Seated
  <2>3. Parted(w)'
    <3> DEFINE b2 == Belief(w)'
    <3>1. Reads(Belief(w), b2) /\ ((\E x, n : Answers(Truth(s), Belief(w), x, n)) \/ Rushes(Belief(w)))
      BY <1>3, <1>4
    <3>2. \A t : Sends(t, b2)
      <4> HIDE DEF b2
      <4>1. QED
        BY <1>3, <3>1, SendsOn
    <3>3. Sends(Truth(s)', Belief(w)')
      BY <3>2
    <3>4. QED
      BY <1>3, <1>7, <3>3 DEF Parted
  <2>4. Peace(w)'
    <3>1. AfterCard(s, card) \in Seq(Peaceful)
      BY CardIsCalm
    <3>2. QED
      BY <1>2, <1>6, <3>1, SameKind DEF ClientKept, Peace
  <2>5. Follows(w)'
    <3> SUFFICES ASSUME link[w] = "open" PROVE AtTable(Truth(s)', Belief(w)', jobs'[w])
      BY <1>1, <1>3, <1>5, <1>7 DEF Follows
    <3> DEFINE q == jobs[w]
               b == Belief(w)
               b2 == Belief(w)'
    <3>1. AtTable(Truth(s), b, q) /\ s = SenderSide(w)
      BY <1>2, <1>3, <2>1 DEF ClientKept, Follows
    <3>2. /\ b.up # <<>> /\ Head(b.up) = CardMsg(no, card) /\ Reads(b, b2)
          /\ \A x : b.up = <<x>> => Heard(b, b2)
      BY <1>3, <1>4 DEF Belief
    <3> HIDE DEF b, b2, q, InPlay
    <3>3. ASSUME InPlay(Truth(s), b, q) PROVE AtTable(Truth(s)', b2, q \o AfterCard(s, card))
      <4>1. b.up = <<CardMsg(no, card)>> /\ Heard(b, b2)
        BY <3>2, <3>3, OneSent
      <4>2. QED
        BY <3>1, <3>3, <4>1, CardTaken DEF AtTable
    <3>4. ASSUME Adrift(b, q) PROVE AtTable(Truth(s)', b2, q \o AfterCard(s, card))
      <4>1. Adrift(b2, q)
        BY <3>2, <3>4, AdriftRead
      <4>2. QED
        BY <4>1, CardIsCalm, AdriftMore DEF AtTable
    <3>5. AtTable(Truth(s)', b2, q \o AfterCard(s, card))
      BY <3>1, <3>3, <3>4 DEF AtTable
    <3>6. QED
      BY <1>6, <3>5 DEF b2, q
  <2>6. QED
    BY <2>2, <2>3, <2>4, <2>5 DEF ClientKept
<1>11. QED
  BY <1>5, <1>8, <1>9, <1>10 DEF TableKept

\* The hands of a round are hands.
LEMMA HandsOfDeal == GameTypeOK => Deal.hands \in [Sides -> SUBSET Card]
<1> SUFFICES ASSUME GameTypeOK PROVE Deal.hands \in [Sides -> SUBSET Card]
  BY SMTT(30)
<1>1. PICK n \in Nat \ {0} : n = Len(Scenario) /\ DOMAIN Scenario = 1 .. n
  BY ScenarioLength, Zenon
<1>2. roundNumber \in 0 .. n /\ (GameOver <=> roundNumber = n)
  BY <1>1 DEF GameTypeOK, GameOver
<1>3. (IF GameOver THEN roundNumber ELSE roundNumber + 1) \in DOMAIN Scenario
  BY ONLY <1>1, <1>2, n \in Nat \ {0}
<1>4. QED
  BY <1>3, RoundType DEF Deal

\* Somebody comes in.
LEMMA ComesIn ==
    ASSUME GameKept, NEW s \in Sides, NEW b, Unheard(b), b.up = <<>>, NEW cards \in SUBSET Card,
           NEW p \in Seq(FullTricks), NEW c \in Seq(Asking(s)),
           cards \subseteq Deal.hands[s], cards \ (CardsIn(p) \cup OnTheTable) = hands[s]
    PROVE  InPlay(Truth(s), b, <<DealMsg(roundMode, nextMove, cards)>> \o (p \o c))
<1> DEFINE m == DealMsg(roundMode, nextMove, cards)
           t == Truth(s)
<1>1. m \in Deals /\ m.cards = cards
  BY LetterDeal DEF GameKept, InStep, GameTypeOK, Deals, DealMsg
<1>2. Sound(t) /\ t.dealt = Deal.hands[s] /\ t.held = hands[s] /\ t.table = OnTheTable /\ t.asking = Asking(s)
  BY SoundNow DEF AllSound, Truth
<1> HIDE DEF m, t, Deals, Sound, InPlay, CardsIn, OnTheTable, Deal
<1>3. InPlay(t, b, <<m>> \o (p \o c))
  BY <1>1, <1>2, Arrived DEF Unheard
<1>4. QED
  BY <1>3 DEF m, t

\* What the sides are told when somebody comes.
ToldTo(side, t) ==
    LET c == IF Resumes THEN PromptNow(t) ELSE <<>>
    IN  IF lastDeal = <<>>
          THEN IF Starts THEN <<DealMsg(roundMode, nextMove, hands[t])>> \o (<<>> \o PromptNow(t)) ELSE <<>>
          ELSE IF t = side THEN <<DealMsg(roundMode, nextMove, lastDeal[t])>> \o (takenInRound \o c) ELSE c

\* That is what they are told.
LEMMA IntroIs ==
    ASSUME GameKept, Laid, NEW side \in Sides, NEW t \in Sides
    PROVE  /\ IntroPost(side)[t] = ToldTo(side, t)
           /\ IntroPost(side)[t] \in Seq(Letter) /\ IntroPost(side)[t] \in Seq(Peaceful)
           /\ PromptNow(t) \in Seq(Asking(t)) /\ takenInRound \in Seq(FullTricks)
           /\ lastDeal # <<>> => lastDeal = Deal.hands
           /\ hands[t] \in SUBSET Card /\ Deal.hands[t] \in SUBSET Card
<1> DEFINE prompt == PromptNow(t)
           story == takenInRound
           deal(h) == DealMsg(roundMode, nextMove, h)
           c == IF Resumes THEN prompt ELSE <<>>
<1>1. GameTypeOK /\ TricksFull
  BY DEF GameKept, InStep, RoundCards
<1>2. prompt \in Seq(Asking(t)) /\ Asking(t) \subseteq Peaceful /\ Peaceful \subseteq Letter
  BY <1>1, PromptAsksNow DEF Asking, Peaceful
<1>3. prompt \in Seq(Peaceful) /\ <<>> \in Seq(Peaceful) /\ c \in Seq(Peaceful)
  BY <1>2, Wider, Nothing
<1>4. story \in Seq(FullTricks) /\ FullTricks \subseteq Peaceful
  BY <1>1, LetterTaken DEF TricksFull, FullTricks, Peaceful, Messages
<1>5. story \in Seq(Peaceful)
  BY <1>4, Wider
<1>6. hands[t] \in SUBSET Card /\ Deal.hands[t] \in SUBSET Card
  BY <1>1, HandsOfDeal DEF GameTypeOK
<1>7. lastDeal # <<>> => lastDeal = Deal.hands
  BY DEF Laid
<1>8. ASSUME NEW h \in SUBSET Card
      PROVE  <<deal(h)>> \in Seq(Peaceful)
  <2>1. deal(h) \in Letter /\ deal(h).type = "DEAL"
    BY <1>1, LetterDeal DEF GameTypeOK, DealMsg
  <2>2. deal(h) \in Peaceful
    BY <2>1 DEF Peaceful
  <2>3. QED
    BY <2>2, Alone
<1>9. \A q \in Seq(Peaceful) : q \in Seq(Letter)
  BY <1>2, Wider
<1> HIDE DEF prompt, story, deal, Peaceful, Letter, FullTricks
<1>10. IntroPost(side)[t] =
         IF Starts THEN <<deal(hands[t])>> \o prompt
         ELSE (IF t = side /\ lastDeal # <<>> THEN <<deal(lastDeal[t])>> \o story ELSE <<>>) \o c
  BY DEF IntroPost, Story, prompt, story, deal
<1>11. ToldTo(side, t) =
         IF lastDeal = <<>>
           THEN IF Starts THEN <<deal(hands[t])>> \o (<<>> \o prompt) ELSE <<>>
           ELSE IF t = side THEN <<deal(lastDeal[t])>> \o (story \o c) ELSE c
  BY DEF ToldTo, prompt, story, deal
<1>12. CASE lastDeal = <<>> /\ Starts
  <2>1. <<deal(hands[t])>> \in Seq(Peaceful)
    BY <1>6, <1>8
  <2>2. <<deal(hands[t])>> \o prompt \in Seq(Peaceful)
    BY <1>3, <2>1, SameKind
  <2>3. <<>> \o prompt = prompt
    BY <1>3, Nothing
  <2>4. IntroPost(side)[t] = <<deal(hands[t])>> \o prompt /\ IntroPost(side)[t] = ToldTo(side, t)
    BY <1>10, <1>11, <1>12, <2>3
  <2>5. QED
    BY <1>2, <1>4, <1>6, <1>7, <1>9, <2>2, <2>4 DEF prompt, story
<1>13. CASE lastDeal = <<>> /\ ~Starts
  <2>1. c = <<>> /\ <<>> \o c = <<>>
    BY <1>3, <1>13, Nothing DEF Resumes
  <2>2. IntroPost(side)[t] = <<>> /\ IntroPost(side)[t] = ToldTo(side, t)
    BY <1>10, <1>11, <1>13, <2>1
  <2>3. QED
    BY <1>2, <1>3, <1>4, <1>6, <1>7, <1>9, <2>2 DEF prompt, story
<1>14. CASE lastDeal # <<>> /\ t = side
  <2>1. <<deal(lastDeal[t])>> \in Seq(Peaceful)
    BY <1>6, <1>7, <1>8, <1>14
  <2>2. (<<deal(lastDeal[t])>> \o story) \o c \in Seq(Peaceful)
    BY <1>3, <1>5, <2>1, SameKind
  <2>3. <<deal(lastDeal[t])>> \o (story \o c) = (<<deal(lastDeal[t])>> \o story) \o c
    BY <1>3, <1>5, <1>9, <2>1, Joined
  <2>4. ~Starts
    BY <1>14 DEF Starts
  <2>5. IntroPost(side)[t] = (<<deal(lastDeal[t])>> \o story) \o c /\ IntroPost(side)[t] = ToldTo(side, t)
    BY <1>10, <1>11, <1>14, <2>3, <2>4
  <2>6. QED
    BY <1>2, <1>4, <1>6, <1>7, <1>9, <2>2, <2>5 DEF prompt, story
<1>15. CASE lastDeal # <<>> /\ t # side
  <2>1. <<>> \o c = c
    BY <1>3, Nothing
  <2>2. ~Starts
    BY <1>15 DEF Starts
  <2>3. IntroPost(side)[t] = c /\ IntroPost(side)[t] = ToldTo(side, t)
    BY <1>10, <1>11, <1>15, <2>1, <2>2
  <2>4. QED
    BY <1>2, <1>3, <1>4, <1>6, <1>7, <1>9, <2>3 DEF prompt, story
<1>16. QED
  BY <1>12, <1>13, <1>14, <1>15

\* Somebody takes the free side.
LEMMA TakenSide ==
    ASSUME GameKept, TableKept, NEW w \in Clients, ~Seated(w), NEW side \in Sides, takeSide(side, w)
    PROVE  /\ Posted(activeSides', IntroPost(side)) /\ UNCHANGED gameVars /\ UNCHANGED <<nextIx, workers>>
           /\ roles' = [roles EXCEPT ![w] = "SERVING_ACTIVE"]
           /\ lastDeal' = (IF Starts THEN hands ELSE lastDeal) /\ hands # <<>>
           /\ activeSides' \in [Sides -> Workers \cup {NoWorker}] /\ workerToSide' \in [Workers -> Sides \cup {NoSide}]
           /\ playersConnected' \in Int
           /\ workerToSide'[w] = side /\ \A v \in Workers \ {w} : workerToSide'[v] = workerToSide[v]
           /\ Paired' /\ Laid'
<1>1. TableTypeOK /\ GameTypeOK /\ Laid /\ w \in Workers /\ playersConnected \in Int
  BY TableAssumption DEF TableKept, TableTypeOK, GameKept, InStep
<1>2. /\ activeSides[side] = NoWorker /\ activeSides' = [activeSides EXCEPT ![side] = w]
      /\ workerToSide' = [workerToSide EXCEPT ![w] = side] /\ playersConnected' = playersConnected + 1
      /\ roles' = [roles EXCEPT ![w] = "SERVING_ACTIVE"] /\ lastDeal' = (IF Starts THEN hands ELSE lastDeal)
      /\ UNCHANGED gameVars /\ UNCHANGED <<nextIx, workers>>
      /\ \E woken : deliver(ToWorkers(activeSides', IntroPost(side)), {}, woken)
  BY DEF takeSide, setRole
<1>3. Posted(activeSides', IntroPost(side))
  <2>1. lastDeal = <<>> \/ lastDeal \in [Sides -> SUBSET Card]
    BY <1>1, HandsOfDeal DEF Laid
  <2>2. IntroPost(side) \in [Sides -> Seq(Letter)]
    BY <1>1, <2>1, IntroPostType
  <2>3. QED
    BY <1>1, <1>2, <2>2, PostIs
<1>4. Laid'
  BY <1>1, ArrivalLays
<1>5. Paired'
  <2> SUFFICES ASSUME NEW v \in Workers, NEW s \in Sides
               PROVE  activeSides'[s] = v <=> workerToSide'[v] = s
    BY DEF Paired
  <2>1. \A x \in Workers, y \in Sides : activeSides[y] = x <=> workerToSide[x] = y
    BY DEF TableKept, Paired
  <2>2. NoSide \notin Sides /\ NoWorker \notin Workers
    BY RulesAssumption, MgrAssumption DEF NoSide, NoWorker, Sides, Workers
  <2>3. QED
    BY <1>1, <1>2, <2>1, <2>2 DEF TableTypeOK, Seated
<1>6. hands # <<>>
  BY <1>1, SomeHands DEF GameTypeOK
<1>7. QED
  BY <1>1, <1>2, <1>3, <1>4, <1>5, <1>6 DEF TableTypeOK

\* A client hears of it, whoever it is.
LEMMA IntroReaches ==
    ASSUME NEW side \in Sides, Posted(activeSides', IntroPost(side)), Paired', NEW v \in Clients,
           v \in workers, workerToSide'[v] \in Sides \cup {NoSide}
    PROVE  /\ ~Seated(v)' => jobs'[v] = jobs[v]
           /\ \A t \in Sides : workerToSide'[v] = t => jobs'[v] = jobs[v] \o IntroPost(side)[t]
<1>1. v \in Workers /\ NoSide \notin Sides
  BY TableAssumption, RulesAssumption DEF NoSide, Sides
<1>2. \A y \in Sides : activeSides'[y] = v <=> workerToSide'[v] = y
  BY <1>1 DEF Paired
<1>3. CASE ~Seated(v)'
  BY <1>1, <1>2, <1>3 DEF Seated, Posted
<1>4. ASSUME NEW t \in Sides, workerToSide'[v] = t
      PROVE  jobs'[v] = jobs[v] \o IntroPost(side)[t]
  <2>1. \A y \in Sides : activeSides'[y] = v <=> y = t
    BY <1>2, <1>4
  <2>2. QED
    BY <1>1, <2>1 DEF Posted
<1>5. QED
  BY <1>1, <1>3, <1>4 DEF Seated

\* The start of the game, for whoever is seated then.
LEMMA FirstDealt ==
    ASSUME GameKept, Laid, lastDeal = <<>>, Starts, NEW side \in Sides, NEW t \in Sides, NEW b, Unheard(b), b.up = <<>>
    PROVE  InPlay(Truth(t), b, <<>> \o IntroPost(side)[t])
<1>1. /\ IntroPost(side)[t] = ToldTo(side, t) /\ IntroPost(side)[t] \in Seq(Letter)
      /\ PromptNow(t) \in Seq(Asking(t)) /\ hands[t] \in SUBSET Card
  BY IntroIs
<1>2. IntroPost(side)[t] = <<DealMsg(roundMode, nextMove, hands[t])>> \o (<<>> \o PromptNow(t))
  BY <1>1 DEF ToldTo
<1>3. hands[t] \subseteq Deal.hands[t] /\ hands[t] \ (CardsIn(<<>>) \cup OnTheTable) = hands[t]
  <2>1. Sound(Truth(t))
    BY SoundNow DEF AllSound
  <2>2. hands[t] \cap OnTheTable = {} /\ hands[t] \subseteq Deal.hands[t]
    BY <2>1 DEF Sound, Truth
  <2>3. QED
    BY <2>2, CardsOfNone
<1>4. <<>> \in Seq(FullTricks)
  BY Nothing
<1>5. InPlay(Truth(t), b, <<DealMsg(roundMode, nextMove, hands[t])>> \o (<<>> \o PromptNow(t)))
  BY <1>1, <1>3, <1>4, ComesIn
<1>6. <<>> \o IntroPost(side)[t] = IntroPost(side)[t]
  BY <1>1, Nothing
<1>7. QED
  BY <1>2, <1>5, <1>6

\* A newcomer is told the story of the round.
LEMMA StoryTold ==
    ASSUME GameKept, Laid, lastDeal # <<>>, NEW side \in Sides, NEW b, Unheard(b), b.up = <<>>
    PROVE  InPlay(Truth(side), b, <<>> \o IntroPost(side)[side])
<1> DEFINE c == IF Resumes THEN PromptNow(side) ELSE <<>>
<1>1. /\ IntroPost(side)[side] = ToldTo(side, side) /\ IntroPost(side)[side] \in Seq(Letter)
      /\ PromptNow(side) \in Seq(Asking(side)) /\ lastDeal = Deal.hands /\ Deal.hands[side] \in SUBSET Card
      /\ takenInRound \in Seq(FullTricks)
  BY IntroIs
<1>2. c \in Seq(Asking(side))
  BY <1>1, Nothing
<1>3. IntroPost(side)[side] = <<DealMsg(roundMode, nextMove, lastDeal[side])>> \o (takenInRound \o c)
  BY <1>1 DEF ToldTo
<1>4. Deal.hands[side] \ (CardsIn(takenInRound) \cup OnTheTable) = hands[side]
  BY DEF GameKept, RoundCards
<1> HIDE DEF c
<1>5. InPlay(Truth(side), b, <<DealMsg(roundMode, nextMove, Deal.hands[side])>> \o (takenInRound \o c))
  BY <1>1, <1>2, <1>4, ComesIn
<1>6. <<>> \o IntroPost(side)[side] = IntroPost(side)[side]
  BY <1>1, Nothing
<1>7. QED
  BY <1>1, <1>3, <1>5, <1>6

\* What a player makes of it that has not heard of the round, or is in it.
LEMMA SeatedHear ==
    ASSUME GameKept, Laid, NEW side \in Sides, NEW t \in Sides, NEW b, NEW q \in Seq(Letter),
           IF lastDeal = <<>> \/ t = side THEN Unheard(b) /\ b.up = <<>> /\ q = <<>> ELSE AtTable(Truth(t), b, q)
    PROVE  IF lastDeal = <<>> /\ ~Starts THEN q \o IntroPost(side)[t] = <<>>
           ELSE AtTable(Truth(t), b, q \o IntroPost(side)[t])
<1>1. IntroPost(side)[t] = ToldTo(side, t) /\ PromptNow(t) \in Seq(Asking(t))
  BY IntroIs
<1>2. CASE lastDeal = <<>> /\ ~Starts
  <2>1. q = <<>> /\ IntroPost(side)[t] = <<>>
    BY <1>1, <1>2 DEF ToldTo
  <2>2. q \o <<>> = q
    BY Nothing
  <2>3. QED
    BY <1>2, <2>1, <2>2
<1>3. CASE lastDeal = <<>> /\ Starts
  <2>1. Unheard(b) /\ b.up = <<>> /\ q = <<>>
    BY <1>3
  <2>2. InPlay(Truth(t), b, <<>> \o IntroPost(side)[t])
    BY <1>3, <2>1, FirstDealt
  <2>3. QED
    BY <1>3, <2>1, <2>2 DEF AtTable
<1>4. CASE lastDeal # <<>> /\ t = side
  <2>1. Unheard(b) /\ b.up = <<>> /\ q = <<>>
    BY <1>4
  <2>2. InPlay(Truth(side), b, <<>> \o IntroPost(side)[side])
    BY <1>4, <2>1, StoryTold
  <2>3. QED
    BY <1>4, <2>1, <2>2 DEF AtTable
<1>5. CASE lastDeal # <<>> /\ t # side
  <2> DEFINE c == IF Resumes THEN PromptNow(t) ELSE <<>>
             truth == Truth(t)
  <2>1. c \in Seq(truth.asking) /\ Sound(truth) /\ AtTable(truth, b, q)
    <3>1. <<>> \in Seq(Asking(t))
      BY Nothing
    <3>2. QED
      BY <1>1, <1>5, <3>1, SoundNow DEF AllSound, Truth
  <2>2. IntroPost(side)[t] = c
    BY <1>1, <1>5 DEF ToldTo
  <2> HIDE DEF c, truth, Sound, AtTable
  <2>3. AtTable(truth, b, q \o c)
    BY <2>1, AskedAtTable
  <2>4. QED
    BY <1>5, <2>2, <2>3 DEF truth
<1>6. QED
  BY <1>2, <1>3, <1>4, <1>5

\* A client takes its side.
LEMMA ArriveKept ==
    ASSUME GameKept, TableKept, NEW w \in Clients, serve(w), Asks(w), takeSide(Seat[w], w)
    PROVE  TableKept'
<1> DEFINE side == Seat[w]
<1>1. /\ up' = [up EXCEPT ![w] = Tail(@)] /\ link[w] \in {"open", "left"}
      /\ UNCHANGED <<stage, waitingForCard, promptNo, handVars, running, exitFlag, link>>
  BY DEF serve
<1>2. /\ TableTypeOK /\ ClientsOK /\ ClientKept(w) /\ w \in Workers /\ side \in Sides /\ \A v \in Clients : v \in Workers
      /\ Laid /\ NoSide \notin Sides
  BY TableAssumption, RulesAssumption DEF TableKept, TableTypeOK, ClientsOK, NoSide, Sides
<1>3. ~Seated(w) /\ roles[w] = "SERVING_UNKNOWN" /\ up[w] = <<IamMsg(Seat[w])>>
  BY DEF Asks
<1>4. /\ ClientsOK' /\ (\A v \in Clients \ {w} : Same(v))
      /\ running'[w] = running[w] /\ up'[w] = <<>>
      /\ Unheard(Belief(w)) => Unheard(Belief(w)')
  BY <1>1, <1>2, <1>3, ReadIs
<1>5. /\ Posted(activeSides', IntroPost(side)) /\ UNCHANGED gameVars /\ UNCHANGED <<nextIx, workers>>
      /\ roles' = [roles EXCEPT ![w] = "SERVING_ACTIVE"]
      /\ lastDeal' = (IF Starts THEN hands ELSE lastDeal) /\ hands # <<>>
      /\ activeSides' \in [Sides -> Workers \cup {NoWorker}] /\ workerToSide' \in [Workers -> Sides \cup {NoSide}]
      /\ playersConnected' \in Int
      /\ workerToSide'[w] = side /\ \A v \in Workers \ {w} : workerToSide'[v] = workerToSide[v]
      /\ Paired' /\ Laid'
  BY <1>2, <1>3, TakenSide
<1> HIDE DEF side
<1>6. TableTypeOK' /\ ClientTypeOK'
  <2>1. jobs' \in [Workers -> Seq(Letter)]
    BY <1>5 DEF Posted
  <2>2. QED
    BY <1>1, <1>2, <1>4, <1>5, <2>1 DEF TableTypeOK, ClientsOK, Status
<1>7. ASSUME NEW v \in Clients, v \in workers, workerToSide'[v] \in Sides \cup {NoSide}
      PROVE  /\ ~Seated(v)' => jobs'[v] = jobs[v]
             /\ \A t \in Sides : workerToSide'[v] = t => jobs'[v] = jobs[v] \o IntroPost(side)[t]
  BY <1>2, <1>5, <1>7, IntroReaches
<1>8. lastDeal' = <<>> <=> lastDeal = <<>> /\ ~Starts
  BY <1>5 DEF Starts
<1>9. ASSUME NEW v \in Clients \ {w} PROVE ClientKept(v)'
  <2>1. /\ ClientKept(v) /\ v \in Workers /\ workerToSide'[v] = workerToSide[v] /\ roles'[v] = roles[v]
        /\ Belief(v)' = Belief(v) /\ running'[v] = running[v] /\ up'[v] = up[v] /\ link'[v] = link[v]
        /\ UNCHANGED <<nextIx, workers>> /\ jobs[v] \in Seq(Letter)
    BY <1>1, <1>2, <1>4, <1>5 DEF TableKept, TableTypeOK, Same
  <2>2. Connected(v)'
    BY <2>1 DEF ClientKept, Connected, Seated
  <2>3. Parted(v)'
    BY <1>5, <2>1, TruthStays DEF ClientKept, Parted
  <2>4. CASE ~Seated(v)
    <3>1. jobs'[v] = jobs[v]
      <4>1. v \in Workers /\ \A y \in Sides : activeSides'[y] # v
        BY <1>2, <1>5, <2>1, <2>4 DEF Paired, Seated
      <4>2. QED
        BY <1>5, <4>1 DEF Posted
    <3>2. Stranger(v)' /\ Peace(v)'
      BY <2>1, <3>1 DEF ClientKept, Stranger, Peace, Introduces, Seated
    <3>3. Follows(v)'
      BY <2>1, <2>4 DEF Follows, Seated
    <3>4. QED
      BY <2>2, <2>3, <3>2, <3>3 DEF ClientKept
  <2>5. CASE Seated(v)
    <3>1. PICK t \in Sides : workerToSide[v] = t
      BY <1>2, <2>1, <2>5 DEF TableTypeOK, Seated
    <3>2. v \in workers
      BY <2>1, <2>5 DEF ClientKept, Connected
    <3>3. jobs'[v] = jobs[v] \o IntroPost(side)[t]
      BY <1>7, <2>1, <3>1, <3>2
    <3>4. t # side
      BY <1>2, <1>5, <2>1, <3>1 DEF Paired
    <3>5. Stranger(v)'
      BY <2>1, <2>2, <2>5 DEF Stranger, Seated, Connected
    <3>6. Peace(v)'
      <4>1. IntroPost(side)[t] \in Seq(Peaceful)
        BY <1>2, IntroIs
      <4>2. QED
        BY <2>1, <3>3, <4>1, SameKind DEF ClientKept, Peace
    <3>7. Follows(v)'
      <4> SUFFICES ASSUME link[v] = "open"
                   PROVE  IF lastDeal' = <<>> THEN Unheard(Belief(v)) /\ up[v] = <<>> /\ jobs'[v] = <<>>
                          ELSE AtTable(Truth(t)', Belief(v), jobs'[v])
        BY <2>1, <3>1 DEF Follows
      <4>1. IF lastDeal = <<>> THEN Unheard(Belief(v)) /\ up[v] = <<>> /\ jobs[v] = <<>>
            ELSE AtTable(Truth(t), Belief(v), jobs[v])
        BY <2>1, <2>5, <3>1 DEF ClientKept, Follows
      <4>2. Belief(v).up = up[v] /\ Truth(t)' = Truth(t)
        BY <1>5, TruthStays DEF Belief
      <4> DEFINE b == Belief(v)
                 q == jobs[v]
      <4>3. IF lastDeal = <<>> \/ t = side THEN Unheard(b) /\ b.up = <<>> /\ q = <<>> ELSE AtTable(Truth(t), b, q)
        BY <3>4, <4>1, <4>2
      <4>4. q \in Seq(Letter)
        BY <2>1
      <4> HIDE DEF b, q
      <4>5. IF lastDeal = <<>> /\ ~Starts THEN q \o IntroPost(side)[t] = <<>>
            ELSE AtTable(Truth(t), b, q \o IntroPost(side)[t])
        BY <1>2, <4>3, <4>4, SeatedHear
      <4>6. QED
        BY <1>8, <3>3, <4>1, <4>2, <4>5 DEF b, q
    <3>8. QED
      BY <2>2, <2>3, <3>5, <3>6, <3>7 DEF ClientKept
  <2>6. QED
    BY <2>4, <2>5
<1>10. ClientKept(w)'
  <2>1. w \in workers /\ w < nextIx
    BY <1>1, <1>2 DEF ClientKept, Connected
  <2>2. jobs'[w] = jobs[w] \o IntroPost(side)[side] /\ jobs[w] \in Seq(Letter)
    BY <1>2, <1>5, <1>7, <2>1 DEF TableTypeOK
  <2>3. roles'[w] = "SERVING_ACTIVE" /\ Seated(w)' /\ link'[w] = link[w]
    BY <1>1, <1>2, <1>5 DEF TableTypeOK, Seated
  <2>4. Connected(w)' /\ Stranger(w)'
    BY <1>1, <1>2, <1>4, <1>5, <2>1, <2>3 DEF ClientKept, Connected, Stranger, Seated
  <2>5. Parted(w)'
    BY <1>4 DEF Parted, Sends, Belief
  <2>6. Peace(w)'
    <3>1. IntroPost(side)[side] \in Seq(Peaceful)
      BY <1>2, IntroIs
    <3>2. QED
      BY <1>2, <2>2, <3>1, SameKind DEF ClientKept, Peace
  <2>7. Follows(w)'
    <3> SUFFICES ASSUME link[w] = "open"
                 PROVE  IF lastDeal' = <<>> THEN Unheard(Belief(w)') /\ up'[w] = <<>> /\ jobs'[w] = <<>>
                        ELSE AtTable(Truth(side)', Belief(w)', jobs'[w])
      BY <1>1, <1>2, <1>5, <2>3 DEF Follows
    <3> DEFINE b == Belief(w)'
               q == jobs[w]
    <3>1. Unheard(Belief(w)) /\ q = <<>>
      BY <1>2, <1>3 DEF ClientKept, Stranger
    <3>2. Unheard(b) /\ b.up = <<>> /\ Truth(side)' = Truth(side)
      BY <1>4, <1>5, <3>1, TruthStays DEF Belief
    <3>3. q \in Seq(Letter)
      BY <2>2
    <3> HIDE DEF b, q
    <3>4. IF lastDeal = <<>> /\ ~Starts THEN q \o IntroPost(side)[side] = <<>>
          ELSE AtTable(Truth(side), b, q \o IntroPost(side)[side])
      BY <1>2, <3>1, <3>2, <3>3, SeatedHear
    <3>5. QED
      BY <1>4, <1>8, <2>2, <3>2, <3>4 DEF b, q
  <2>8. QED
    BY <2>4, <2>5, <2>6, <2>7 DEF ClientKept
<1>11. QED
  BY <1>5, <1>6, <1>9, <1>10 DEF TableKept

\* A message of a client is served.
LEMMA ServeKept ==
    ASSUME GameKept, GameKept', TableKept, NEW w \in Clients, serve(w)
    PROVE  TableKept'
<1>1. CASE Asks(w)
  BY <1>1, ArriveKept, BusyKept DEF Asks
<1>2. ASSUME NEW s \in Sides, NEW no \in 1 .. TricksPerRound, NEW card \in Card, Plays(w, s, no, card)
      PROVE  TableKept'
  <2>1. CASE acceptCard(card, w)
    BY ONLY GameKept, GameKept', TableKept, w \in Clients, serve(w), <1>2, <2>1, AcceptKept
  <2>2. CASE rejectCard(no, card, w)
    BY ONLY GameKept, TableKept, w \in Clients, serve(w), <1>2, <2>2, RejectKept
  <2>3. QED
    BY <1>2, <2>1, <2>2 DEF Plays
<1>3. QED
  BY <1>1, <1>2, ServedIs

\* Nothing happens.
LEMMA StandStillKept ==
    ASSUME TableKept, UNCHANGED allVars
    PROVE  TableKept'
<1>1. /\ UNCHANGED <<jobs, roles, activeSides, workerToSide, playersConnected, nextIx, workers, lastDeal, link>>
      /\ UNCHANGED gameVars /\ UNCHANGED playerVars
  BY DEF allVars, serverVars, seatVars, mgrVars, tableVars, queueVars
<1>2. TableTypeOK /\ ClientsOK /\ nextIx \in Nat
  BY DEF TableKept, TableTypeOK, ClientsOK
<1>3. ClientsOK' /\ \A v \in Clients : Same(v)
  BY <1>1, <1>2, ClientsStay
<1>4. TableTypeOK' /\ Paired' /\ Laid'
  <2>1. TableTypeOK'
    BY <1>1, <1>2, <1>3 DEF TableTypeOK, ClientsOK
  <2>2. Paired'
    BY <1>1 DEF TableKept, Paired
  <2>3. Incomplete => Incomplete'
    BY <1>1 DEF Incomplete
  <2>4. QED
    BY <1>1, <2>1, <2>2, <2>3, LaidStays DEF TableKept
<1>5. ASSUME NEW v \in Clients PROVE ClientKept(v)'
  <2>1. Alike(v)
    BY <1>1, <1>2, <1>3 DEF Alike, Same
  <2>2. QED
    BY <1>1, <1>2, <2>1, AlikeKept DEF TableKept
<1>6. QED
  BY <1>3, <1>4, <1>5 DEF TableKept, ClientsOK

\* Every step at the table keeps it.
LEMMA TableKeptNext == GameKept /\ GameKept' /\ TableKept /\ [TableNext]_allVars => TableKept'
<1> SUFFICES ASSUME GameKept, GameKept', TableKept, [TableNext]_allVars
             PROVE  TableKept'
  OBVIOUS
<1>1. ASSUME NEW w \in Clients, notice(w) \/ close(w)
      PROVE  TableKept'
  <2>1. PICK quit \in BOOLEAN : grandExitCallback(w, FALSE, FALSE, quit)
    BY <1>1 DEF notice, close
  <2>2. /\ link[w] \in {"open", "left"} /\ (link[w] = "open" => jobs[w] = <<>>)
        /\ setLink(w, "shut") /\ UNCHANGED playerVars
    BY <1>1 DEF notice, close
  <2>3. QED
    BY <2>1, <2>2, ExitKept
<1>2. ASSUME NEW w \in Clients,
             \/ connect(w) \/ serve(w) \/ deliverNext(w) \/ type(w) \/ askAgain(w)
             \/ breakDown(w) \/ endOfFile(w)
      PROVE  TableKept'
  BY <1>2, ConnectKept, ServeKept, DeliverKept, TypeKept, AskAgainKept, BreakDownKept, EndOfFileKept
<1>3. CASE UNCHANGED allVars
  BY <1>3, StandStillKept
<1>4. QED
  BY <1>1, <1>2, <1>3 DEF TableNext

\* It holds before anybody has connected.
LEMMA TableKeptInit == TableInit => TableKept
<1> SUFFICES ASSUME TableInit
             PROVE  TableKept
  OBVIOUS
<1>1. /\ activeSides = [s \in Sides |-> NoWorker] /\ workerToSide = [w \in Workers |-> NoSide]
      /\ playersConnected = 0 /\ lastDeal = <<>> /\ nextIx = 1
      /\ roles = [w \in Workers |-> IF w = Proxy THEN "SERVING_PROXY" ELSE "none"]
      /\ jobs = [w \in Workers |-> <<>>] /\ link = [w \in Clients |-> "none"]
      /\ roundNumber = 0 /\ hands = Scenario[1].hands /\ takenInRound = <<>>
  BY DEF TableInit, ServerInit, MgrInit, GameInit
<1>2. /\ up = [w \in Clients |-> <<>>] /\ lastCards = [w \in Clients |-> <<>>]
      /\ stage = [w \in Clients |-> "PRE"] /\ waitingForCard = [w \in Clients |-> FALSE]
      /\ running = [w \in Clients |-> FALSE]
  BY DEF TableInit, ClientInit
<1>3. NoSide \notin Sides /\ NoWorker \notin Workers /\ 0 < NSides /\ NSides \in Nat
  BY RulesAssumption, MgrAssumption DEF NoSide, NoWorker, Sides, Workers
<1>4. \A w \in Clients : w \in Workers /\ w # Proxy
  BY TableAssumption
<1>5. <<>> \in Seq(Letter) /\ <<>> \in Seq(Card) /\ <<>> \in Seq(Peaceful)
  BY Nothing
<1> HIDE DEF Letter
<1>6. TableTypeOK
  BY <1>1, <1>2, <1>5 DEF TableTypeOK, Status
<1>7. Paired /\ Laid
  BY <1>1, <1>3 DEF Paired, Laid, Incomplete
<1>8. ClientTypeOK
  <2>1. \A w \in Clients : DOMAIN lastCards[w] = {}
    BY <1>2
  <2>2. 1 \in 1 .. TricksPerRound /\ 0 \in 0 .. TricksPerRound + 1
    BY RulesAssumption
  <2>3. QED
    BY <2>1, <2>2 DEF TableInit, ClientInit, ClientTypeOK, Stages
<1>9. ASSUME NEW w \in Clients PROVE ClientKept(w)
  <2>1. ~Seated(w) /\ link[w] = "none" /\ up[w] = <<>> /\ jobs[w] = <<>> /\ roles[w] = "none" /\ running[w] = FALSE
    BY <1>1, <1>2, <1>4 DEF Seated
  <2>2. Unheard(Belief(w))
    BY <1>2 DEF Unheard, Belief
  <2>3. QED
    BY <1>5, <2>1, <2>2 DEF ClientKept, Connected, Stranger, Parted, Peace, Follows
<1>10. QED
  BY <1>6, <1>7, <1>8, <1>9 DEF TableKept

-----------------------------------------------------------------------------
(* What the clients may rely on.                                           *)

\* The clients play a game, so what holds in every game holds at the table.
LEMMA GameIsKept == TableSpec => []GameKept
<1>1. InStep /\ RoundKept /\ TricksFull => GameKept
  BY RoundCardsHold DEF GameKept
<1>2. QED
  BY <1>1, TablePlaysGame, StaysInStep, RoundsKept, TricksStayFull, PTL

\* What relates the clients to the server holds throughout.
LEMMA TableIsKept == TableSpec => [](GameKept /\ TableKept)
<1>1. QED
  BY TableKeptInit, TableKeptNext, GameIsKept, PTL DEF TableSpec

\* A client's own record stays well typed: the numbers of the tricks it is
\* told of are read into one character, and none is ever out of range.
THEOREM TableKeepsTypes == TableSpec => []ClientTypeOK
<1>1. TableKept => ClientTypeOK
  BY DEF TableKept
<1>2. QED
  BY <1>1, TableIsKept, PTL

\* A player's hand, which it keeps by guesses from the order of messages, is
\* the server's hand whenever nothing is on its way, whatever it has missed,
\* been told twice or been refused: that of an automatic player always, that
\* of a person until a card is typed while the fate of another is unknown.
THEOREM PlayersKeepHands == TableSpec => []HandKept
<1>1. GameKept /\ TableKept => HandKept
  <2> SUFFICES ASSUME GameKept, TableKept, NEW w \in Clients, Playing(w), Quiet(w), ~hurried[w]
               PROVE  localHand[w] \ OnTheTable = hands[workerToSide[w]]
    BY DEF HandKept
  <2>1. PICK s \in Sides : workerToSide[w] = s
    BY TableAssumption DEF Playing, TableKept, TableTypeOK
  <2>2. InPlay(Truth(s), Belief(w), jobs[w])
    <3>1. AtTable(Truth(s), Belief(w), jobs[w])
      BY <2>1 DEF TableKept, ClientKept, Follows, Playing, Quiet, Seated
    <3>2. ~Adrift(Belief(w), jobs[w])
      BY DEF Adrift, Belief
    <3>3. QED
      BY <3>1, <3>2 DEF AtTable
  <2>3. Sound(Truth(s))
    BY SoundNow DEF AllSound
  <2>4. jobs[w] = <<>> /\ Belief(w).up = <<>>
    BY DEF Quiet, Belief
  <2>5. Belief(w).hand \ Truth(s).table = Truth(s).held
    <3> HIDE DEF InPlay, Sound
    <3>1. QED
      BY <2>2, <2>3, <2>4, NothingOnItsWay
  <2>6. QED
    BY <2>1, <2>5 DEF Belief, Truth
<1>2. QED
  BY <1>1, TableIsKept, PTL

\* The server never refuses the card of an automatic player, although the
\* player may be asked twice for it and chooses it from a hand of its own.
THEOREM AutomaticNeverWrong == TableSpec => []NeverWrong
<1>1. TableKept => NeverWrong
  <2> SUFFICES ASSUME TableKept, NEW w \in Automatic, NEW i \in DOMAIN jobs[w]
               PROVE  jobs[w][i].type # "WRONG"
    BY DEF NeverWrong
  <2>1. jobs[w] \in Seq(Peaceful)
    BY DEF TableKept, ClientKept, Peace, Automatic
  <2>2. jobs[w][i] \in Peaceful
    <3> HIDE DEF Peaceful
    <3>1. QED
      BY <2>1
  <2>3. QED
    BY <2>2 DEF Peaceful
<1>2. QED
  BY <1>1, TableIsKept, PTL

\* It is never asked for a card when it has none, where Strategy::nextMove
\* would take the front of an empty list.
THEOREM AutomaticHasCards == TableSpec => []AskedWithCards
<1>1. GameKept /\ TableKept => AskedWithCards
  <2> SUFFICES ASSUME GameKept, TableKept, NEW w \in Automatic, running[w], jobs[w] # <<>>,
                      Head(jobs[w]).type = "TRICK", Readable(Head(jobs[w])), ~Repeated(w, Head(jobs[w]).trickNo)
               PROVE  localHand[w] # {}
    BY DEF AskedWithCards
  <2>1. w \in Clients /\ w \in Workers
    BY TableAssumption DEF Automatic
  <2>2. ClientKept(w) /\ TableTypeOK
    BY <2>1 DEF TableKept
  <2>3. link[w] = "open"
    BY <2>1, <2>2 DEF TableTypeOK, ClientKept, Connected, Stranger
  <2>4. Seated(w)
    <3> SUFFICES ASSUME ~Seated(w)
                 PROVE  FALSE
      OBVIOUS
    <3>1. jobs[w] \in Seq(Refusals)
      BY <2>2, <2>3 DEF ClientKept, Stranger
    <3>2. Head(jobs[w]) \in Refusals
      BY <3>1, FirstOf
    <3>3. QED
      BY <3>2 DEF Refusals
  <2>5. PICK s \in Sides : workerToSide[w] = s
    BY <2>1, <2>2, <2>4 DEF TableTypeOK, Seated
  <2>6. InPlay(Truth(s), Belief(w), jobs[w])
    <3>1. AtTable(Truth(s), Belief(w), jobs[w])
      BY <2>2, <2>3, <2>4, <2>5 DEF ClientKept, Follows
    <3>2. ~Adrift(Belief(w), jobs[w])
      BY DEF Adrift, Rushes, Belief
    <3>3. QED
      BY <3>1, <3>2 DEF AtTable
  <2>7. Sound(Truth(s))
    BY SoundNow DEF AllSound
  <2>8. /\ Belief(w).kind = "automatic" /\ Belief(w).next = nextTrick[w]
        /\ Head(jobs[w]).trickNo <= TricksPerRound
    BY DEF Belief, Readable
  <2>9. ~(Head(jobs[w]).trickNo < Belief(w).next)
    BY <2>8 DEF Repeated
  <2>10. Belief(w).hand # {}
    <3> HIDE DEF InPlay, Sound
    <3>1. QED
      BY <2>6, <2>7, <2>8, <2>9, AskedHolds
  <2>11. QED
    BY <2>10 DEF Belief
<1>2. QED
  BY <1>1, TableIsKept, PTL

-----------------------------------------------------------------------------
(* How it ends.                                                            *)

\* Messages that a running game sends to a player,
Plain == {m \in Letter : m.type # "BUSY" /\ (m.type \in {"TRICK", "WRONG"} => m.trickNo <= TricksPerRound)}

\* prompts and refusals of a game that is over, and what tells its result.
Late == {m \in Letter : m.type \in {"TRICK", "WRONG"} /\ m.trickNo > TricksPerRound}
Totals == {m \in Letter : m.type = "TOTAL"}
Replay == FullTricks \cup Late

\* A player in this stage has heard or will hear the totals, or came too late
\* for them.
ToldAll(st, q) ==
    \/ \E a \in Seq(Plain), m \in Totals, r \in Seq(Late) : q = a \o (<<m>> \o r)
    \/ st = "AFTER_TOTAL" /\ q \in Seq(Late)
    \/ st = "AFTER_FIRST_DEAL" /\ q \in Seq(Replay)
    \/ st = "PRE" /\ \E m \in Deals, r \in Seq(Replay) : q = <<m>> \o r

ToldSoFar(over, st, q) == IF over THEN ToldAll(st, q) ELSE q \in Seq(Plain)

\* What a client still has to hear when its connection ends.
Ending(w) ==
    /\ killFlag[w] => GameOver
    /\ link[w] = "open" /\ Seated(w) => ToldSoFar(GameOver, stage[w], jobs[w])
    /\ link[w] = "shut" /\ running[w] =>
         stage[w] = "PRE" \/ (GameOver /\ stage[w] \in {"AFTER_TOTAL", "AFTER_FIRST_DEAL"})

\* What a client that has ended has heard.
Ended(w) ==
    link[w] # "none" /\ ~running[w] =>
        /\ exitFlag[w] = 0 => GameOver /\ stage[w] = "AFTER_TOTAL"
        /\ \/ w \in Frail
           \/ stage[w] = "PRE" /\ exitFlag[w] = 1
           \/ GameOver /\ (stage[w] = "AFTER_TOTAL" \/ Latecomer(w))

EndKept == \A w \in Clients : Ending(w) /\ Ended(w)

\* When the game is over there are no cards and no tricks, and never before.
LEMMA OverIs ==
    ASSUME InStep
    PROVE  /\ GameOver <=> trickNo > TricksPerRound
           /\ GameOver => \A s \in Sides : hands[s] = {}
<1>1. trickNo \in 1 .. TricksPerRound + 1 /\ TricksPerRound \in Nat /\ (GameOver <=> trickNo = TricksPerRound + 1)
  BY RulesAssumption DEF InStep, CountersAgree, GameTypeOK
<1>2. GameOver <=> trickNo > TricksPerRound
  BY <1>1
<1>3. ASSUME GameOver, NEW s \in Sides PROVE hands[s] = {}
  <2>1. IsFiniteSet(hands[s]) /\ Cardinality(hands[s]) \in {0, -1}
    BY <1>1, <1>3 DEF InStep, HandsInStep
  <2>2. Cardinality(hands[s]) \in Nat
    BY <2>1, FS_CardinalityType
  <2>3. Cardinality(hands[s]) = 0
    BY ONLY <2>1, <2>2
  <2>4. QED
    BY <2>1, <2>3, FS_EmptySet
<1>4. QED
  BY <1>2, <1>3

\* A client that is left alone ends as before, if it is told what it must be.
LEMMA EndsAlike ==
    ASSUME NEW w \in Clients, Ending(w), Ended(w), GameOver => GameOver', killFlag'[w] => killFlag[w] \/ GameOver',
           link'[w] = link[w], stage'[w] = stage[w], running'[w] = running[w], exitFlag'[w] = exitFlag[w],
           link[w] = "open" /\ Seated(w)' => ToldSoFar(GameOver', stage[w], jobs'[w])
    PROVE  Ending(w)' /\ Ended(w)'
<1>1. Ending(w)'
  BY DEF Ending
<1>2. Ended(w)'
  BY DEF Ended, Latecomer
<1>3. QED
  BY <1>1, <1>2

\* What comes late changes nothing.
LEMMA LateMore ==
    ASSUME NEW st, NEW q, ToldAll(st, q), NEW c \in Seq(Late)
    PROVE  ToldAll(st, q \o c)
<1>1. CASE \E a \in Seq(Plain), m \in Totals, r \in Seq(Late) : q = a \o (<<m>> \o r)
  <2>1. PICK a \in Seq(Plain), m \in Totals, r \in Seq(Late) : q = a \o (<<m>> \o r)
    BY <1>1
  <2>2. a \in Seq(Letter) /\ m \in Letter /\ r \in Seq(Letter) /\ c \in Seq(Letter)
    <3>1. Plain \subseteq Letter /\ Totals \subseteq Letter /\ Late \subseteq Letter
      BY DEF Plain, Totals, Late
    <3> HIDE DEF Letter, Plain, Totals, Late
    <3>2. QED
      BY <2>1, <3>1, Wider
  <2>3. r \o c \in Seq(Late)
    BY SameKind
  <2> HIDE DEF Letter, Plain, Totals, Late
  <2>4. q \o c = a \o (<<m>> \o (r \o c))
    BY <2>1, <2>2, Behind, SMTT(30)
  <2>5. QED
    BY <2>3, <2>4 DEF ToldAll
<1>2. CASE st = "AFTER_TOTAL" /\ q \in Seq(Late)
  BY <1>2, SameKind DEF ToldAll
<1>3. Late \subseteq Replay /\ c \in Seq(Replay) /\ Replay \subseteq Letter
  <2>1. Late \subseteq Replay /\ Replay \subseteq Letter
    BY LetterTaken DEF Replay, Late, FullTricks
  <2>2. QED
    BY <2>1, Wider
<1>4. CASE st = "AFTER_FIRST_DEAL" /\ q \in Seq(Replay)
  BY <1>3, <1>4, SameKind DEF ToldAll
<1>5. CASE st = "PRE" /\ \E m \in Deals, r \in Seq(Replay) : q = <<m>> \o r
  <2>1. PICK m \in Deals, r \in Seq(Replay) : q = <<m>> \o r
    BY <1>5
  <2>2. <<m>> \in Seq(Letter) /\ r \in Seq(Letter) /\ c \in Seq(Letter)
    <3>1. m \in Letter
      BY DEF Deals
    <3>2. QED
      BY <1>3, <3>1, Alone, Wider
  <2>3. r \o c \in Seq(Replay)
    BY <1>3, SameKind
  <2> HIDE DEF Letter, Replay
  <2>4. q \o c = <<m>> \o (r \o c)
    BY <2>1, <2>2, Joined
  <2>5. QED
    BY <1>5, <2>3, <2>4 DEF ToldAll
<1>6. QED
  BY <1>1, <1>2, <1>4, <1>5 DEF ToldAll

\* The other clients are left alone.
Apart(w) ==
    \A v \in Clients \ {w} : stage'[v] = stage[v] /\ running'[v] = running[v] /\ exitFlag'[v] = exitFlag[v]

\* A client hears a message of a running game.
LEMMA HearsWell ==
    ASSUME ClientsOK, NEW w \in Clients, NEW m \in Plain, hear(w, m)
    PROVE  /\ Apart(w) /\ running'[w] = running[w] /\ exitFlag'[w] = exitFlag[w]
           /\ m \in Totals => stage'[w] = "AFTER_TOTAL"
           /\ m \in Deals /\ stage[w] = "PRE" => stage'[w] = "AFTER_FIRST_DEAL"
           /\ m \in FullTricks => stage'[w] = stage[w]
<1>1. Readable(m) /\ m.type # "BUSY"
  BY DEF Plain, Readable
<1>2. /\ UNCHANGED <<running, exitFlag>>
      /\ \/ m.type = "TRICK" /\ stage' = [stage EXCEPT ![w] = "AFTER_TRICK"]
         \/ m.type \in {"WRONG", "TAKEN"} /\ UNCHANGED stage
         \/ m.type = "DEAL" /\ stage' = [stage EXCEPT ![w] = IF stage[w] = "PRE" THEN "AFTER_FIRST_DEAL" ELSE "AFTER_DEAL"]
         \/ /\ m.type \in {"SCORE", "TOTAL"}
            /\ stage' = [stage EXCEPT ![w] = IF m.type = "SCORE" THEN "AFTER_SCORE" ELSE "AFTER_TOTAL"]
  BY <1>1 DEF hear, unreadableMsg, trickMsg, wrongMsg, dealMsg, takenMsg, scoreMsg, busyMsg, enter
<1>3. stage \in [Clients -> Stages]
  BY DEF ClientsOK, ClientTypeOK
<1>4. m \in FullTricks => m.type = "TAKEN"
  BY DEF FullTricks, Messages
<1>5. (m \in Totals => m.type = "TOTAL") /\ (m \in Deals => m.type = "DEAL")
  BY DEF Totals, Deals
<1>6. QED
  BY <1>2, <1>3, <1>4, <1>5 DEF Apart

\* A client breaks down or ends.
LEMMA EndsNow ==
    ASSUME ClientsOK, NEW w \in Clients, NEW code \in {0, 1}, finish(w, code)
    PROVE  Apart(w) /\ running'[w] = FALSE /\ exitFlag'[w] = code /\ stage'[w] = stage[w]
BY DEF ClientsOK, ClientTypeOK, finish, Apart

\* It cannot read what a game that is over asks or refuses.
LEMMA LateBreaks ==
    ASSUME ClientsOK, NEW w \in Clients, NEW m \in Late, hear(w, m)
    PROVE  Apart(w) /\ running'[w] = FALSE /\ exitFlag'[w] = 1 /\ stage'[w] = stage[w]
<1>1. m.type \in {"TRICK", "WRONG"} /\ ~(m.trickNo <= TricksPerRound)
  <2>1. m \in Letter /\ m.type \in {"TRICK", "WRONG"} /\ m.trickNo > TricksPerRound
    BY DEF Late
  <2>2. m.trickNo \in 1 .. TricksPerRound + 1
    BY <2>1 DEF Letter, Messages
  <2>3. QED
    BY <2>1, <2>2, RulesAssumption
<1>2. finish(w, 1)
  BY <1>1 DEF hear, unreadableMsg, crash, Readable, dealMsg, takenMsg, scoreMsg, busyMsg
<1>3. QED
  BY <1>2, EndsNow

\* What a client makes of its next message.
Learns(w, over, st, q) ==
    /\ Apart(w)
    /\ \/ running'[w] = running[w] /\ exitFlag'[w] = exitFlag[w] /\ ToldSoFar(over, stage'[w], Tail(q))
       \/ /\ over /\ running'[w] = FALSE /\ exitFlag'[w] = 1 /\ stage'[w] = st
          /\ st \in {"AFTER_TOTAL", "AFTER_FIRST_DEAL"}

\* It stays informed, or cannot go on after the end.
LEMMA HearsEnd ==
    ASSUME ClientsOK, NEW w \in Clients, NEW over, NEW q, q # <<>>, ToldSoFar(over, stage[w], q), hear(w, Head(q))
    PROVE  Learns(w, over, stage[w], q)
<1> DEFINE m == Head(q)
<1>1. hear(w, m)
  OBVIOUS
<1>2. Totals \subseteq Plain /\ Deals \subseteq Plain /\ FullTricks \subseteq Plain
  BY LetterTaken DEF Totals, Deals, FullTricks, Plain, Messages
<1>3. CASE ~over
  <2>1. q \in Seq(Plain)
    BY <1>3 DEF ToldSoFar
  <2>2. m \in Plain /\ Tail(q) \in Seq(Plain)
    <3> HIDE DEF Plain
    <3>1. QED
      BY <2>1, FirstOf
  <2> HIDE DEF m
  <2>3. QED
    BY <1>1, <1>3, <2>2, HearsWell DEF Learns, ToldSoFar
<1>4. ASSUME over, NEW a \in Seq(Plain), NEW x \in Totals, NEW r \in Seq(Late), q = a \o (<<x>> \o r)
      PROVE  Learns(w, over, stage[w], q)
  <2>1. /\ a \in Seq(Letter) /\ x \in Letter /\ r \in Seq(Letter)
        /\ <<x>> \o r \in Seq(Letter) /\ <<x>> \o r # <<>> /\ Head(<<x>> \o r) = x /\ Tail(<<x>> \o r) = r
    <3>1. a \in Seq(Letter) /\ x \in Letter /\ r \in Seq(Letter)
      BY Wider DEF Plain, Totals, Late
    <3>2. QED
      BY <3>1, FirstIs
  <2>2. CASE a = <<>>
    <3>1. q = <<x>> \o r
      BY <1>4, <2>1, <2>2, Nothing
    <3>2. m = x /\ Tail(q) = r
      BY <2>1, <3>1
    <3>3. stage'[w] = "AFTER_TOTAL" /\ Apart(w) /\ running'[w] = running[w] /\ exitFlag'[w] = exitFlag[w]
      BY <1>1, <1>2, <3>2, HearsWell
    <3>4. QED
      BY <1>4, <3>2, <3>3 DEF Learns, ToldSoFar, ToldAll
  <2>3. CASE a # <<>>
    <3>1. m \in Plain /\ Tail(a) \in Seq(Plain) /\ Tail(q) = Tail(a) \o (<<x>> \o r)
      <4>1. Plain \in SUBSET Letter
        BY DEF Plain
      <4> HIDE DEF Plain, Letter
      <4>2. a \in Seq(Plain) /\ <<x>> \o r \in Seq(Letter)
        BY <1>4, <2>1
      <4> DEFINE rest == <<x>> \o r
      <4>3. q = a \o rest /\ rest \in Seq(Letter)
        BY <1>4, <4>2
      <4> HIDE DEF rest
      <4>4. m = Head(a) /\ Tail(q) = Tail(a) \o rest /\ Head(a) \in Plain /\ Tail(a) \in Seq(Plain)
        BY <2>3, <4>1, <4>2, <4>3, FirstPart
      <4>5. QED
        BY <4>4 DEF rest
    <3>2. Apart(w) /\ running'[w] = running[w] /\ exitFlag'[w] = exitFlag[w]
      BY <1>1, <3>1, HearsWell
    <3>3. QED
      BY <1>4, <3>1, <3>2 DEF Learns, ToldSoFar, ToldAll
  <2>4. QED
    BY <2>2, <2>3
<1>5. ASSUME over, stage[w] = "AFTER_TOTAL", q \in Seq(Late)
      PROVE  Learns(w, over, stage[w], q)
  <2>1. m \in Late
    <3> HIDE DEF Late
    <3>1. QED
      BY <1>5, FirstOf
  <2>2. QED
    BY <1>1, <1>5, <2>1, LateBreaks DEF Learns
<1>6. ASSUME over, stage[w] = "AFTER_FIRST_DEAL", q \in Seq(Replay)
      PROVE  Learns(w, over, stage[w], q)
  <2>1. m \in Replay /\ Tail(q) \in Seq(Replay)
    <3> HIDE DEF Replay
    <3>1. QED
      BY <1>6, FirstOf
  <2>2. CASE m \in Late
    BY <1>1, <1>6, <2>2, LateBreaks DEF Learns
  <2>3. CASE m \in FullTricks
    <3>1. Apart(w) /\ running'[w] = running[w] /\ exitFlag'[w] = exitFlag[w] /\ stage'[w] = "AFTER_FIRST_DEAL"
      BY <1>1, <1>2, <1>6, <2>3, HearsWell
    <3>2. QED
      BY <1>6, <2>1, <3>1 DEF Learns, ToldSoFar, ToldAll
  <2>4. QED
    BY <2>1, <2>2, <2>3 DEF Replay
<1>7. ASSUME over, stage[w] = "PRE", NEW x \in Deals, NEW r \in Seq(Replay), q = <<x>> \o r
      PROVE  Learns(w, over, stage[w], q)
  <2>1. m = x /\ Tail(q) = r
    <3>1. Replay \subseteq Letter /\ x \in Letter
      BY LetterTaken DEF Replay, Late, FullTricks, Deals
    <3>2. r \in Seq(Letter)
      BY <3>1, Wider
    <3> HIDE DEF Letter
    <3>3. QED
      BY <1>7, <3>1, <3>2, FirstIs
  <2>2. Apart(w) /\ running'[w] = running[w] /\ exitFlag'[w] = exitFlag[w] /\ stage'[w] = "AFTER_FIRST_DEAL"
    BY <1>1, <1>2, <1>7, <2>1, HearsWell
  <2>3. QED
    BY <1>7, <2>1, <2>2, Zenon DEF Learns, ToldSoFar, ToldAll
<1>8. CASE over
  <2>1. ToldAll(stage[w], q)
    BY <1>8 DEF ToldSoFar
  <2>2. QED
    BY <1>4, <1>5, <1>6, <1>7, <1>8, <2>1 DEF ToldAll
<1>9. QED
  BY <1>3, <1>8

\* A client that nothing happens to.
LEMMA EndsStill ==
    ASSUME NEW v \in Clients, Ending(v), Ended(v), UNCHANGED gameVars, workerToSide'[v] = workerToSide[v],
           jobs'[v] = jobs[v], killFlag'[v] = killFlag[v], link'[v] = link[v],
           stage'[v] = stage[v], running'[v] = running[v], exitFlag'[v] = exitFlag[v]
    PROVE  Ending(v)' /\ Ended(v)'
<1>1. GameOver' = GameOver
  BY DEF gameVars, GameOver
<1>2. link[v] = "open" /\ Seated(v)' => ToldSoFar(GameOver', stage[v], jobs'[v])
  BY <1>1 DEF Ending, Seated
<1>3. QED
  BY <1>1, <1>2, EndsAlike

\* Nothing is left to hear.
LEMMA ToldNothing ==
    ASSUME NEW st, ToldAll(st, <<>>)
    PROVE  st \in {"AFTER_TOTAL", "AFTER_FIRST_DEAL"}
<1>1. ASSUME NEW a \in Seq(Plain), NEW m \in Totals, NEW r \in Seq(Late), <<>> = a \o (<<m>> \o r)
      PROVE  FALSE
  <2>1. a \in Seq(Letter) /\ m \in Letter /\ r \in Seq(Letter)
    BY Wider DEF Plain, Totals, Late
  <2>2. QED
    BY <1>1, <2>1, SomethingComes
<1>2. ASSUME NEW m \in Deals, NEW r \in Seq(Replay), <<>> = <<m>> \o r
      PROVE  FALSE
  <2>1. Replay \subseteq Letter /\ m \in Letter
    BY LetterTaken DEF Replay, Late, FullTricks, Deals
  <2>2. r \in Seq(Letter)
    BY <2>1, Wider
  <2> HIDE DEF Letter
  <2>3. QED
    BY <1>2, <2>1, <2>2, FirstIs
<1>3. QED
  BY <1>1, <1>2 DEF ToldAll

\* A person types a card.
LEMMA TypeEnds ==
    ASSUME TableKept, EndKept, NEW w \in Clients, type(w)
    PROVE  EndKept'
<1>1. UNCHANGED <<gameVars, serverVars, mgrVars, link, stage, running, exitFlag>>
  BY DEF type, typeOneOf, typeCard
<1>2. UNCHANGED <<workerToSide, jobs, killFlag>>
  BY <1>1 DEF serverVars, seatVars, mgrVars, queueVars
<1>3. QED
  BY <1>1, <1>2, EndsStill DEF EndKept

\* A client connects.
LEMMA ConnectEnds ==
    ASSUME TableKept, EndKept, NEW w \in Clients, connect(w)
    PROVE  EndKept'
<1>1. TableTypeOK /\ ClientsOK /\ ClientKept(w) /\ Ending(w)
  BY DEF TableKept, TableTypeOK, ClientsOK, EndKept
<1>2. /\ link' = [link EXCEPT ![w] = "open"] /\ running' = [running EXCEPT ![w] = TRUE] /\ w = nextIx
      /\ UNCHANGED <<gameVars, workerToSide, jobs, killFlag, stage, exitFlag>>
  BY DEF connect, forwardConnection, introduce, setLink, serverVars, seatVars, queueVars
<1>3. ASSUME NEW v \in Clients \ {w} PROVE Ending(v)' /\ Ended(v)'
  <2>1. link'[v] = link[v] /\ running'[v] = running[v]
    BY <1>1, <1>2 DEF TableTypeOK, ClientsOK, ClientTypeOK
  <2>2. QED
    BY <1>2, <2>1, EndsStill DEF EndKept
<1>4. Ending(w)' /\ Ended(w)'
  <2>1. link[w] = "none"
    BY <1>1, <1>2 DEF ClientKept, Connected, TableTypeOK
  <2>2. ~Seated(w)
    BY <1>1, <2>1 DEF ClientKept, Connected
  <2>3. link'[w] = "open" /\ running'[w] = TRUE
    BY <1>1, <1>2 DEF TableTypeOK, ClientsOK, ClientTypeOK
  <2>4. GameOver' = GameOver
    BY <1>2 DEF gameVars, GameOver
  <2>5. QED
    BY <1>1, <1>2, <2>2, <2>3, <2>4 DEF Ending, Ended, Seated
<1>5. QED
  BY <1>3, <1>4 DEF EndKept

\* A client breaks down by itself.
LEMMA BreakDownEnds ==
    ASSUME TableKept, EndKept, NEW w \in Clients, breakDown(w)
    PROVE  EndKept'
<1>1. TableTypeOK /\ ClientsOK /\ Ending(w)
  BY DEF TableKept, TableTypeOK, ClientsOK, EndKept
<1>2. /\ w \in Frail /\ finish(w, 1) /\ UNCHANGED <<gameVars, workerToSide, jobs, killFlag>>
      /\ link' = [link EXCEPT ![w] = IF link[w] = "open" THEN "left" ELSE "shut"]
  BY DEF breakDown, crash, setLink, serverVars, seatVars, mgrVars, queueVars
<1>3. Apart(w) /\ running'[w] = FALSE /\ exitFlag'[w] = 1
  BY <1>1, <1>2, EndsNow
<1>4. link'[w] \in {"left", "shut"} /\ \A v \in Clients \ {w} : link'[v] = link[v]
  BY <1>1, <1>2 DEF TableTypeOK
<1>5. ASSUME NEW v \in Clients \ {w} PROVE Ending(v)' /\ Ended(v)'
  BY <1>2, <1>3, <1>4, EndsStill DEF EndKept, Apart
<1>6. GameOver' = GameOver
  BY <1>2 DEF gameVars, GameOver
<1>7. Ending(w)' /\ Ended(w)'
  BY <1>1, <1>2, <1>3, <1>4, <1>6 DEF Ending, Ended
<1>8. QED
  BY <1>5, <1>7 DEF EndKept

\* A client reads the end of file.
LEMMA EndOfFileEnds ==
    ASSUME TableKept, EndKept, NEW w \in Clients, endOfFile(w)
    PROVE  EndKept'
<1>1. TableTypeOK /\ ClientsOK /\ Ending(w)
  BY DEF TableKept, TableTypeOK, ClientsOK, EndKept
<1>2. /\ link[w] = "shut" /\ running[w] /\ finish(w, EofCode(w))
      /\ UNCHANGED <<gameVars, workerToSide, jobs, killFlag, link>>
  BY DEF endOfFile, eof, serverVars, seatVars, mgrVars, queueVars
<1>3. Apart(w) /\ running'[w] = FALSE /\ exitFlag'[w] = EofCode(w) /\ stage'[w] = stage[w]
  BY <1>1, <1>2, EndsNow DEF EofCode
<1>4. ASSUME NEW v \in Clients \ {w} PROVE Ending(v)' /\ Ended(v)'
  BY <1>2, <1>3, EndsStill DEF EndKept, Apart
<1>5. GameOver' = GameOver
  BY <1>2 DEF gameVars, GameOver
<1>6. Ending(w)' /\ Ended(w)'
  BY <1>1, <1>2, <1>3, <1>5 DEF Ending, Ended, EofCode, Latecomer
<1>7. QED
  BY <1>4, <1>6 DEF EndKept

\* A message arrives.
LEMMA DeliverEnds ==
    ASSUME TableKept, EndKept, NEW w \in Clients, deliverNext(w)
    PROVE  EndKept'
<1> DEFINE q == jobs[w]
<1>1. /\ link[w] = "open" /\ q # <<>> /\ hear(w, Head(q)) /\ jobs' = [jobs EXCEPT ![w] = Tail(@)]
      /\ link' = [link EXCEPT ![w] = IF running'[w] THEN "open" ELSE "left"]
      /\ UNCHANGED <<gameVars, workerToSide, killFlag>>
  BY DEF deliverNext, setLink, serverVars, seatVars
<1>2. TableTypeOK /\ ClientsOK /\ ClientKept(w) /\ Ending(w) /\ w \in Workers /\ \A v \in Clients : v \in Workers
  BY TableAssumption DEF TableKept, TableTypeOK, ClientsOK, EndKept
<1>3. /\ jobs'[w] = Tail(q) /\ link'[w] = (IF running'[w] THEN "open" ELSE "left") /\ running[w] = TRUE
      /\ \A v \in Clients \ {w} : jobs'[v] = jobs[v] /\ link'[v] = link[v]
  BY <1>1, <1>2 DEF TableTypeOK, ClientKept, Connected, ClientsOK, ClientTypeOK
<1>4. ASSUME Apart(w) PROVE \A v \in Clients \ {w} : Ending(v)' /\ Ended(v)'
  BY <1>1, <1>3, <1>4, EndsStill DEF EndKept, Apart
<1>5. GameOver' = GameOver
  BY <1>1 DEF gameVars, GameOver
<1>6. CASE ~Seated(w)
  <2>1. q \in Seq(Refusals) /\ stage[w] = "PRE"
    BY <1>1, <1>2, <1>6 DEF ClientKept, Stranger, Unheard, Belief
  <2>2. Head(q) \in Refusals
    <3> HIDE DEF Refusals, q
    <3>1. QED
      BY <1>1, <2>1, FirstOf
  <2>3. finish(w, 1)
    BY <1>1, <2>2 DEF Refusals, hear, unreadableMsg, Readable, trickMsg, wrongMsg, dealMsg, takenMsg, scoreMsg, busyMsg
  <2>4. Apart(w) /\ running'[w] = FALSE /\ exitFlag'[w] = 1 /\ stage'[w] = "PRE"
    BY <1>2, <2>1, <2>3, EndsNow
  <2>5. Ending(w)' /\ Ended(w)'
    BY <1>1, <1>2, <1>3, <1>5, <2>4 DEF Ending, Ended
  <2>6. QED
    BY <1>4, <2>4, <2>5 DEF EndKept
<1>7. CASE Seated(w)
  <2>1. Learns(w, GameOver, stage[w], q)
    <3>1. ToldSoFar(GameOver, stage[w], q)
      BY <1>1, <1>2, <1>7 DEF Ending
    <3>2. QED
      BY <1>1, <1>2, <3>1, HearsEnd
  <2>2. Ending(w)' /\ Ended(w)'
    BY <1>1, <1>2, <1>3, <1>5, <2>1 DEF Learns, Ending, Ended, Latecomer
  <2>3. QED
    BY <1>4, <2>1, <2>2 DEF EndKept, Learns
<1>8. QED
  BY <1>6, <1>7

\* The end of a worker.
LEMMA ExitEnds ==
    ASSUME TableKept, EndKept, NEW w \in Clients, notice(w) \/ close(w)
    PROVE  EndKept'
<1>1. TableTypeOK /\ ClientKept(w) /\ Ending(w) /\ Ended(w) /\ \A v \in Clients : v \in Workers
  BY TableAssumption DEF TableKept, EndKept
<1>2. PICK quit \in BOOLEAN : grandExitCallback(w, FALSE, FALSE, quit)
  BY DEF notice, close
<1>3. /\ link' = [link EXCEPT ![w] = "shut"] /\ UNCHANGED <<stage, running, exitFlag>>
      /\ link[w] = "left" \/ (killFlag[w] /\ link[w] = "open" /\ jobs[w] = <<>>)
  BY DEF notice, close, setLink, playerVars
<1>4. roles[w] \in {"SERVING_ACTIVE", "SERVING_UNKNOWN", "CLEANUP_UNKNOWN"}
  BY <1>1, <1>3 DEF ClientKept, Connected
<1>5. /\ UNCHANGED <<gameVars, jobs, killFlag>>
      /\ \A v \in Clients \ {w} : workerToSide'[v] = workerToSide[v]
  <2>1. playerLeaves(w, FALSE, quit) \/ zombieLeaves(w, FALSE, quit) \/ strangerLeaves(w, quit)
    BY <1>2, <1>4 DEF grandExitCallback, proxyLeaves, goneAlready
  <2>2. UNCHANGED gameVars /\ UNCHANGED queueVars
    BY <1>2, <2>1 DEF grandExitCallback, playerLeaves, zombieLeaves, strangerLeaves, sendNothing
  <2>3. UNCHANGED workerToSide \/ workerToSide' = [workerToSide EXCEPT ![w] = NoSide]
    BY <2>1 DEF playerLeaves, zombieLeaves, strangerLeaves, freeSeat, seatVars
  <2>4. QED
    BY <1>1, <2>2, <2>3 DEF queueVars, TableTypeOK
<1>6. link'[w] = "shut" /\ \A v \in Clients \ {w} : link'[v] = link[v]
  BY <1>1, <1>3 DEF TableTypeOK
<1>7. ASSUME NEW v \in Clients \ {w} PROVE Ending(v)' /\ Ended(v)'
  BY <1>3, <1>5, <1>6, EndsStill DEF EndKept
<1>8. GameOver' = GameOver
  BY <1>5 DEF gameVars, GameOver
<1>9. Ending(w)' /\ Ended(w)'
  <2>1. CASE link[w] = "left"
    <3>1. ~running[w]
      BY <1>1, <2>1 DEF ClientKept, Connected
    <3>2. QED
      BY <1>1, <1>3, <1>5, <1>6, <1>8, <2>1, <3>1 DEF Ending, Ended, Latecomer
  <2>2. CASE killFlag[w] /\ link[w] = "open" /\ jobs[w] = <<>>
    <3>1. GameOver /\ running[w]
      BY <1>1, <2>2 DEF Ending, ClientKept, Connected
    <3>2. CASE Seated(w)
      <4>1. ToldAll(stage[w], <<>>)
        BY <1>1, <2>2, <3>1, <3>2 DEF Ending, ToldSoFar
      <4>2. stage[w] \in {"AFTER_TOTAL", "AFTER_FIRST_DEAL"}
        BY <4>1, ToldNothing
      <4>3. QED
        BY <1>3, <1>6, <1>8, <3>1, <4>2 DEF Ending, Ended
    <3>3. CASE ~Seated(w)
      <4>1. stage[w] = "PRE"
        BY <1>1, <2>2, <3>3 DEF ClientKept, Stranger, Unheard, Belief
      <4>2. QED
        BY <1>3, <1>6, <1>8, <3>1, <4>1 DEF Ending, Ended
    <3>4. QED
      BY <3>2, <3>3
  <2>3. QED
    BY <1>3, <2>1, <2>2
<1>10. QED
  BY <1>7, <1>9 DEF EndKept

\* What the server says while the game is on, and when it is over.
Said(over) == IF over THEN Late ELSE Plain

\* A player that is told more.
LEMMA ToldMore ==
    ASSUME NEW over, NEW st, NEW q, ToldSoFar(over, st, q), NEW c \in Seq(Said(over))
    PROVE  ToldSoFar(over, st, q \o c)
<1>1. CASE over
  BY <1>1, LateMore DEF ToldSoFar, Said
<1>2. CASE ~over
  BY <1>2, SameKind DEF ToldSoFar, Said
<1>3. QED
  BY <1>1, <1>2

\* A prompt is one or the other, and so is the refusal of a card.
LEMMA PromptSaid ==
    ASSUME InStep
    PROVE  /\ TrickMsg(table, trickNo) \in Said(GameOver)
           /\ WrongMsg(trickNo) \in Said(GameOver)
           /\ \A s \in Sides : PromptNow(s) \in Seq(Said(GameOver))
<1>1. table \in Seq(Card) /\ trickNo \in 1 .. TricksPerRound + 1
  BY DEF InStep, GameTypeOK
<1>2. TrickMsg(table, trickNo) \in Letter /\ WrongMsg(trickNo) \in Letter
  BY <1>1, LetterTrick, LetterWrong
<1>3. /\ TrickMsg(table, trickNo).type = "TRICK" /\ TrickMsg(table, trickNo).trickNo = trickNo
      /\ WrongMsg(trickNo).type = "WRONG" /\ WrongMsg(trickNo).trickNo = trickNo
  BY DEF TrickMsg, WrongMsg
<1>4. (GameOver => trickNo > TricksPerRound) /\ (~GameOver => trickNo <= TricksPerRound)
  <2>1. GameOver <=> trickNo > TricksPerRound
    BY OverIs
  <2>2. QED
    BY <1>1, <2>1, RulesAssumption
<1> HIDE DEF Letter
<1>5. TrickMsg(table, trickNo) \in Said(GameOver) /\ WrongMsg(trickNo) \in Said(GameOver)
  BY <1>2, <1>3, <1>4 DEF Said, Plain, Late
<1>6. ASSUME NEW s \in Sides PROVE PromptNow(s) \in Seq(Said(GameOver))
  BY <1>5, Alone, Nothing DEF PromptNow
<1>7. QED
  BY <1>5, <1>6

\* Everybody who listens has been told.
TellsAll == \A v \in Clients : link[v] = "open" /\ Seated(v)' => ToldSoFar(GameOver', stage[v], jobs'[v])

\* Nobody is stopped before the end.
StopsNobody == \A v \in Clients : killFlag'[v] => killFlag[v] \/ GameOver'

\* The server has dealt with something.
LEMMA ServerTold ==
    ASSUME EndKept, GameOver => GameOver', UNCHANGED <<link, stage, running, exitFlag>>, TellsAll, StopsNobody
    PROVE  EndKept'
BY EndsAlike DEF EndKept, TellsAll, StopsNobody

\* Messages without kill orders stop nobody.
LEMMA StopsNone ==
    ASSUME NEW mail, NEW woken, deliver(mail, {}, woken)
    PROVE  StopsNobody
BY TableAssumption DEF deliver, StopsNobody

\* The side to move is asked again.
LEMMA AskAgainEnds ==
    ASSUME GameKept, TableKept, EndKept, NEW w \in Clients, askAgain(w)
    PROVE  EndKept'
<1> DEFINE msgs == <<TrickMsg(table, trickNo)>>
<1>1. /\ UNCHANGED gameVars /\ UNCHANGED <<workerToSide, link, stage, running, exitFlag>>
      /\ sendTo(w, msgs, {}) \/ UNCHANGED <<jobs, killFlag>>
  BY DEF askAgain, handleTimeout, seatVars, playerVars, sendNothing, queueVars
<1>2. GameOver' = GameOver
  BY <1>1 DEF gameVars, GameOver
<1>3. msgs \in Seq(Said(GameOver))
  BY PromptSaid, Alone DEF GameKept
<1>4. \A v \in Clients : v \in Workers
  BY TableAssumption
<1> HIDE DEF msgs
<1>5. ASSUME NEW v \in Clients PROVE jobs'[v] \in {jobs[v], jobs[v] \o <<>>, jobs[v] \o msgs}
  <2>1. CASE UNCHANGED <<jobs, killFlag>>
    BY <2>1
  <2>2. CASE sendTo(w, msgs, {})
    <3>1. Mail(w, msgs)[v] \in {<<>>, msgs}
      BY <1>4 DEF Mail, NoMail
    <3>2. QED
      BY <1>4, <2>2, <3>1 DEF sendTo, deliver
  <2>3. QED
    BY <1>1, <2>1, <2>2
<1>6. TellsAll
  <2> SUFFICES ASSUME NEW v \in Clients, link[v] = "open", Seated(v)'
               PROVE  ToldSoFar(GameOver', stage[v], jobs'[v])
    BY DEF TellsAll
  <2>1. ToldSoFar(GameOver, stage[v], jobs[v])
    BY <1>1 DEF EndKept, Ending, Seated
  <2>2. <<>> \in Seq(Said(GameOver))
    BY Nothing
  <2>3. QED
    BY <1>2, <1>3, <1>5, <2>1, <2>2, ToldMore
<1>7. StopsNobody
  BY <1>1, StopsNone DEF sendTo, StopsNobody
<1>8. QED
  BY <1>1, <1>2, <1>6, <1>7, ServerTold

\* The side is taken.
LEMMA BusyEnds ==
    ASSUME TableKept, EndKept, NEW w \in Clients, serve(w), Asks(w), answerBusy(Seat[w], w)
    PROVE  EndKept'
<1> DEFINE no == BusyMsg({s \in Sides : activeSides[s] # NoWorker})
<1>1. /\ UNCHANGED <<link, stage, running, exitFlag>> /\ UNCHANGED gameVars /\ UNCHANGED workerToSide
      /\ deliver(Mail(w, <<no>>), {}, {})
  BY DEF serve, answerBusy, sendTo, seatVars
<1>2. GameOver' = GameOver
  BY <1>1 DEF gameVars, GameOver
<1> HIDE DEF no
<1>3. TellsAll
  <2> SUFFICES ASSUME NEW v \in Clients, link[v] = "open", Seated(v)'
               PROVE  ToldSoFar(GameOver', stage[v], jobs'[v])
    BY DEF TellsAll
  <2>1. ToldSoFar(GameOver, stage[v], jobs[v]) /\ v # w /\ v \in Workers
    BY <1>1, TableAssumption DEF EndKept, Ending, Seated, Asks
  <2>2. jobs'[v] \in {jobs[v], jobs[v] \o <<>>}
    BY <1>1, <2>1 DEF deliver, Mail, NoMail
  <2>3. <<>> \in Seq(Said(GameOver))
    BY Nothing
  <2>4. QED
    BY <1>2, <2>1, <2>2, <2>3, ToldMore
<1>4. StopsNobody
  BY <1>1, StopsNone
<1>5. QED
  BY <1>1, <1>2, <1>3, <1>4, ServerTold

\* What goes to the sides reaches the clients.
LEMMA PostReaches ==
    ASSUME TableKept, NEW f, Posted(activeSides, f), NEW v \in Clients, NEW t \in Sides, workerToSide[v] = t
    PROVE  jobs'[v] = jobs[v] \o f[t]
<1>1. v \in Workers /\ ClientKept(v) /\ NoSide \notin Sides
  BY TableAssumption, RulesAssumption DEF TableKept, NoSide, Sides
<1>2. v \in workers
  BY <1>1 DEF Seated, ClientKept, Connected
<1>3. \A y \in Sides : activeSides[y] = v <=> y = t
  BY <1>1 DEF TableKept, Paired
<1>4. QED
  BY <1>1, <1>2, <1>3 DEF Posted

\* A card that is refused; it may come when the game is over.
LEMMA RejectEnds ==
    ASSUME GameKept, TableKept, EndKept, NEW w \in Clients, serve(w), NEW s \in Sides, NEW no \in 1 .. TricksPerRound,
           NEW card \in Card, Plays(w, s, no, card), rejectCard(no, card, w)
    PROVE  EndKept'
<1> DEFINE wrong == WrongMsg(trickNo)
           f == Post(s, <<wrong>>)
<1>1. /\ UNCHANGED <<link, stage, running, exitFlag>> /\ UNCHANGED gameVars /\ UNCHANGED workerToSide
      /\ deliver(ToWorkers(activeSides, f), {}, {}) /\ workerToSide[w] = s /\ lastDeal # <<>>
  BY DEF serve, rejectCard, post, seatVars, Plays
<1>2. GameOver' = GameOver
  BY <1>1 DEF gameVars, GameOver
<1>3. TableTypeOK /\ ClientKept(w) /\ trickNo \in 1 .. TricksPerRound + 1 /\ \A v \in Clients : v \in Workers
  BY TableAssumption DEF TableKept, GameKept, InStep, GameTypeOK
<1>4. f \in [Sides -> Seq(Letter)]
  <2>1. <<wrong>> \in Seq(Letter) /\ <<>> \in Seq(Letter)
    BY <1>3, LetterWrong, Alone, Nothing
  <2> HIDE DEF wrong, Letter
  <2>2. QED
    BY <2>1 DEF Post, NoPost
<1>5. f[s] = <<wrong>> /\ \A t \in Sides \ {s} : f[t] = <<>>
  BY DEF Post, NoPost
<1> HIDE DEF f
<1>6. Posted(activeSides, f)
  BY <1>1, <1>3, <1>4, PostIs
<1>7. TellsAll
  <2> SUFFICES ASSUME NEW v \in Clients, link[v] = "open", Seated(v)'
               PROVE  ToldSoFar(GameOver', stage[v], jobs'[v])
    BY DEF TellsAll
  <2>1. ToldSoFar(GameOver, stage[v], jobs[v])
    BY <1>1 DEF EndKept, Ending, Seated
  <2>2. PICK t \in Sides : workerToSide[v] = t
    BY <1>1, <1>3 DEF TableTypeOK, Seated
  <2>3. jobs'[v] = jobs[v] \o f[t]
    BY <1>6, <2>2, PostReaches
  <2>4. f[t] \in Seq(Said(GameOver))
    <3>1. CASE t = s
      <4>1. wrong \in Said(GameOver)
        BY PromptSaid DEF GameKept
      <4>2. QED
        BY <1>5, <3>1, <4>1, Alone
    <3>2. CASE t # s
      <4>1. f[t] = <<>>
        BY <1>5, <3>2
      <4>2. <<>> \in Seq(Said(GameOver))
        BY Nothing
      <4>3. QED
        BY <4>1, <4>2
    <3>3. QED
      BY <3>1, <3>2
  <2>5. QED
    BY <1>2, <2>1, <2>3, <2>4, ToldMore
<1>8. StopsNobody
  BY <1>1, StopsNone
<1>9. QED
  BY <1>1, <1>2, <1>7, <1>8, ServerTold

\* So is the prompt that follows a card.
LEMMA PromptIsSaid == InStep => TrickMsg(table, trickNo) \in Said(GameOver)
BY PromptSaid

\* What a card makes the server say: before the end what a running game says,
\* and at the end the totals, last.
LEMMA CardSaid ==
    ASSUME GameKept, GameKept', NEW w, NEW card, acceptCard(card, w), NEW s \in Sides
    PROVE  /\ ~GameOver
           /\ ~GameOver' => AfterCard(s, card) \in Seq(Plain)
           /\ GameOver' => \E a \in Seq(Plain), m \in Totals : AfterCard(s, card) = a \o (<<m>> \o <<>>)
<1> DEFINE side == SenderSide(w)
           prompt == IF s = nextMove' THEN <<TrickMsg(table', trickNo')>> ELSE <<>>
           turn == TakenMsg(card)
           score == ScoreMsg(RoundScore(card))
           total == TotalMsg(NewTotals(card))
           deal == DealMsg(roundMode', nextMove', hands'[s])
<1>1. side \in Sides /\ card \in hands[side] /\ card \in Card /\ Play(side, card) /\ ~GameOver
  BY CardIsMovers
<1>2. GameTypeOK /\ GameTypeOK' /\ InStep' /\ roundNumber \in Nat /\ table \in Seq(Card)
  <2>1. InStep /\ InStep'
    BY DEF GameKept
  <2>2. GameTypeOK /\ GameTypeOK'
    BY ONLY <2>1 DEF InStep
  <2>3. roundNumber \in Nat /\ table \in Seq(Card)
    BY ONLY <2>2 DEF GameTypeOK
  <2>4. QED
    BY <2>1, <2>2, <2>3
<1>3. ~GameOver' => prompt \in Seq(Plain)
  <2> SUFFICES ASSUME ~GameOver'
               PROVE  prompt \in Seq(Plain)
    OBVIOUS
  <2>1. (TrickMsg(table, trickNo) \in Said(GameOver))'
    BY <1>2, PromptIsSaid, PTL
  <2>2. TrickMsg(table', trickNo') \in Plain
    BY <2>1 DEF Said, TrickMsg
  <2>3. QED
    BY <2>2, Alone, Nothing
<1>4. CASE addCard(side, card)
  <2>1. Len(table) + 1 < NSides /\ roundNumber' = roundNumber
    BY <1>4 DEF addCard
  <2>2. ~(roundNumber' > roundNumber) /\ Len(table) + 1 # NSides
    BY <1>2, <2>1, RulesAssumption
  <2>3. AfterCard(s, card) = prompt
    BY ONLY <2>1, <2>2 DEF AfterCard
  <2>4. ~GameOver'
    BY <1>1, <2>1 DEF GameOver
  <2>5. QED
    BY <1>1, <1>3, <2>3, <2>4
<1>5. CASE ~addCard(side, card)
  <2>1. Len(table) + 1 = NSides /\ (closeTrick(side, card) \/ closeRound(side, card) \/ closeGame(side, card))
    BY <1>1, <1>5 DEF Play, playCard, closeTrick, closeRound, closeGame
  <2>2. ~(Len(table) + 1 < NSides)
    BY <2>1, RulesAssumption
  <2>3. turn \in Messages /\ RoundScore(card) \in [Sides -> Nat] /\ NewTotals(card) \in [Sides -> Nat]
    BY <1>1, <1>2, <2>1, TakeType
  <2>4. turn \in Letter /\ score \in Letter /\ total \in Letter /\ deal \in Letter
    BY <1>2, <2>3, LetterTaken, LetterScore, LetterDeal DEF GameTypeOK
  <2>5. turn.type = "TAKEN" /\ score.type = "SCORE" /\ total.type = "TOTAL" /\ deal.type = "DEAL"
    BY DEF TakenMsg, Taken, ScoreMsg, TotalMsg, DealMsg
  <2> HIDE DEF turn, score, total, deal, prompt, Letter
  <2>6. turn \in Plain /\ score \in Plain /\ total \in Plain /\ total \in Totals /\ deal \in Plain
    BY <2>4, <2>5 DEF Plain, Totals
  <2> HIDE DEF Plain, Totals
  <2>7. <<turn>> \in Seq(Plain) /\ <<turn, score>> \in Seq(Plain) /\ <<turn, score, total>> \in Seq(Plain) /\ <<deal>> \in Seq(Plain)
    BY <2>6
  <2>8. LastTold(card) = <<turn, score, total>>
    BY DEF LastTold, turn, score, total
  <2>9. CASE GameOver'
    <3>1. AfterCard(s, card) = LastTold(card)
      BY ONLY <2>1, <2>2, <2>9 DEF AfterCard
    <3>2. <<turn, score, total>> = <<turn, score>> \o (<<total>> \o <<>>)
      OBVIOUS
    <3>3. QED
      BY <1>1, <2>6, <2>7, <2>8, <2>9, <3>1, <3>2
  <2>10. CASE ~GameOver'
    <3>1. AfterCard(s, card) \in {NewRound(s, card) \o prompt, <<turn>> \o prompt}
      BY ONLY <2>2, <2>10 DEF AfterCard, prompt, turn
    <3>2. NewRound(s, card) = <<turn, score, total>> \o <<deal>>
      BY <2>8 DEF NewRound, deal
    <3>3. NewRound(s, card) \in Seq(Plain) /\ prompt \in Seq(Plain)
      BY <1>3, <2>7, <2>10, <3>2, SameKind
    <3>4. NewRound(s, card) \o prompt \in Seq(Plain) /\ <<turn>> \o prompt \in Seq(Plain)
      BY <2>7, <3>3, SameKind
    <3>5. QED
      BY <1>1, <2>10, <3>1, <3>4
  <2>11. QED
    BY <2>9, <2>10
<1>6. QED
  BY <1>4, <1>5

\* A card that is played.
LEMMA AcceptEnds ==
    ASSUME GameKept, GameKept', TableKept, EndKept, NEW w \in Clients, serve(w), NEW s \in Sides,
           NEW no \in 1 .. TricksPerRound, NEW card \in Card, Plays(w, s, no, card), acceptCard(card, w)
    PROVE  EndKept'
<1>1. /\ UNCHANGED <<link, stage, running, exitFlag>> /\ UNCHANGED workerToSide
      /\ Posted(activeSides, [t \in Sides |-> AfterCard(t, card)])
  <2>1. UNCHANGED <<link, stage, running, exitFlag>>
    BY DEF serve
  <2>2. Posted(activeSides, [t \in Sides |-> AfterCard(t, card)]) /\ UNCHANGED seatVars
    BY CardPosted
  <2>3. QED
    BY <2>1, <2>2 DEF seatVars
<1>2. ~GameOver
  BY CardIsMovers
<1>3. TellsAll
  <2> SUFFICES ASSUME NEW v \in Clients, link[v] = "open", Seated(v)'
               PROVE  ToldSoFar(GameOver', stage[v], jobs'[v])
    BY DEF TellsAll
  <2>1. ToldSoFar(GameOver, stage[v], jobs[v]) /\ TableTypeOK /\ v \in Workers
    BY <1>1, TableAssumption DEF EndKept, Ending, Seated, TableKept
  <2>2. PICK t \in Sides : workerToSide[v] = t
    BY <1>1, <2>1 DEF TableTypeOK, Seated
  <2> DEFINE q == jobs[v]
             c == AfterCard(t, card)
             st == stage[v]
  <2>3. jobs'[v] = q \o c
    BY <1>1, <2>2, CardReaches
  <2>4. q \in Seq(Plain)
    BY <1>2, <2>1 DEF ToldSoFar
  <2>5. /\ ~GameOver' => c \in Seq(Plain)
        /\ GameOver' => \E a \in Seq(Plain), m \in Totals : c = a \o (<<m>> \o <<>>)
    BY CardSaid
  <2> HIDE DEF q, c, st
  <2>6. CASE ~GameOver'
    <3>1. q \o c \in Seq(Plain)
      BY <2>4, <2>5, <2>6, SameKind
    <3>2. QED
      BY <2>3, <2>6, <3>1 DEF ToldSoFar
  <2>7. CASE GameOver'
    <3>1. PICK a \in Seq(Plain), m \in Totals : c = a \o (<<m>> \o <<>>)
      BY <2>5, <2>7
    <3>2. <<>> \in Seq(Late)
      BY Nothing
    <3>3. Plain \subseteq Letter /\ Totals \subseteq Letter
      BY DEF Plain, Totals
    <3> HIDE DEF Letter, Plain, Totals, Late
    <3>4. q \in Seq(Letter) /\ a \in Seq(Letter) /\ <<m>> \in Seq(Letter) /\ <<>> \in Seq(Letter)
      BY <2>4, <3>3, Wider, Alone, Nothing
    <3>5. <<m>> \o <<>> \in Seq(Letter)
      BY <3>4, SameKind
    <3>6. q \o (a \o (<<m>> \o <<>>)) = (q \o a) \o (<<m>> \o <<>>)
      BY <3>4, <3>5, Joined
    <3>7. q \o a \in Seq(Plain)
      BY <2>4, SameKind
    <3>8. q \o c = (q \o a) \o (<<m>> \o <<>>)
      BY <3>1, <3>6
    <3>9. ToldAll(st, q \o c)
      BY <3>2, <3>7, <3>8 DEF ToldAll
    <3>10. QED
      BY <2>3, <2>7, <3>9 DEF ToldSoFar, st
  <2>8. QED
    BY <2>6, <2>7
<1>4. StopsNobody
  <2>1. \E killed : /\ ~GameOver' => killed = {}
                    /\ \E mail : deliver(mail, killed, {})
    BY DEF acceptCard, post
  <2>2. QED
    BY <2>1, TableAssumption DEF deliver, StopsNobody
<1>5. QED
  BY <1>1, <1>2, <1>3, <1>4, ServerTold

\* What the others hear when somebody comes, and the newcomer itself.
LEMMA ArrivalSaid ==
    ASSUME GameKept, Laid, NEW side \in Sides, NEW t \in Sides
    PROVE  /\ ~GameOver => IntroPost(side)[t] \in Seq(Plain)
           /\ GameOver /\ t # side => IntroPost(side)[t] \in Seq(Late)
           /\ GameOver => \E m \in Deals, r \in Seq(Replay) : IntroPost(side)[side] = <<m>> \o r
<1> DEFINE c == IF Resumes THEN PromptNow(t) ELSE <<>>
           d == IF Resumes THEN PromptNow(side) ELSE <<>>
           deal(h) == DealMsg(roundMode, nextMove, h)
<1>1. /\ IntroPost(side)[t] = ToldTo(side, t) /\ IntroPost(side)[side] = ToldTo(side, side)
      /\ takenInRound \in Seq(FullTricks) /\ (lastDeal # <<>> => lastDeal = Deal.hands)
      /\ hands[t] \in SUBSET Card /\ Deal.hands[t] \in SUBSET Card /\ Deal.hands[side] \in SUBSET Card
  BY IntroIs
<1>2. PromptNow(t) \in Seq(Said(GameOver)) /\ PromptNow(side) \in Seq(Said(GameOver)) /\ GameTypeOK
  BY PromptSaid DEF GameKept, InStep
<1>3. c \in Seq(Said(GameOver)) /\ d \in Seq(Said(GameOver)) /\ \A S : <<>> \in Seq(S)
  BY <1>2, Nothing
<1>4. ASSUME NEW h \in SUBSET Card
      PROVE  deal(h) \in Deals /\ deal(h) \in Plain
  <2>1. deal(h) \in Letter /\ deal(h).type = "DEAL"
    BY <1>2, LetterDeal DEF GameTypeOK, DealMsg
  <2> HIDE DEF deal, Letter
  <2>2. QED
    BY <2>1 DEF Deals, Plain
<1>5. FullTricks \subseteq Plain /\ FullTricks \subseteq Replay /\ Late \subseteq Replay
  BY LetterTaken DEF FullTricks, Plain, Replay, Messages
<1>6. GameOver => lastDeal # <<>>
  <2>1. Len(Scenario) # 0
    BY ScenarioLength
  <2>2. QED
    BY <2>1 DEF Laid, GameOver
<1>7. /\ ToldTo(side, t) = IF lastDeal = <<>>
                             THEN IF Starts THEN <<deal(hands[t])>> \o (<<>> \o PromptNow(t)) ELSE <<>>
                             ELSE IF t = side THEN <<deal(lastDeal[t])>> \o (takenInRound \o c) ELSE c
      /\ lastDeal # <<>> => ToldTo(side, side) = <<deal(lastDeal[side])>> \o (takenInRound \o d)
  BY DEF ToldTo
<1> HIDE DEF c, d, deal, FullTricks, Plain, Late, Replay, Deals, Letter
<1>8. ASSUME ~GameOver
      PROVE  IntroPost(side)[t] \in Seq(Plain)
  <2>1. PromptNow(t) \in Seq(Plain) /\ c \in Seq(Plain) /\ takenInRound \in Seq(Plain)
    BY <1>1, <1>2, <1>3, <1>5, <1>8, Wider DEF Said
  <2>2. <<>> \o PromptNow(t) \in Seq(Plain) /\ takenInRound \o c \in Seq(Plain)
    BY <1>3, <2>1, SameKind
  <2>3. <<deal(hands[t])>> \in Seq(Plain) /\ (lastDeal # <<>> => <<deal(lastDeal[t])>> \in Seq(Plain))
    BY <1>1, <1>4, Alone
  <2>4. <<deal(hands[t])>> \o (<<>> \o PromptNow(t)) \in Seq(Plain)
    BY <2>2, <2>3, SameKind
  <2>5. lastDeal # <<>> => <<deal(lastDeal[t])>> \o (takenInRound \o c) \in Seq(Plain)
    BY <2>2, <2>3, SameKind
  <2>6. QED
    BY <1>1, <1>3, <1>7, <2>1, <2>4, <2>5
<1>9. ASSUME GameOver, t # side
      PROVE  IntroPost(side)[t] \in Seq(Late)
  BY <1>1, <1>3, <1>6, <1>7, <1>9 DEF Said
<1>10. ASSUME GameOver
       PROVE  \E m \in Deals, r \in Seq(Replay) : IntroPost(side)[side] = <<m>> \o r
  <2>1. d \in Seq(Replay) /\ takenInRound \in Seq(Replay)
    BY <1>1, <1>3, <1>5, <1>10, Wider DEF Said
  <2>2. takenInRound \o d \in Seq(Replay)
    BY <2>1, SameKind
  <2>3. deal(lastDeal[side]) \in Deals
    BY <1>1, <1>4, <1>6, <1>10
  <2>4. IntroPost(side)[side] = <<deal(lastDeal[side])>> \o (takenInRound \o d)
    BY <1>1, <1>6, <1>7, <1>10
  <2>5. QED
    BY <2>2, <2>3, <2>4
<1>11. QED
  BY <1>8, <1>9, <1>10

\* A client takes its side.
LEMMA ArriveEnds ==
    ASSUME GameKept, TableKept, EndKept, NEW w \in Clients, serve(w), Asks(w), takeSide(Seat[w], w)
    PROVE  EndKept'
<1> DEFINE side == Seat[w]
<1>1. /\ UNCHANGED <<link, stage, running, exitFlag>> /\ side \in Sides /\ ~Seated(w) /\ w \in Workers
      /\ roles[w] = "SERVING_UNKNOWN" /\ TableTypeOK /\ Laid /\ NoSide \notin Sides
  BY TableAssumption, RulesAssumption DEF serve, Asks, TableKept, NoSide, Sides
<1>2. /\ Posted(activeSides', IntroPost(side)) /\ UNCHANGED gameVars
      /\ workerToSide' \in [Workers -> Sides \cup {NoSide}]
      /\ workerToSide'[w] = side /\ \A v \in Workers \ {w} : workerToSide'[v] = workerToSide[v]
      /\ Paired'
  BY <1>1, TakenSide
<1>3. GameOver' = GameOver
  BY <1>2 DEF gameVars, GameOver
<1> HIDE DEF side
<1>4. TellsAll
  <2> SUFFICES ASSUME NEW v \in Clients, link[v] = "open", Seated(v)'
               PROVE  ToldSoFar(GameOver', stage[v], jobs'[v])
    BY DEF TellsAll
  <2>1. v \in Workers /\ v \in workers /\ ClientKept(v) /\ Ending(v) /\ jobs[v] \in Seq(Letter)
    BY <1>1, TableAssumption DEF TableKept, TableTypeOK, ClientKept, Connected, EndKept
  <2>2. PICK t \in Sides : workerToSide'[v] = t
    BY <1>2, <2>1 DEF Seated
  <2> DEFINE q == jobs[v]
             c == IntroPost(side)[t]
             st == stage[v]
  <2>3. jobs'[v] = q \o c
    BY <1>1, <1>2, <2>1, <2>2, IntroReaches
  <2>4. /\ ~GameOver => c \in Seq(Plain)
        /\ GameOver /\ t # side => c \in Seq(Late)
        /\ GameOver => \E m \in Deals, r \in Seq(Replay) : IntroPost(side)[side] = <<m>> \o r
    BY <1>1, ArrivalSaid
  <2>5. CASE v = w
    <3>1. t = side /\ q = <<>> /\ st = "PRE"
      BY <1>1, <1>2, <2>1, <2>2, <2>5 DEF ClientKept, Stranger, Unheard, Belief
    <3>2. IntroPost(side)[side] \in Seq(Letter)
      BY <1>1, IntroIs
    <3>3. jobs'[v] = c
      <4> HIDE DEF Letter, q
      <4>1. <<>> \o c = c
        BY <3>1, <3>2, Nothing
      <4>2. QED
        BY <2>3, <3>1, <4>1
    <3> HIDE DEF q, c, st
    <3>4. CASE GameOver
      <4>1. PICK m \in Deals, r \in Seq(Replay) : c = <<m>> \o r
        BY <2>4, <3>1, <3>4 DEF c
      <4>2. ToldAll(st, c)
        BY <3>1, <4>1 DEF ToldAll
      <4>3. QED
        BY <1>3, <3>3, <3>4, <4>2 DEF ToldSoFar, st
    <3>5. CASE ~GameOver
      BY <1>3, <2>4, <3>3, <3>5 DEF ToldSoFar
    <3>6. QED
      BY <3>4, <3>5
  <2>6. CASE v # w
    <3>1. Seated(v) /\ workerToSide[v] = t
      BY <1>1, <1>2, <2>1, <2>2, <2>6 DEF Seated
    <3>2. t # side
      BY <1>1, <1>2, <2>1, <2>2, <2>6 DEF Paired
    <3>3. ToldSoFar(GameOver, st, q)
      BY <2>1, <3>1 DEF Ending
    <3> HIDE DEF q, c, st
    <3>4. c \in Seq(Said(GameOver))
      BY <2>4, <3>2 DEF Said
    <3>5. ToldSoFar(GameOver, st, q \o c)
      BY <3>3, <3>4, ToldMore
    <3>6. QED
      BY <1>3, <2>3, <3>5 DEF st
  <2>7. QED
    BY <2>5, <2>6
<1>5. StopsNobody
  <2>1. \E mail, woken : deliver(mail, {}, woken)
    BY DEF takeSide
  <2>2. QED
    BY <2>1, StopsNone
<1>6. QED
  BY <1>1, <1>3, <1>4, <1>5, ServerTold

\* A message of a client is served.
LEMMA ServeEnds ==
    ASSUME GameKept, GameKept', TableKept, EndKept, NEW w \in Clients, serve(w)
    PROVE  EndKept'
<1>1. CASE Asks(w)
  BY <1>1, ArriveEnds, BusyEnds DEF Asks
<1>2. ASSUME NEW s \in Sides, NEW no \in 1 .. TricksPerRound, NEW card \in Card, Plays(w, s, no, card)
      PROVE  EndKept'
  <2>1. CASE acceptCard(card, w)
    BY ONLY GameKept, GameKept', TableKept, EndKept, w \in Clients, serve(w), <1>2, <2>1, AcceptEnds
  <2>2. CASE rejectCard(no, card, w)
    BY ONLY GameKept, TableKept, EndKept, w \in Clients, serve(w), <1>2, <2>2, RejectEnds
  <2>3. QED
    BY <1>2, <2>1, <2>2 DEF Plays
<1>3. QED
  BY <1>1, <1>2, ServedIs

\* Every step at the table keeps it.
LEMMA EndKeptNext == GameKept /\ GameKept' /\ TableKept /\ EndKept /\ [TableNext]_allVars => EndKept'
<1> SUFFICES ASSUME GameKept, GameKept', TableKept, EndKept, [TableNext]_allVars
             PROVE  EndKept'
  OBVIOUS
<1>1. ASSUME NEW w \in Clients,
             \/ connect(w) \/ serve(w) \/ deliverNext(w) \/ type(w) \/ askAgain(w)
             \/ breakDown(w) \/ notice(w) \/ close(w) \/ endOfFile(w)
      PROVE  EndKept'
  BY <1>1, ConnectEnds, ServeEnds, DeliverEnds, TypeEnds, AskAgainEnds, BreakDownEnds, ExitEnds, EndOfFileEnds
<1>2. CASE UNCHANGED allVars
  <2>1. UNCHANGED gameVars /\ UNCHANGED <<workerToSide, jobs, killFlag, link, stage, running, exitFlag>>
    BY <1>2 DEF allVars, serverVars, seatVars, mgrVars, queueVars, playerVars
  <2>2. QED
    BY <2>1, EndsStill DEF EndKept
<1>3. QED
  BY <1>1, <1>2 DEF TableNext

\* It holds before anybody has connected.
LEMMA EndKeptInit == TableInit => EndKept
<1> SUFFICES ASSUME TableInit, NEW w \in Clients
             PROVE  Ending(w) /\ Ended(w)
  BY DEF EndKept
<1>1. link[w] = "none" /\ killFlag[w] = FALSE
  BY TableAssumption DEF TableInit, ServerInit, MgrInit
<1>2. QED
  BY <1>1 DEF Ending, Ended

\* It holds throughout.
LEMMA EndIsKept == TableSpec => []EndKept
<1>1. QED
  BY EndKeptInit, EndKeptNext, TableIsKept, PTL DEF TableSpec

\* A client that ends has been told the side was taken or has heard the last
\* totals, and its exit code says which, however many players broke down and
\* came back: only prompts and refusals come behind the totals that the server tells
\* every player with the last trick (AfterCard), and only a client that is
\* seated after them has no more than the story of the last round.
THEOREM ClientsEndTold == TableSpec => []ExitTells
<1>1. EndKept => ExitTells
  BY DEF EndKept, Ended, ExitTells
<1>2. QED
  BY <1>1, EndIsKept, PTL
=============================================================================
