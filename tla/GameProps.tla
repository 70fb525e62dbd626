----------------------------- MODULE GameProps -----------------------------
(***************************************************************************)
(* What must hold of a whole round, over several tricks and several sides, *)
(* and the contract of module Kierki that module Game implements.          *)
(***************************************************************************)
EXTENDS Game, FiniteSetsExt

Deal == Scenario[IF GameOver THEN roundNumber ELSE roundNumber + 1]

\* The tricks of the round so far, the unfinished one last, with their leader.
Tabled == [k \in 1 .. Len(takenInRound) + 1 |->
             IF k <= Len(takenInRound) THEN takenInRound[k].table ELSE table]

LeaderOf(k) == IF k = 1 THEN Deal.start ELSE takenInRound[k - 1].taker
PlayerAt(k, i) == SideAfter(LeaderOf(k), i - 1)

Places == UNION {{<<k, i>> : i \in DOMAIN Tabled[k]} : k \in DOMAIN Tabled}
PlayedBy(s) == {Tabled[p[1]][p[2]] : p \in {q \in Places : PlayerAt(q[1], q[2]) = s}}

\* Every dealt card is in one place: still in the hand it was dealt to, or
\* played once, by that side, in the turn order the takers of the earlier
\* tricks fix.  Several moves of several sides and the table resets of
\* playerTricked lie between the deal and the check.
CardsInOnePlace ==
    /\ Cardinality(Places) = Cardinality(UNION {PlayedBy(s) : s \in Sides})
    /\ \A s \in Sides :
         /\ hands[s] \cap PlayedBy(s) = {}
         /\ hands[s] \cup PlayedBy(s) = Deal.hands[s]

\* Nobody revokes: a side that did not follow the colour led holds no card
\* of that colour now and never shows one later in the round.
NoRevoke ==
    \A p \in Places :
        LET lead == Tabled[p[1]][1].col
            s == PlayerAt(p[1], p[2])
        IN  Tabled[p[1]][p[2]].col # lead =>
              /\ \A card \in hands[s] : card.col # lead
              /\ \A q \in Places :
                   q[1] > p[1] /\ PlayerAt(q[1], q[2]) = s => Tabled[q[1]][q[2]].col # lead

\* Until the game is over the side to move has a legal card: isMoveLegal can
\* never leave the table waiting for a move that cannot be made.
MoverCanMove ==
    ~GameOver => \E card \in hands[nextMove] : mayPlay(nextMove, card)

\* What a deal costs in all, whoever takes the tricks.
Worth(mode, cards, tricks) ==
    LET hearts == Cardinality(cards \cap Hearts)
        queens == 5 * Cardinality(cards \cap Queens)
        kingsJacks == 2 * Cardinality(cards \cap KingsJacks)
        heartKing == 18 * Cardinality(cards \cap HeartKing)
        late == SumFunction([k \in tricks |-> lateTrick(k)])
        each == Cardinality(tricks)
        all == each + late + hearts + queens + kingsJacks + heartKing
    IN  <<each, hearts, queens, kingsJacks, heartKing, late, all>>[mode]

RoundWorth(r) == Worth(Scenario[r].mode, UNION {Scenario[r].hands[s] : s \in Sides}, 1 .. TricksPerRound)

\* The cards still to be paid for: in the hands or on the table.
Unplayed == (UNION {hands[s] : s \in Sides}) \cup {table[i] : i \in DOMAIN table}

\* The penalty ledger balances: what the sides were charged in this round
\* and what the unplayed cards and tricks are worth make up the worth of the
\* deal, and the totals make up the worth of the finished rounds, whoever
\* took what.  A penalty counted twice, dropped at the change of round or
\* charged with the wrong trick number breaks it.
LedgerBalances ==
    /\ SumFunction(penalties) = SumFunction([r \in 1 .. roundNumber |-> RoundWorth(r)])
    /\ ~GameOver =>
         SumFunction(penaltiesRound) + Worth(roundMode, Unplayed, trickNo .. TricksPerRound)
           = RoundWorth(roundNumber + 1)

-----------------------------------------------------------------------------
\* The plays of the round, as the takers and the table tell them.
PlaysOf ==
    LET n == Len(takenInRound) * NSides + Len(table)
        trick(i) == ((i - 1) \div NSides) + 1
        place(i) == ((i - 1) % NSides) + 1
    IN  [i \in 1 .. n |-> [side |-> PlayerAt(trick(i), place(i)),
                           card |-> Tabled[trick(i)][place(i)]]]

Promise == INSTANCE Kierki WITH
    Rounds <- Scenario, round <- roundNumber + 1, plays <- PlaysOf, totals <- penalties

\* The game the server keeps implements the game the players were promised.
ImplementsKierki == Promise!KierkiSpec
=============================================================================
