------------------------------- MODULE Kierki -------------------------------
(***************************************************************************)
(* What a game of kierki promises its players, without hands, turn         *)
(* counters or running sums: the state is the list of plays of the current *)
(* round and the score of the rounds before.  Whose turn it is, what a     *)
(* side still holds, who took which trick and what it cost follow from     *)
(* the plays.  Module Game is shown to implement this specification.       *)
(***************************************************************************)
EXTENDS GameRules, Functions

CONSTANT Rounds     \* sequence of [mode, hands, start]

VARIABLES
    round,     \* index of the current round, Len(Rounds) + 1 when all are over
    plays,     \* sequence of [side, card]: the plays of the current round
    totals     \* side -> what the finished rounds cost it

kierkiVars == <<round, plays, totals>>

\* Trick k of a list of plays, and the play that takes it: the highest card
\* of the colour that was led.
Trick(ps, k) == [i \in 1 .. NSides |-> ps[(k - 1) * NSides + i]]
Tricks(ps) == 1 .. (Len(ps) \div NSides)

Winner(ps, k) ==
    LET trick == Trick(ps, k)
        following == {i \in 1 .. NSides : trick[i].card.col = trick[1].card.col}
        best == CHOOSE i \in following : \A j \in following : trick[j].card.val <= trick[i].card.val
    IN  trick[best].side

\* Card by card and trick by trick, what a round of each mode charges.
CardCost(mode, card) ==
    LET heart == IF card.col = "H" THEN 1 ELSE 0
        queen == IF card.val = Queen THEN 5 ELSE 0
        kingJack == IF card.val \in {King, Jack} THEN 2 ELSE 0
        heartKing == IF card.val = King /\ card.col = "H" THEN 18 ELSE 0
    IN  <<0, heart, queen, kingJack, heartKing, 0, heart + queen + kingJack + heartKing>>[mode]

TrickCost(mode, k) ==
    LET late == IF k = 7 \/ k = TricksPerRound THEN 10 ELSE 0
    IN  <<1, 0, 0, 0, 0, late, 1 + late>>[mode]

Price(mode, no, cards) ==
    TrickCost(mode, no) + SumFunction([i \in DOMAIN cards |-> CardCost(mode, cards[i])])

Cost(mode, ps, k) == Price(mode, k, [i \in 1 .. NSides |-> Trick(ps, k)[i].card])

RoundCost(mode, ps, s) ==
    SumFunctionOnSet([k \in Tricks(ps) |-> Cost(mode, ps, k)], {k \in Tricks(ps) : Winner(ps, k) = s})

\* The side to move: the first one of the round, the side after the last
\* play, or the winner of the trick that play finished.
Turn ==
    IF plays = <<>> THEN Rounds[round].start
    ELSE IF Len(plays) % NSides = 0 THEN Winner(plays, Len(plays) \div NSides)
    ELSE nxtSide(plays[Len(plays)].side)

Holds(s) == Rounds[round].hands[s] \ {plays[i].card : i \in DOMAIN plays}

\* The colour to follow, if a trick has begun.
Led == IF Len(plays) % NSides = 0 THEN Colors
       ELSE {plays[Len(plays) - (Len(plays) % NSides) + 1].card.col}

Follows(s, card) == card.col \in Led \/ \A c \in Holds(s) : c.col \notin Led

KierkiInit ==
    /\ round = 1
    /\ plays = <<>>
    /\ totals = [s \in Sides |-> 0]

\* The side to move plays a card it holds.
PlayOne(s, card) ==
    LET ps == Append(plays, [side |-> s, card |-> card])
    IN  /\ Follows(s, card)
        /\ IF Len(ps) < NSides * TricksPerRound
             THEN plays' = ps /\ UNCHANGED <<round, totals>>
             ELSE /\ round' = round + 1
                  /\ plays' = IF round = Len(Rounds) THEN ps ELSE <<>>
                  /\ totals' = [t \in Sides |-> totals[t] + RoundCost(Rounds[round].mode, ps, t)]

KierkiNext == round <= Len(Rounds) /\ \E card \in Holds(Turn) : PlayOne(Turn, card)

KierkiSpec == KierkiInit /\ [][KierkiNext]_kierkiVars
=============================================================================
