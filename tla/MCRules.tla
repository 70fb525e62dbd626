------------------------------- MODULE MCRules -------------------------------
(***************************************************************************)
(* Every trick that can be laid from a small deck, in every kind of round: *)
(* the loops of GameRules::whoTakes against its definition in GameRules,   *)
(* and the charge against the card-by-card price list of module Kierki.    *)
(* The same tricks are written, sent and read by the operators of Codec.   *)
(***************************************************************************)
EXTENDS Codec

VARIABLES tab, mode, no, lead
vars == <<tab, mode, no, lead>>

Deck == [val : {2, 10, King}, col : {"H", "S"}] \cup {[val |-> Queen, col |-> "H"], [val |-> Jack, col |-> "C"]}

Init == tab = <<>> /\ mode \in RoundTypes /\ no \in {1, 7, 10, TricksPerRound} /\ lead \in Sides
Lay == Len(tab) < NSides /\ \E card \in Deck : tab' = Append(tab, card) /\ UNCHANGED <<mode, no, lead>>
Spec == Init /\ [][Lay]_vars

Prices == INSTANCE Kierki WITH Rounds <- <<>>, round <- 1, plays <- <<>>, totals <- <<>>

\* The two loops of whoTakes: the running best card, then takerIx steps
\* round the table.
takerIxLoop(table) ==
    FoldLeft(LAMBDA best, i : IF /\ table[i].col = table[1].col
                                 /\ table[i].val > table[best].val THEN i ELSE best,
             1, [i \in 1 .. NSides - 1 |-> i + 1])

takerLoop(table) ==
    FoldLeft(LAMBDA s, i : nxtSide(s), lead, [i \in 1 .. takerIxLoop(table) - 1 |-> i])

\* whoTakes names the side the loops of the code find, ties and off-colour
\* cards of a higher rank included.
LoopsFindTaker ==
    Len(tab) = NSides => whoTakes(lead, tab, mode, no).side = takerLoop(tab)

\* The price of a trick is the sum over its cards and its number, in every
\* mode; trick 7 and the last one are the late ones.
PenaltyAddsUp ==
    Len(tab) = NSides =>
        whoTakes(lead, tab, mode, no).pen
          = Prices!Price(mode, no, tab)

-----------------------------------------------------------------------------
(* Messages.  Once for each table and trick number is enough.              *)

Once == mode = 1 /\ lead = 0
Asked == [no |-> no, cards |-> tab]

\* A prompt, a card, a refusal and an introduction are read as what was sent,
\* whatever the number and the ranks run into, and a trick after the last one
\* is not read as an earlier one.
PromptsRead ==
    Once => /\ Len(tab) < NSides => readTrickS(genTrick(tab, no)) = Asked
            /\ Len(tab) < NSides => readTrickS(genTrick(tab, TricksPerRound + 1)) = Nothing
            /\ Len(tab) = 1 => readTrickC(genTrick(tab, no)) = Asked
            /\ readWrong(genWrong(no)) = no
            /\ \A s \in Sides : readSides(genIntro(s)) = <<s>>

\* So are a trick that was taken, which is read from its end, scores, which
\* may be zero or have several digits, and the sides of BUSY.
ScoreOf(card) == IF card.col = "H" THEN 10 * card.val ELSE card.val - 2
Scores(order) == [i \in 1 .. NSides |-> [side |-> order[i], score |-> ScoreOf(tab[i])]]

ResultsRead ==
    Once /\ Len(tab) = NSides =>
        /\ \A s \in Sides :
             readTaken(genTaken(tab, s, no)) = [no |-> no, cards |-> tab, side |-> s]
        /\ \A order \in {<<0, 1, 2, 3>>, <<2, 0, 3, 1>>} :
             /\ readScore(genScore(Scores(order))) = Scores(order)
             /\ readSides(genBusy(order)) = order

\* The hands of the scenario file reach the clients: each side's line is read
\* into its hand, and the DEAL made of it is read as the same cards.
HandOf(s) == [i \in 1 .. TricksPerRound |-> tab[((i + s) % Len(tab)) + 1]]
RoundIn(start) == [mode |-> (no % 7) + 1, start |-> start, hands |-> [s \in Sides |-> HandOf(s)]]
Written(r) ==
    <<toString[r.mode] \o sideText(r.start)>>
      \o [i \in 1 .. NSides |-> cardsText(r.hands[<<0, 2, 3, 1>>[i]])]

HandsArrive ==
    Once /\ tab # <<>> =>
        LET rounds == <<RoundIn(0), RoundIn(3)>>
        IN  /\ parseScenario(Written(rounds[1]) \o Written(rounds[2])) = rounds
            /\ \A s \in Sides : readDeal(genDeal(rounds[1].mode, s, HandOf(s)))
                               = [mode |-> rounds[1].mode, start |-> s, cards |-> HandOf(s)]
=============================================================================
