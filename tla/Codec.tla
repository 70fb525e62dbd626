-------------------------------- MODULE Codec --------------------------------
(***************************************************************************)
(* What server and clients write to each other: SendJob::genMsg,           *)
(* parseNetMsg, and parseScenario, which reads cards the same way.         *)
(*                                                                         *)
(* A text is a sequence of characters, without its type prefix and its     *)
(* line end.  Nothing separates a number from the cards behind it, and a   *)
(* ten has three characters, so a reader has to find out where things end. *)
(***************************************************************************)
EXTENDS GameRules, SequencesExt

Digit == <<"0", "1", "2", "3", "4", "5", "6", "7", "8", "9">>
Digits == Range(Digit)
SideName == <<"N", "E", "S", "W">>
Letter == [v \in {Jack, Queen, King, Ace} |-> <<"J", "Q", "K", "A">>[v - 10]]

\* std::to_string; atoi, which stops at the first character that is no digit.
toString[n \in Nat] ==
    IF n < 10 THEN <<Digit[n + 1]>> ELSE Append(toString[n \div 10], Digit[(n % 10) + 1])
atoi(text) ==
    LET value[p \in 0 .. Len(text)] ==
          IF p = 0 THEN 0 ELSE 10 * value[p - 1] + (CHOOSE d \in 0 .. 9 : Digit[d + 1] = text[p])
        stops == {p \in DOMAIN text : text[p] \notin Digits}
    IN  value[IF stops = {} THEN Len(text) ELSE Min(stops) - 1]

\* std::string::substr: n characters from place p on, or as many as there are.
substr(text, p, n) == SubSeq(text, p, IF p + n - 1 <= Len(text) THEN p + n - 1 ELSE Len(text))

sideText(s) == <<SideName[s + 1]>>
sideOf(ch) == CHOOSE s \in Sides : SideName[s + 1] = ch

rankText(v) == IF v \in DOMAIN Letter THEN <<Letter[v]>> ELSE toString[v]
cardText(card) == Append(rankText(card.val), card.col)
cardsText(cards) == FlattenSeq([i \in DOMAIN cards |-> cardText(cards[i])])

\* Card::fromString.  A rank that VALUES does not have throws: NoRank.
NoRank == 0
fromString(text) ==
    LET ranks == {v \in 2 .. Ace : rankText(v) = Front(text)}
    IN  [val |-> IF ranks = {} THEN NoRank ELSE CHOOSE v \in ranks : TRUE, col |-> Last(text)]

-----------------------------------------------------------------------------
(* genMsg.                                                                 *)

genIntro(side) == sideText(side)
genBusy(taken) == FlattenSeq([i \in DOMAIN taken |-> sideText(taken[i])])
genDeal(mode, start, cards) == toString[mode] \o sideText(start) \o cardsText(cards)
genTrick(table, no) == toString[no] \o cardsText(table)
genTaken(table, side, no) == toString[no] \o cardsText(table) \o sideText(side)
genWrong(no) == toString[no]

\* In the order of the hash table, whatever it is.
genScore(scores) ==
    FlattenSeq([i \in DOMAIN scores |-> sideText(scores[i].side) \o toString[scores[i].score]])

-----------------------------------------------------------------------------
(* The patterns: the places a match of the beginning can have come to.     *)

Past(text, places, chars) == {p \in DOMAIN text : p - 1 \in places /\ text[p] \in chars}

Ranks == {Digit[i] : i \in 3 .. 10} \cup {"J", "Q", "K", "A"}
PastCard(text, places) ==
    Past(text, Past(text, places, Ranks) \cup Past(text, Past(text, places, {"1"}), {"0"}), Colors)
PastNumber(text, places) ==
    Past(text, places, Digits \ {"0"})
      \cup Past(text, Past(text, places, {"1"}), {"0", "1", "2", "3"})
PastSide(text, places) == Past(text, places, Range(SideName))
PastScore(text, places) ==
    Past(text, places, {"0"})
      \cup {q \in DOMAIN text :
              \E p \in Past(text, places, Digits \ {"0"}) :
                 p <= q /\ \A i \in p .. q : text[i] \in Digits}

PastCards(text, places, n) == FoldLeft(LAMBDA at, i : PastCard(text, at), places, [i \in 1 .. n |-> i])
PastScores(text) ==
    FoldLeft(LAMBDA at, s : PastScore(text, PastSide(text, at)), {0}, [i \in 1 .. NSides |-> i])

isTrickS(text) == \E n \in 0 .. NSides - 1 : Len(text) \in PastCards(text, PastNumber(text, {0}), n)
isTrickC(text) == Len(text) \in PastCard(text, PastNumber(text, {0}))
isWrong(text) == Len(text) \in PastNumber(text, {0})
isTaken(text) == Len(text) \in PastSide(text, PastCards(text, PastNumber(text, {0}), NSides))
isScore(text) == Len(text) \in PastScores(text)
isDeal(text) ==
    Len(text) \in PastCards(text, PastSide(text, Past(text, {0}, {Digit[i] : i \in 2 .. 8})), TricksPerRound)

-----------------------------------------------------------------------------
(* parseNetMsg and what its callers make of its strings.  A text that      *)
(* matches no pattern gives Nothing.                                       *)

Nothing == "nothing"

\* From the left a card that begins with 1 is a ten.
CardLenTwo(text, p) == 2                         \* broken variant
CardLen(text, p) == IF text[p] = "1" THEN 3 ELSE 2

cardsFrom(text, first) ==
    LET cards[p \in Nat] ==
          IF p > Len(text) THEN <<>>
          ELSE <<fromString(substr(text, p, CardLen(text, p)))>> \o cards[p + CardLen(text, p)]
    IN  cards[first]

\* From the right a card with a 0 before its colour is one.
lastCardLenTwo(text) == 2                        \* broken variant
lastCardLen(text) == IF text[Len(text) - 1] = "0" THEN 3 ELSE 2

\* The last n cards of a text, and what is before them.
cutCards(text, n) ==
    FoldLeft(LAMBDA r, i : LET rest == Len(r.text) - lastCardLen(r.text)
                           IN  [text |-> substr(r.text, 1, rest),
                                cards |-> <<fromString(substr(r.text, rest + 1, 3))>> \o r.cards],
             [text |-> text, cards |-> <<>>], [i \in 1 .. n |-> i])

\* The length of the number before the cards on the table: the third
\* character tells.
numberLenNoTen(text) ==                          \* broken variant
    IF Len(text) <= 2 THEN Len(text) ELSE IF text[3] \in Colors THEN 1 ELSE 2
numberLen(text) ==
    IF Len(text) <= 2 THEN Len(text) ELSE IF text[3] \in Colors \cup {"0"} THEN 1 ELSE 2

readTrickS(text) ==
    IF ~isTrickS(text) THEN Nothing
    ELSE [no |-> atoi(substr(text, 1, numberLen(text))), cards |-> cardsFrom(text, numberLen(text) + 1)]

readTrickC(text) ==
    IF ~isTrickC(text) THEN Nothing
    ELSE LET cut == cutCards(text, 1) IN [no |-> atoi(cut.text), cards |-> cut.cards]

readTaken(text) ==
    IF ~isTaken(text) THEN Nothing
    ELSE LET cut == cutCards(Front(text), NSides)
         IN  [no |-> atoi(cut.text), cards |-> cut.cards, side |-> sideOf(Last(text))]

readWrong(text) == IF ~isWrong(text) THEN Nothing ELSE atoi(text)

readDeal(text) ==
    IF ~isDeal(text) THEN Nothing
    ELSE [mode |-> atoi(substr(text, 1, 1)), start |-> sideOf(text[2]), cards |-> cardsFrom(text, 3)]

\* A side and a score that ends before the next character that is no digit.
readScore(text) ==
    LET lastDigit[p \in Nat] ==
          IF p < Len(text) /\ text[p + 1] \in Digits THEN lastDigit[p + 1] ELSE p
        next(r) == LET end == lastDigit[r.at + 1]
                   IN  [at |-> end + 1,
                        read |-> Append(r.read, [side |-> sideOf(text[r.at]),
                                                 score |-> atoi(substr(text, r.at + 1, end - r.at))])]
    IN  IF ~isScore(text) THEN Nothing
        ELSE FoldLeft(LAMBDA r, i : next(r), [at |-> 1, read |-> <<>>], [i \in 1 .. NSides |-> i]).read

readSides(text) == [i \in DOMAIN text |-> sideOf(text[i])]   \* IAM and BUSY

-----------------------------------------------------------------------------
(* parseScenario.  A round has a line for its mode and its first player    *)
(* and one for each side, in the order of sides_.                          *)

fileOrderByTurn == <<0, 1, 2, 3>>                \* broken variant
fileOrder == <<0, 2, 3, 1>>                      \* N, S, W, E

parseRound(head, lines) ==
    [mode |-> atoi(substr(head, 1, 1)),
     start |-> sideOf(head[2]),
     hands |-> [s \in Sides |-> cardsFrom(lines[CHOOSE i \in DOMAIN fileOrder : fileOrder[i] = s], 1)]]

parseScenario(lines) ==
    [r \in 1 .. Len(lines) \div (NSides + 1) |->
        LET first == (r - 1) * (NSides + 1) + 1
        IN  parseRound(lines[first], SubSeq(lines, first + 1, first + NSides))]
=============================================================================
