-------------------------------- MODULE Client --------------------------------
(***************************************************************************)
(* kierki-client: the messages Client::run takes from its socket, in the   *)
(* order they come, and what the automatic and the console player make of  *)
(* them.  A player keeps a hand of its own, which it never compares with   *)
(* the server's: cards leave it when they are chosen, come back on WRONG,  *)
(* and are taken out by TAKEN only until the first prompt.                 *)
(*                                                                         *)
(* Hands are sets.  Strategy::nextMove picks by position; over all orders  *)
(* of a hand it may pick any card of Fitting.                              *)
(***************************************************************************)
EXTENDS GameRules

CONSTANTS
    Clients,     \* one for every connection
    Console      \* those without -a: a person types the cards

ASSUME ClientAssumption == Console \subseteq Clients

VARIABLES
    stage,            \* GameStage
    waitingForCard,
    promptNo,         \* Client::trickNo: the trick a card is sent for
    localHand,
    lastCards,        \* cards sent, neither taken nor refused yet
    nextTrick,        \* automatic player: the first trick it has not played to
    hurried,          \* history, not in the program: the person has sent a card
                      \* before it was known what became of the one before it
    up,               \* messages written to the socket that the server has not read
    running,          \* the process runs
    exitFlag          \* its exit code once it has ended; 1 stands for any failure

handVars == <<localHand, lastCards, nextTrick, hurried>>
playerVars == <<stage, waitingForCard, promptNo, handVars, up, running, exitFlag>>

Stages == {"PRE", "AFTER_FIRST_DEAL", "AFTER_DEAL", "AFTER_TRICK", "AFTER_SCORE", "AFTER_TOTAL"}
Automatic == Clients \ Console

IamMsg(side) == [type |-> "IAM", side |-> side]
CardMsg(no, card) == [type |-> "TRICK", trickNo |-> no, card |-> card]

ClientInit ==
    /\ stage = [w \in Clients |-> "PRE"]
    /\ waitingForCard = [w \in Clients |-> FALSE]
    /\ promptNo = [w \in Clients |-> 1]
    /\ localHand = [w \in Clients |-> {}]
    /\ lastCards = [w \in Clients |-> <<>>]
    /\ nextTrick = [w \in Clients |-> 0]
    /\ hurried = [w \in Clients |-> FALSE]
    /\ up = [w \in Clients |-> <<>>]
    /\ running = [w \in Clients |-> FALSE]
    /\ exitFlag = [w \in Clients |-> 0]

\* Client::run up to its loop: the connection is made and IAM is sent.
introduce(w, side) ==
    /\ ~running[w]
    /\ running' = [running EXCEPT ![w] = TRUE]
    /\ up' = [up EXCEPT ![w] = <<IamMsg(side)>>]
    /\ UNCHANGED <<stage, waitingForCard, promptNo, handVars, exitFlag>>

-----------------------------------------------------------------------------
(* Cards.                                                                  *)

\* Strategy::nextMove: a card of the colour led if there is one.
AnyChoice(hand, tab) == hand                     \* broken variant
Fitting(hand, tab) ==
    LET following == {card \in hand : tab # <<>> /\ card.col = tab[1].col}
    IN  IF following = {} THEN hand ELSE following

\* The player lets go of the card and chooseCard sends it for trick no.
send(w, no, card) ==
    /\ localHand' = [localHand EXCEPT ![w] = @ \ {card}]
    /\ lastCards' = [lastCards EXCEPT ![w] = Append(@, card)]
    /\ up' = [up EXCEPT ![w] = Append(@, CardMsg(no, card))]
    /\ waitingForCard' = [waitingForCard EXCEPT ![w] = FALSE]

keepAll(w) ==
    /\ waitingForCard' = [waitingForCard EXCEPT ![w] = TRUE]
    /\ UNCHANGED <<localHand, lastCards, up>>

\* PlayerConsole::anyCmd with a card that is asked for and in the hand; any
\* other line changes nothing.  Cards that were sent before do not matter.
typeCard(w, card) ==
    /\ w \in Console /\ running[w]
    /\ waitingForCard[w]
    /\ card \in localHand[w]
    /\ send(w, promptNo[w], card)
    /\ hurried' = [hurried EXCEPT ![w] = @ \/ lastCards[w] # <<>>]
    /\ UNCHANGED <<stage, promptNo, nextTrick, running, exitFlag>>

\* The first n cards of a list, or as many as it has.
Oldest(cards, n) == {cards[i] : i \in DOMAIN cards \cap (1 .. n)}
dropOldest(w) == lastCards' = [lastCards EXCEPT ![w] = SubSeq(@, 2, Len(@))]

-----------------------------------------------------------------------------
(* The messages.                                                           *)

enter(w, st) == stage' = [stage EXCEPT ![w] = st]

\* lastCards is left as it is.
dealMsg(w, m) ==
    /\ m.type = "DEAL"
    /\ enter(w, IF stage[w] = "PRE" THEN "AFTER_FIRST_DEAL" ELSE "AFTER_DEAL")
    /\ localHand' = [localHand EXCEPT ![w] = m.cards]
    /\ nextTrick' = [nextTrick EXCEPT ![w] = IF w \in Automatic THEN 1 ELSE @]
    /\ UNCHANGED <<waitingForCard, promptNo, lastCards, hurried, up, running, exitFlag>>

\* The automatic player answers a prompt unless it has played to that trick.
AnswersAll(w, no) == FALSE                       \* broken variant
Repeated(w, no) == no < nextTrick[w]
TrickAfter(no) == no + 1

trickMsg(w, m) ==
    /\ m.type = "TRICK"
    /\ enter(w, "AFTER_TRICK")
    /\ promptNo' = [promptNo EXCEPT ![w] = m.trickNo]
    /\ IF w \in Console \/ Repeated(w, m.trickNo)
         THEN keepAll(w) /\ UNCHANGED nextTrick
         ELSE /\ \E card \in Fitting(localHand[w], m.table) : send(w, m.trickNo, card)
              /\ nextTrick' = [nextTrick EXCEPT ![w] = TrickAfter(m.trickNo)]
    /\ UNCHANGED <<hurried, running, exitFlag>>

\* A trick told before the first prompt is taken out of the hand; after that
\* the player has let go of its card already.
AppliesNever(w) == FALSE                         \* broken variant
Applies(w) == stage[w] = "AFTER_FIRST_DEAL"

takenMsg(w, m) ==
    /\ m.type = "TAKEN"
    /\ promptNo' = [promptNo EXCEPT ![w] = m.trickNo]
    /\ nextTrick' = [nextTrick EXCEPT ![w] = IF w \in Automatic THEN TrickAfter(m.trickNo) ELSE @]
    /\ IF Applies(w)
         THEN /\ localHand' = [localHand EXCEPT ![w] = @ \ Oldest(m.table, NSides)]
              /\ UNCHANGED lastCards
         ELSE dropOldest(w) /\ UNCHANGED localHand
    /\ UNCHANGED <<stage, waitingForCard, hurried, up, running, exitFlag>>

\* The oldest card sent comes back, whichever was refused.
wrongMsg(w, m) ==
    /\ m.type = "WRONG"
    /\ promptNo' = [promptNo EXCEPT ![w] = m.trickNo]
    /\ waitingForCard' = [waitingForCard EXCEPT ![w] = TRUE]
    /\ nextTrick' = [nextTrick EXCEPT ![w] = IF w \in Automatic THEN m.trickNo ELSE @]
    /\ localHand' = [localHand EXCEPT ![w] = @ \cup Oldest(lastCards[w], 1)]
    /\ dropOldest(w)
    /\ UNCHANGED <<stage, hurried, up, running, exitFlag>>

scoreMsg(w, m) ==
    /\ m.type \in {"SCORE", "TOTAL"}
    /\ enter(w, IF m.type = "SCORE" THEN "AFTER_SCORE" ELSE "AFTER_TOTAL")
    /\ UNCHANGED <<waitingForCard, promptNo, handVars, up, running, exitFlag>>

-----------------------------------------------------------------------------
(* The end.                                                                *)

finish(w, code) ==
    /\ running' = [running EXCEPT ![w] = FALSE]
    /\ exitFlag' = [exitFlag EXCEPT ![w] = code]
    /\ UNCHANGED <<stage, waitingForCard, promptNo, handVars>>

busyMsg(w, m) == m.type = "BUSY" /\ finish(w, 1) /\ UNCHANGED up

\* The server has closed the connection.
AlwaysWell(w) == 0                               \* broken variant
EofCode(w) == IF stage[w] = "AFTER_TOTAL" THEN 0 ELSE 1
eof(w) == finish(w, EofCode(w)) /\ UNCHANGED up

\* A system call throws, or the process is killed: what the socket has not
\* sent yet may be lost, from some message on.
crash(w) ==
    /\ finish(w, 1)
    /\ \E n \in 0 .. Len(up[w]) : up' = [up EXCEPT ![w] = SubSeq(@, 1, n)]

\* parseNetMsg knows trick numbers up to the last trick of a round.  Of any
\* other message it makes an empty list, and run reads the first element.
ReadsAll(m) == TRUE                              \* broken variant
Readable(m) == m.type \in {"TRICK", "WRONG"} => m.trickNo <= TricksPerRound
unreadableMsg(w, m) == ~Readable(m) /\ crash(w)

\* One message read from the socket.
hear(w, m) ==
    /\ running[w]
    /\ \/ unreadableMsg(w, m)
       \/ Readable(m) /\ (trickMsg(w, m) \/ wrongMsg(w, m))
       \/ dealMsg(w, m) \/ takenMsg(w, m) \/ scoreMsg(w, m) \/ busyMsg(w, m)

-----------------------------------------------------------------------------
\* Every variable of the clients has its type.
ClientTypeOK ==
    /\ stage \in [Clients -> Stages]
    /\ waitingForCard \in [Clients -> BOOLEAN]
    /\ promptNo \in [Clients -> 1 .. TricksPerRound]
    /\ localHand \in [Clients -> SUBSET Card]
    /\ nextTrick \in [Clients -> 0 .. TricksPerRound + 1]
    /\ \A w \in Clients : \A i \in DOMAIN lastCards[w] : lastCards[w][i] \in Card
    /\ hurried \in [Clients -> BOOLEAN]
    /\ running \in [Clients -> BOOLEAN]
    /\ exitFlag \in [Clients -> {0, 1}]
=============================================================================
