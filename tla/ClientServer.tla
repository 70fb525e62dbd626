----------------------------- MODULE ClientServer -----------------------------
(***************************************************************************)
(* The clients of module Client at the table of module Server.  The loops  *)
(* of the worker threads are reduced to what their module shows of them:   *)
(* each connection carries its messages in order, a callback is one step,  *)
(* a message that a callback does not deal with waits, and nothing is sent *)
(* while a side is free.  jobs[w] is everything on its way to client w,    *)
(* up[w] everything on its way from it.  The listener and the cleaner have *)
(* no part in a game and are left out.                                     *)
(***************************************************************************)
EXTENDS Server, Client

CONSTANTS
    Seat,        \* the side each client asks for
    Frail,       \* clients that may break down while there is somebody to come for their side
    MaxUnread    \* bound: messages on their way to a client that is asked again

ASSUME TableAssumption ==
    /\ Clients = Workers \ {Proxy}
    /\ Seat \in [Clients -> Sides]
    /\ Frail \subseteq Clients
    /\ MaxUnread \in Nat

VARIABLE link    \* "none", "open", "left" by the client, "shut" by the server

allVars == <<gameVars, serverVars, mgrVars, playerVars, link>>
setLink(w, state) == link' = [link EXCEPT ![w] = state]

TableInit ==
    /\ ServerInit
    /\ ClientInit
    /\ link = [w \in Clients |-> "none"]

-----------------------------------------------------------------------------
Rivals(w) == {v \in Clients : Seat[v] = Seat[w]}

\* The next client connects, while there is a game; not between the end of a
\* player and the moment the server learns of it.
connect(w) ==
    /\ w = nextIx /\ ~GameOver
    /\ \A v \in Rivals(w) : link[v] # "left"
    /\ forwardConnection
    /\ introduce(w, Seat[w])
    /\ setLink(w, "open")
    /\ UNCHANGED cleanerVars

\* socketAction: the worker deals with the first message that has come.
serve(w) ==
    /\ link[w] \in {"open", "left"} /\ up[w] # <<>>
    /\ LET m == Head(up[w])
       IN  \/ m.type = "IAM" /\ playerIntro(m.side, w, TRUE)
           \/ m.type = "TRICK" /\ playerTricked(m.trickNo, m.card, w, TRUE)
    /\ up' = [up EXCEPT ![w] = Tail(@)]
    /\ UNCHANGED <<cleanerVars, stage, waitingForCard, promptNo, handVars, running, exitFlag, link>>

\* handleQueue and the client's recv: the first message on its way arrives.
deliverNext(w) ==
    /\ link[w] = "open" /\ jobs[w] # <<>> /\ ~Suspended
    /\ hear(w, Head(jobs[w]))
    /\ jobs' = [jobs EXCEPT ![w] = Tail(@)]
    /\ setLink(w, IF running'[w] THEN "open" ELSE "left")
    /\ UNCHANGED <<gameVars, serverVars, tableVars, killFlag, pipe, cleanerVars>>

\* A person types a card, also an answer to each of several prompts for the
\* same trick.
typeOneOf(w, cards) ==
    /\ \E card \in cards : typeCard(w, card)
    /\ UNCHANGED <<gameVars, serverVars, mgrVars, link>>

type(w) == typeOneOf(w, localHand[w])
typeWell(w) == typeOneOf(w, Fitting(localHand[w], table))

\* The worker's timer: the side to move is asked again.
askAgain(w) ==
    /\ link[w] = "open" /\ roles[w] = "SERVING_ACTIVE"
    /\ Len(jobs[w]) < MaxUnread
    /\ handleTimeout(w)
    /\ UNCHANGED <<cleanerVars, playerVars, link>>

\* A client ends without being told to.
breakDown(w) ==
    /\ w \in Frail /\ running[w]
    /\ \E v \in Rivals(w) : link[v] = "none"
    /\ crash(w)
    /\ setLink(w, IF link[w] = "open" THEN "left" ELSE "shut")
    /\ UNCHANGED <<gameVars, serverVars, mgrVars>>

\* Its worker reads what had come and then the end of file.
notice(w) ==
    /\ link[w] = "left" /\ up[w] = <<>>
    /\ \E quit \in BOOLEAN : grandExitCallback(w, FALSE, FALSE, quit)
    /\ setLink(w, "shut")
    /\ UNCHANGED <<cleanerVars, playerVars>>

\* A worker with a kill order closes the connection after the last message.
close(w) ==
    /\ killFlag[w]
    /\ link[w] = "open" /\ jobs[w] = <<>>
    /\ \E quit \in BOOLEAN : grandExitCallback(w, FALSE, FALSE, quit)
    /\ setLink(w, "shut")
    /\ UNCHANGED <<cleanerVars, playerVars>>

endOfFile(w) ==
    /\ link[w] = "shut" /\ running[w]
    /\ eof(w)
    /\ UNCHANGED <<gameVars, serverVars, mgrVars, link>>

TableNext ==
    /\ ~crashed
    /\ \E w \in Clients :
         \/ connect(w) \/ serve(w) \/ deliverNext(w) \/ type(w) \/ askAgain(w)
         \/ breakDown(w) \/ notice(w) \/ close(w) \/ endOfFile(w)

TableSpec == TableInit /\ [][TableNext]_allVars

\* Connections are made, messages arrive, threads and clients run, and people
\* follow suit in the end.  Nobody has to break down or to be asked again.
TableFairness ==
    \A w \in Clients :
        /\ WF_allVars(connect(w)) /\ WF_allVars(serve(w)) /\ WF_allVars(deliverNext(w))
        /\ WF_allVars(notice(w)) /\ WF_allVars(close(w)) /\ WF_allVars(endOfFile(w))
        /\ SF_allVars(typeWell(w))

TableLiveSpec == TableSpec /\ TableFairness

-----------------------------------------------------------------------------
(* What must hold between a client and the server.                         *)

Quiet(w) == running[w] /\ link[w] = "open" /\ up[w] = <<>> /\ jobs[w] = <<>>
Playing(w) == lastDeal # <<>> /\ workerToSide[w] # NoSide
OnTheTable == {table[i] : i \in DOMAIN table}

\* A player's own hand, which it keeps by guesses from the order of messages,
\* is the server's hand whenever nothing is on its way between them.  Only a
\* newcomer may still hold the card its predecessor has on the table.
\* Departures and the replay of a round lie between, and prompts repeated to
\* an automatic player, which never hurries.  Of people it is true of those
\* who, asked again, wait until it is known what became of their last card.
HandKept ==
    \A w \in Clients : Playing(w) /\ Quiet(w) /\ ~hurried[w] =>
        localHand[w] \ OnTheTable = hands[workerToSide[w]]

\* "Available cards", says PlayerConsole of the hand it keeps, also to people
\* who hurry: who is asked has every card there that the server has for it.
AvailableCards ==
    \A w \in Console : Playing(w) /\ Quiet(w) /\ waitingForCard[w] =>
        hands[workerToSide[w]] \subseteq localHand[w]

\* An automatic player is never told WRONG: it answers each prompt once,
\* with a legal card, even if it is asked twice or takes over a side in
\* mid-trick.
NeverWrong ==
    \A w \in Automatic : \A i \in DOMAIN jobs[w] : jobs[w][i].type # "WRONG"

\* It is never asked for a card with an empty hand, of which
\* Strategy::nextMove would take the front.
AskedWithCards ==
    \A w \in Automatic : running[w] /\ jobs[w] # <<>> =>
        LET m == Head(jobs[w])
        IN  m.type = "TRICK" /\ Readable(m) /\ ~Repeated(w, m.trickNo) => localHand[w] # {}

\* A client that ends has been told it was busy or has heard the last
\* totals; exit code 0 means the totals.  Only a client seated when the game
\* was over already hears just the tricks of the last round.
Latecomer(w) == stage[w] = "AFTER_FIRST_DEAL"

ExitTells ==
    \A w \in Clients : link[w] # "none" /\ ~running[w] =>
        /\ exitFlag[w] = 0 => GameOver /\ stage[w] = "AFTER_TOTAL"
        /\ \/ w \in Frail
           \/ stage[w] = "PRE" /\ exitFlag[w] = 1
           \/ GameOver /\ (stage[w] = "AFTER_TOTAL" \/ Latecomer(w))

\* The game is played to its end and every client ends, whoever breaks down,
\* as long as somebody comes for the side that became free, unless people
\* hurry and lose their cards.
PlayersFinish == [](\A w \in Clients : ~hurried[w]) => <>[](GameOver /\ \A w \in Clients : ~running[w])
=============================================================================
