-------------------------------- MODULE Server --------------------------------
(***************************************************************************)
(* server/server.cpp: the callbacks the workers make.  Each takes          *)
(* gameStateMutex for its whole body, so each is one step.  A callback     *)
(* that answers the worker has the answer as its last parameter: `done'    *)
(* for "the message was dealt with", `quit' for "the thread may end".      *)
(*                                                                         *)
(* This module leaves the state of the workers' own loops alone; module    *)
(* IOWorker combines the two.                                              *)
(***************************************************************************)
EXTENDS Game, IOWorkerMgr

VARIABLES
    activeSides,         \* side -> its worker, NoWorker when free
    workerToSide,        \* worker -> the side it plays, or NoSide
    zombieWorkerToSide,  \* worker -> the side it played before its exit
    playersConnected,
    lastDeal,            \* the hands of the last DEAL, <<>> before the first
    exiting,
    exitCode,
    crashed              \* a callback threw: std::terminate ends the process

seatVars == <<activeSides, workerToSide, zombieWorkerToSide, playersConnected>>
serverVars == <<seatVars, lastDeal, exiting, exitCode, crashed>>

NoWorker == -1
NoSide == -1

ServerInit ==
    /\ GameInit
    /\ MgrInit
    /\ activeSides = [s \in Sides |-> NoWorker]
    /\ workerToSide = [w \in Workers |-> NoSide]
    /\ zombieWorkerToSide = [w \in Workers |-> NoSide]
    /\ playersConnected = 0
    /\ lastDeal = <<>>
    /\ exiting = FALSE
    /\ exitCode = 0
    /\ crashed = FALSE

-----------------------------------------------------------------------------
(* The messages of send_job.h, with the data the clients act on.           *)

DealMsg(mode, start, hand) == [type |-> "DEAL", mode |-> mode, start |-> start, cards |-> hand]
TrickMsg(tab, no) == [type |-> "TRICK", table |-> tab, trickNo |-> no]
WrongMsg(no) == [type |-> "WRONG", trickNo |-> no]
ScoreMsg(score) == [type |-> "SCORE", score |-> score]
TotalMsg(score) == [type |-> "TOTAL", score |-> score]
BusyMsg(sides) == [type |-> "BUSY", sides |-> sides]

\* The code waits for all four sides before it lets anything happen.
Incomplete == playersConnected < NSides
Suspended == Incomplete /\ ~exiting

\* What a handler sends, side by side, posted to the workers of the sides.
\* A message for a free side or a removed worker throws.
ToWorkers(at, f) ==
    [w \in Workers |-> IF \E s \in Sides : at[s] = w
                         THEN f[CHOOSE s \in Sides : at[s] = w] ELSE <<>>]

NoPost == [s \in Sides |-> <<>>]
Post(s, msgs) == [NoPost EXCEPT ![s] = msgs]
Misaddressed(at, f) == \E s \in Sides : f[s] # <<>> /\ at[s] \notin workers

post(f, killed) ==
    /\ deliver(ToWorkers(activeSides, f), killed, {})
    /\ crashed' = Misaddressed(activeSides, f)

\* A worker's own queue, or nothing but kill orders.
sendTo(w, msgs, killed) ==
    /\ deliver(Mail(w, msgs), killed, {})
    /\ crashed' = Unreachable(Mail(w, msgs), killed)

kill(killed) == sendTo(Proxy, <<>>, killed)
sendNothing == UNCHANGED queueVars /\ UNCHANGED crashed

\* finalize: the first call marks the server, the cleaner and every worker
\* for the end; ToStop is whom it kills.
ToStop == IF exiting THEN {} ELSE Stoppable
finalizeSilently == exiting' = TRUE /\ UNCHANGED finishFlag   \* broken variant
finalize == exiting' = TRUE /\ finishFlag' = TRUE

\* handleSysErr for an internal error, called with the mutex held.
internalError ==
    /\ exitCode' = 1
    /\ finalize
    /\ kill(ToStop)
    /\ UNCHANGED <<gameVars, seatVars, lastDeal, nextIx, workers, roles, toErase, clearThreads>>

-----------------------------------------------------------------------------
(* playerTricked.                                                          *)

\* The side the sender plays, or played.
SenderIsMover(w) == nextMove                     \* broken variant
SenderSide(w) == IF roles[w] = "SERVING_ACTIVE" THEN workerToSide[w] ELSE zombieWorkerToSide[w]
IsPlayer(w) == roles[w] \in {"SERVING_ACTIVE", "CLEANUP"}

\* The end of a round, told in this order, and the hand of the next.
\* (The broken variant deals first.)
LastTold(card) ==
    <<TakenMsg(card), ScoreMsg(RoundScore(card)), TotalMsg(NewTotals(card))>>
NewRoundDealtFirst(s, card) == <<DealMsg(roundMode', nextMove', hands'[s])>> \o LastTold(card)
NewRound(s, card) == LastTold(card) \o <<DealMsg(roundMode', nextMove', hands'[s])>>

\* What a legal card makes the server send, in order, to side s.
AfterCard(s, card) ==
    LET prompt == IF s = nextMove' THEN <<TrickMsg(table', trickNo')>> ELSE <<>>
    IN  CASE Len(table) + 1 < NSides -> prompt
          [] Len(table) + 1 = NSides /\ GameOver' -> LastTold(card)
          [] roundNumber' > roundNumber /\ ~GameOver' -> NewRound(s, card) \o prompt
          [] OTHER -> <<TakenMsg(card)>> \o prompt

\* The card is played.
acceptCard(card, w) ==
    /\ IsPlayer(w)
    /\ Play(SenderSide(w), card)
    /\ post([s \in Sides |-> AfterCard(s, card)], IF GameOver' THEN ToStop ELSE {})
    /\ lastDeal' = IF roundNumber' > roundNumber /\ ~GameOver' THEN hands' ELSE lastDeal
    /\ IF GameOver' THEN finalize ELSE UNCHANGED <<exiting, finishFlag>>
    /\ UNCHANGED <<seatVars, exitCode, nextIx, workers, roles, toErase, clearThreads>>

\* The wrong trick, the wrong side or an illegal card: WRONG to the side's
\* current worker.
rejectCard(no, card, w) ==
    /\ IsPlayer(w)
    /\ no # trickNo \/ ~mayPlay(SenderSide(w), card)
    /\ post(Post(SenderSide(w), <<WrongMsg(trickNo)>>), {})
    /\ UNCHANGED <<gameVars, seatVars, lastDeal, exiting, exitCode, tableVars>>

\* A card from a connection that never introduced itself.
refuseStranger(w) ==
    /\ roles[w] = "SERVING_UNKNOWN"
    /\ setRole(w, "CLEANUP_UNKNOWN")
    /\ kill({w})
    /\ UNCHANGED <<gameVars, seatVars, lastDeal, exiting, exitCode,
                   nextIx, workers, toErase, clearThreads, finishFlag>>

ignoreCard(w) ==
    /\ roles[w] \in {"CLEANUP_UNKNOWN", "SHUTDOWN"}
    /\ UNCHANGED <<gameVars, serverVars, tableVars, queueVars>>

playerTricked(no, card, w, done) ==
    \/ Incomplete /\ ~done /\ UNCHANGED <<gameVars, serverVars, tableVars, queueVars>>
    \/ /\ ~Incomplete
       /\ done
       /\ \/ no = trickNo /\ acceptCard(card, w)
          \/ rejectCard(no, card, w)
          \/ refuseStranger(w)
          \/ ignoreCard(w)

-----------------------------------------------------------------------------
(* playerIntro.                                                            *)

\* What an arrival makes the server send to side s: the first time all sides
\* are taken everybody's hand, later the story of the round to the newcomer;
\* and the prompt to the side to move when the table is complete.
Starts == playersConnected + 1 = NSides /\ lastDeal = <<>>
Resumes == playersConnected + 1 = NSides /\ lastDeal # <<>>

PromptNow(s) == IF s = nextMove THEN <<TrickMsg(table, trickNo)>> ELSE <<>>

StoryWithoutTricks(s) == <<DealMsg(roundMode, nextMove, lastDeal[s])>>   \* broken variant
Story(s) == <<DealMsg(roundMode, nextMove, lastDeal[s])>> \o takenInRound

\* Broken variant: a game that resumes does not ask again.
IntroPostUnasked(side) ==
    [s \in Sides |->
        IF Starts THEN <<DealMsg(roundMode, nextMove, hands[s])>> \o PromptNow(s)
        ELSE IF s = side /\ lastDeal # <<>> THEN Story(s) ELSE <<>>]

IntroPost(side) ==
    [s \in Sides |->
        IF Starts THEN <<DealMsg(roundMode, nextMove, hands[s])>> \o PromptNow(s)
        ELSE (IF s = side /\ lastDeal # <<>> THEN Story(s) ELSE <<>>)
               \o (IF Resumes THEN PromptNow(s) ELSE <<>>)]

\* The worker takes the free side; a game that resumes wakes the workers that
\* were held up.
takeSide(side, w) ==
    LET at == [activeSides EXCEPT ![side] = w]
        heldUp == {"SERVING_ACTIVE", "CLEANUP_UNKNOWN", "SERVING_UNKNOWN"}
    IN  /\ roles[w] = "SERVING_UNKNOWN"
        /\ activeSides[side] = NoWorker
        /\ activeSides' = at
        /\ workerToSide' = [workerToSide EXCEPT ![w] = side]
        /\ setRole(w, "SERVING_ACTIVE")
        /\ playersConnected' = playersConnected + 1
        /\ lastDeal' = IF Starts THEN hands ELSE lastDeal
        /\ deliver(ToWorkers(at, IntroPost(side)), {},
                   IF Resumes THEN WithRoles(heldUp) ELSE {})
        /\ crashed' = Misaddressed(at, IntroPost(side))
        /\ UNCHANGED <<gameVars, zombieWorkerToSide, exiting, exitCode,
                       nextIx, workers, toErase, clearThreads, finishFlag>>

\* The side is taken.
answerBusy(side, w) ==
    /\ roles[w] = "SERVING_UNKNOWN"
    /\ activeSides[side] # NoWorker
    /\ setRole(w, "CLEANUP_UNKNOWN")
    /\ sendTo(w, <<BusyMsg({s \in Sides : activeSides[s] # NoWorker})>>, {})
    /\ UNCHANGED <<gameVars, seatVars, lastDeal, exiting, exitCode,
                   nextIx, workers, toErase, clearThreads, finishFlag>>

\* IAM from a connection that has introduced itself before.
dismissRepeat(w) ==
    /\ roles[w] # "SERVING_UNKNOWN"
    /\ ~Incomplete
    /\ setRole(w, "CLEANUP")
    /\ kill({w})
    /\ UNCHANGED <<gameVars, seatVars, lastDeal, exiting, exitCode,
                   nextIx, workers, toErase, clearThreads, finishFlag>>

playerIntro(side, w, done) ==
    \/ /\ done
       /\ takeSide(side, w) \/ answerBusy(side, w) \/ dismissRepeat(w)
    \/ /\ ~done
       /\ roles[w] # "SERVING_UNKNOWN"
       /\ Incomplete
       /\ UNCHANGED <<gameVars, serverVars, tableVars, queueVars>>

-----------------------------------------------------------------------------
(* The other callbacks.                                                    *)

\* forwardConnection: a worker for an accepted connection.
forwardConnection ==
    /\ spawnNewWorker("SERVING_UNKNOWN")
    /\ UNCHANGED <<gameVars, serverVars, queueVars>>

\* handleWrongMessage: an unreadable message ends the connection.
handleWrongMessage(w, done) ==
    \/ Suspended /\ ~done /\ UNCHANGED <<gameVars, serverVars, tableVars, queueVars>>
    \/ /\ ~Suspended
       /\ done
       /\ kill({w})
       /\ UNCHANGED <<gameVars, seatVars, lastDeal, exiting, exitCode, tableVars>>

\* handleTimeout: a silent stranger is dropped, the side to move is asked
\* again.
handleTimeout(w) ==
    LET stranger == ~exiting /\ roles[w] = "SERVING_UNKNOWN"
        mover == /\ ~exiting
                 /\ roles[w] = "SERVING_ACTIVE"
                 /\ nextMove = workerToSide[w]
                 /\ ~Incomplete
    IN  /\ \/ stranger /\ kill({w})
           \/ mover /\ sendTo(w, <<TrickMsg(table, trickNo)>>, {})
           \/ ~stranger /\ ~mover /\ sendNothing
        /\ UNCHANGED <<gameVars, seatVars, lastDeal, exiting, exitCode, tableVars>>

-----------------------------------------------------------------------------
(* grandExitCallback: a worker that wants to end asks whether it may.      *)

leave(w) == setRole(w, "SHUTDOWN") /\ eraseWorker(w)

\* A player gives up its side; its thread lingers as a zombie while a
\* message is pending or too few players are left.
\* (The broken variants forget the count and the seat.)
freeSeatUncounted(w) ==
    /\ activeSides' = [activeSides EXCEPT ![workerToSide[w]] = NoWorker]
    /\ zombieWorkerToSide' = [zombieWorkerToSide EXCEPT ![w] = workerToSide[w]]
    /\ workerToSide' = [workerToSide EXCEPT ![w] = NoSide]
    /\ UNCHANGED playersConnected

freeSeatStillTaken(w) ==
    /\ playersConnected' = playersConnected - 1
    /\ zombieWorkerToSide' = [zombieWorkerToSide EXCEPT ![w] = workerToSide[w]]
    /\ workerToSide' = [workerToSide EXCEPT ![w] = NoSide]
    /\ UNCHANGED activeSides

freeSeat(w) ==
    /\ playersConnected' = playersConnected - 1
    /\ activeSides' = [activeSides EXCEPT ![workerToSide[w]] = NoWorker]
    /\ zombieWorkerToSide' = [zombieWorkerToSide EXCEPT ![w] = workerToSide[w]]
    /\ workerToSide' = [workerToSide EXCEPT ![w] = NoSide]

MustLinger(hasWork) == hasWork \/ (playersConnected - 1 < NSides - 1 /\ ~exiting)

leaveAnyway(w, quit) ==                          \* broken variant: a zombie is joined
    /\ setRole(w, IF quit THEN "SHUTDOWN" ELSE "CLEANUP")
    /\ eraseWorker(w)

leaveOrLinger(w, quit) ==
    IF quit THEN leave(w) ELSE setRole(w, "CLEANUP") /\ UNCHANGED <<toErase, clearThreads>>

playerLeaves(w, hasWork, quit) ==
    /\ roles[w] = "SERVING_ACTIVE"
    /\ freeSeat(w)
    /\ quit = ~MustLinger(hasWork)
    /\ leaveOrLinger(w, quit)
    /\ sendNothing
    /\ UNCHANGED <<exiting, finishFlag>>

\* A zombie may go only while all sides are taken and nothing is pending.
zombieLeaves(w, hasWork, quit) ==
    /\ roles[w] \in {"CLEANUP", "CLEANUP_UNKNOWN"}
    /\ quit = (~Incomplete /\ ~hasWork)
    /\ IF quit THEN leave(w) ELSE UNCHANGED <<roles, toErase, clearThreads>>
    /\ sendNothing
    /\ UNCHANGED <<seatVars, exiting, finishFlag>>

strangerWaits(w, quit) ==                        \* broken variant: the rule for zombies
    /\ roles[w] = "SERVING_UNKNOWN"
    /\ quit = ~Incomplete
    /\ IF quit THEN leave(w) ELSE UNCHANGED <<roles, toErase, clearThreads>>
    /\ sendNothing
    /\ UNCHANGED <<seatVars, exiting, finishFlag>>

strangerLeaves(w, quit) ==
    /\ roles[w] = "SERVING_UNKNOWN"
    /\ quit
    /\ leave(w)
    /\ sendNothing
    /\ UNCHANGED <<seatVars, exiting, finishFlag>>

\* The listener's end is the server's end.
proxyLeaves(w, quit) ==
    /\ roles[w] = "SERVING_PROXY"
    /\ quit
    /\ leave(w)
    /\ finalize
    /\ kill(ToStop \ {w})
    /\ UNCHANGED seatVars

goneAlready(w, quit) ==
    /\ roles[w] = "SHUTDOWN"
    /\ quit
    /\ sendNothing
    /\ UNCHANGED <<seatVars, roles, toErase, clearThreads, exiting, finishFlag>>

grandExitCallback(w, internalErr, hasWork, quit) ==
    \/ internalErr /\ quit /\ internalError
    \/ /\ ~internalErr
       /\ \/ playerLeaves(w, hasWork, quit)
          \/ zombieLeaves(w, hasWork, quit)
          \/ strangerLeaves(w, quit)
          \/ proxyLeaves(w, quit)
          \/ goneAlready(w, quit)
       /\ UNCHANGED <<gameVars, lastDeal, exitCode, nextIx, workers>>
=============================================================================
