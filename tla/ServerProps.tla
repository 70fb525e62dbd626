----------------------------- MODULE ServerProps -----------------------------
(***************************************************************************)
(* What must hold of the running server: its seats, its threads, the       *)
(* message streams its clients see, its timers and its end.                *)
(***************************************************************************)
EXTENDS IOWorker, GameProps

Maybe(S, x) == S \cup {x}

\* Every variable of the manager, the server and the loops has its type.
TypeOK ==
    /\ GameTypeOK
    /\ nextIx \in 1 .. MaxWorkers
    /\ workers \subseteq 0 .. nextIx - 1
    /\ roles \in [Workers -> Maybe(Status, "none")]
    /\ toErase \subseteq workers
    /\ joining \subseteq Workers \ workers
    /\ clearThreads \in Nat
    /\ killFlag \in [Workers -> BOOLEAN] /\ pipe \in [Workers -> BOOLEAN]
    /\ cleaner \in {"wait", "join", "lastJoin", "done"}
    /\ activeSides \in [Sides -> Maybe(Workers, NoWorker)]
    /\ workerToSide \in [Workers -> Maybe(Sides, NoSide)]
    /\ zombieWorkerToSide \in [Workers -> Maybe(Sides, NoSide)]
    /\ playersConnected \in 0 .. NSides
    /\ lastDeal = <<>> \/ lastDeal \in [Sides -> SUBSET Card]
    /\ {exiting, finishFlag, crashed} \subseteq BOOLEAN
    /\ exitCode \in {0, 1}
    /\ pc \in [Workers -> {"none", "poll", "socket", "drain", "send", "lastSend", "exit",
                           "failed", "quitting", "arm", "lastArm", "final", "ended"}]
    /\ conn \in [Workers -> {"open", "quit", "closed"}]
    /\ {err, armed, resp} \subseteq [Workers -> BOOLEAN]

-----------------------------------------------------------------------------
(* Seats and threads.                                                      *)

\* The three ways the server knows its players agree: the count the whole
\* game waits on, the map from sides, and the workers' roles and sides.
\* Arrivals, departures and kills of several threads change them, in
\* playerIntro and grandExitCallback.
SeatsAgree ==
    /\ playersConnected = Cardinality({s \in Sides : activeSides[s] # NoWorker})
    /\ \A w \in Workers :
         /\ roles[w] = "SERVING_ACTIVE" <=> workerToSide[w] # NoSide
         /\ \A s \in Sides : activeSides[s] = w <=> workerToSide[w] = s

\* A side is never left to a worker whose thread has gone or is about to be
\* joined: what is sent to a side reaches a live queue, and workers.at does
\* not throw in the middle of a broadcast.  A thread that met an internal
\* error keeps its seat, and the server is ending.
SeatedWorkerLives ==
    \A s \in Sides :
        activeSides[s] # NoWorker /\ ~(err[activeSides[s]] /\ exiting) =>
            /\ activeSides[s] \in workers \ toErase
            /\ pc[activeSides[s]] # "ended"

\* The cleaner joins only threads that are past their loop: eraseWorker is
\* never followed by another iteration, so waitForClearing cannot block on a
\* live worker.  It also takes each worker once.
JoinedIsOver ==
    \A w \in toErase \cup joining :
        /\ roles[w] = "SHUTDOWN"
        /\ pc[w] \in {"final", "ended"}

\* The game moves only by the thread of the side to move, and only while
\* every side is taken: no zombie, no stranger and no second connection of
\* the same side gets a card onto the table.
OnlyTheMoverMoves ==
    [][gameVars' # gameVars =>
         /\ ~Incomplete
         /\ activeSides[nextMove] # NoWorker
         /\ workerToSide[activeSides[nextMove]] = nextMove
         /\ pc'[activeSides[nextMove]] # pc[activeSides[nextMove]]]_vars

\* The process is never ended by an exception out of a map lookup.
NeverThrows == ~crashed

-----------------------------------------------------------------------------
(* Wake-ups.                                                               *)

Asleep(w) == pc[w] = "poll" /\ ~pipe[w]

\* A thread that sleeps has nothing to do: no queued job, no kill order it
\* has not obeyed and, once all sides are taken, nothing that had to wait
\* for the table to be complete.  The pipe is read before the queue is
\* drained, and playerIntro wakes those it held up.
NobodySleepsOnWork ==
    \A w \in workers : Asleep(w) =>
        /\ jobs[w] = <<>>
        /\ killFlag[w] => conn[w] = "closed"
        /\ roles[w] = "SERVING_ACTIVE" /\ ~Incomplete => pin[w] = None /\ pout[w] = <<>>

\* Messages that are on their way to the client of w.
Coming(w) == pout[w] \o jobs[w]

\* While the table is complete the side to move has been asked, is being
\* asked, or has answered: the game cannot wait for a client that waits for
\* the server, whatever left, came back or was sent twice before.
MoverIsAsked ==
    ~Incomplete /\ lastDeal # <<>> /\ ~exiting =>
        LET w == activeSides[nextMove]
        IN  conn[w] = "open" =>
              \/ pin[w] # None
              \/ asked[w] # <<>>
              \/ \E i \in DOMAIN Coming(w) : Coming(w)[i].type \in {"TRICK", "WRONG"}

\* With a timeout, a mover that sleeps on an unanswered prompt is on a timer:
\* every path of the loop that clears it leads to a new prompt.
MoverIsOnTimer ==
    ~Incomplete /\ lastDeal # <<>> /\ ~exiting =>
        LET w == activeSides[nextMove]
        IN  Asleep(w) /\ conn[w] = "open" => armed[w]

\* A thread that waits with a message pending watches its pipe only, as the
\* comment at io_worker.cpp:80 promises: a descriptor that is not its own
\* would wake it again and again.
NoForeignPoll == \A w \in workers : pc[w] = "poll" => PolledFd(w) # StdOut

-----------------------------------------------------------------------------
(* What the clients are told.                                              *)

\* The messages deal the hand and then tell the tricks, in this order; no
\* other hand and no other trick comes after it.
Tells(ms, mode, hand, tricks) ==
    \E deal \in DOMAIN ms : \E at \in [DOMAIN tricks -> deal + 1 .. Len(ms)] :
        /\ ms[deal].type = "DEAL" /\ ms[deal].mode = mode /\ ms[deal].cards = hand
        /\ \A i, j \in DOMAIN tricks : i < j => at[i] < at[j]
        /\ \A i \in DOMAIN tricks : ms[at[i]] = tricks[i]
        /\ \A k \in deal + 1 .. Len(ms) : ms[k].type \in {"DEAL", "TAKEN"} => \E i \in DOMAIN tricks : at[i] = k

Stream(w) == told[w] \o Coming(w)

\* What the client of a side has been told, what is on its way and what is
\* queued for it add up to its hand and every trick taken, in order, once:
\* for those who were there and for those who came back in the middle.
StreamTellsRound ==
    lastDeal # <<>> =>
        \A s \in Sides :
            LET w == activeSides[s]
            IN  w # NoWorker /\ conn[w] = "open" =>
                  Tells(Stream(w), roundMode, Deal.hands[s], takenInRound)

\* The last thing the client of a side hears before the server closes the
\* connection at the end of the game is its final total: the kill order does
\* not overtake the scores.
FinalScores ==
    \A w \in Workers : zombieWorkerToSide[w] # NoSide /\ w \notin Leavers =>
        /\ GameOver
        /\ told[w] # <<>> /\ told[w][Len(told[w])] = TotalMsg(penalties)

\* No client hears of a trick that parseNetMsg, which server and clients
\* share, has no number for (RN_, network_msg_parser.cpp:18).
NumbersAreKnown ==
    \A w \in Workers : \A i \in DOMAIN asked[w] : asked[w][i] \in 1 .. TricksPerRound

-----------------------------------------------------------------------------
(* The end.                                                                *)

\* A worker that was told to go and sleeps all the same is a zombie: only
\* the exit rule for CLEANUP and CLEANUP_UNKNOWN can keep a thread from
\* ending.
OnlyZombiesLinger ==
    \A w \in workers \ toErase : exiting /\ killFlag[w] /\ Asleep(w) =>
        roles[w] \in {"CLEANUP", "CLEANUP_UNKNOWN"}

\* Threads run, the cleaner runs, and clients that have connected answer.
Fairness ==
    /\ \A w \in Workers : WF_vars(threadStep(w)) /\ WF_vars(wakeBySocket(w))
    /\ WF_vars(cleanerTakes) /\ WF_vars(cleanerJoins)

LiveSpec == Spec /\ Fairness

\* With clients that play to the end the server ends, all threads joined,
\* with exit code 0.
ServerEnds == <>(cleaner = "done" /\ workers = {} /\ exitCode = 0)
=============================================================================
