------------------------------ MODULE SeatProofs ------------------------------
(***************************************************************************)
(* The running server, for any number of sides and connections and         *)
(* whatever system calls fail.  It plays the game: the variables of the    *)
(* game change by moves of module Game only, so what is proved of the game *)
(* holds of the server.  And it keeps its seats and the threads that hold  *)
(* them: no wake-up of a thread is lost, only zombies linger, and no       *)
(* thread but the mover's moves the game.                                  *)
(*                                                                         *)
(* A step of a thread changes the tables the threads share by one callback *)
(* at most.  It is first brought into one of five shapes, which keep of    *)
(* the loop only what the invariants speak of.                             *)
(***************************************************************************)
EXTENDS ServerProps, CallbackProofs

-----------------------------------------------------------------------------
(* The game.                                                               *)

\* A callback for a message of a client makes at most one move.
LEMMA CallbackPlays ==
    ASSUME GameTypeOK, NEW w \in Workers, NEW m, NEW done \in BOOLEAN, callback(m, w, done)
    PROVE  GameNext \/ UNCHANGED gameVars
<1>1. CASE handleWrongMessage(w, done)
  BY <1>1 DEF handleWrongMessage
<1>2. QED
  BY <1>1, CardPlays, IntroKeepsGame DEF callback

\* What a socket has for its thread makes at most one move.
LEMMA SocketPlays ==
    ASSUME GameTypeOK, NEW w \in Workers, socketReady(w)
    PROVE  GameNext \/ UNCHANGED gameVars
<1>1. CASE acceptAction(w)
  BY <1>1 DEF acceptAction, forwardConnection
<1>2. CASE receive(w)
  BY <1>2, CallbackPlays DEF receive, process
<1>3. CASE partOfMessage(w) \/ hangup(w)
  BY <1>3 DEF partOfMessage, noAction, hangup, sharedVars
<1>4. CASE overflow(w)
  BY <1>4, ExitKeepsGame DEF overflow
<1>5. QED
  BY <1>1, <1>2, <1>3, <1>4 DEF socketReady

\* A step of a thread by itself.
LEMMA ThreadPlays ==
    ASSUME GameTypeOK, NEW w \in Workers, threadStep(w)
    PROVE  GameNext \/ UNCHANGED gameVars
<1>1. CASE lookAtSocket(w)
  <2>1. CASE noAction(w)
    BY <2>1 DEF noAction, sharedVars
  <2>2. CASE process(w, pin[w])
    BY <2>2, CallbackPlays DEF process
  <2>3. CASE socketReady(w)
    BY <2>3, SocketPlays
  <2>4. QED
    BY <1>1, <2>1, <2>2, <2>3 DEF lookAtSocket
<1>2. CASE timeOut(w) \/ arm(w)
  BY <1>2, TimeoutKeepsGame DEF timeOut, arm, sharedVars
<1>3. CASE askExit(w) \/ final(w)
  BY <1>3, ExitKeepsGame DEF askExit, final
<1>4. CASE wakeByPipe(w) \/ drain(w) \/ obeyKill(w)
  BY <1>4 DEF wakeByPipe, drain, obeyKill
<1>5. CASE sendOne(w) \/ queueDone(w) \/ closeConn(w)
  BY <1>5 DEF sendOne, queueDone, closeConn, sharedVars
<1>6. QED
  BY <1>1, <1>2, <1>3, <1>4, <1>5 DEF threadStep

\* A step a client, standard output or a fault causes.
LEMMA OutsidePlays ==
    ASSUME GameTypeOK, NEW w \in Workers, outside(w) \/ fault(w)
    PROVE  GameNext \/ UNCHANGED gameVars
<1>1. CASE wakeBySocket(w)
  BY <1>1, SocketPlays DEF wakeBySocket
<1>2. CASE wakeByStdout(w)
  BY <1>2 DEF wakeByStdout, noAction, sharedVars
<1>3. CASE fault(w)
  BY <1>3 DEF fault, pollFails, pipeFails, sendFails, sharedVars
<1>4. QED
  BY <1>1, <1>2, <1>3 DEF outside

\* Every step of the server is a move of the game or leaves the game alone.
LEMMA StepPlays == GameTypeOK /\ [Next]_vars => [GameNext]_gameVars
<1> SUFFICES ASSUME GameTypeOK, [Next]_vars
             PROVE  GameNext \/ UNCHANGED gameVars
  OBVIOUS
<1>1. CASE \E w \in Workers : threadStep(w) \/ outside(w) \/ fault(w)
  BY <1>1, ThreadPlays, OutsidePlays
<1>2. CASE cleanerTakes \/ cleanerJoins
  BY <1>2 DEF cleanerTakes, cleanerJoins
<1>3. CASE UNCHANGED vars
  BY <1>3 DEF vars, sharedVars
<1>4. QED
  BY <1>1, <1>2, <1>3 DEF Next

\* The server implements the game: its threads can change it by legal moves
\* of the side to move only.
THEOREM ServerPlaysGame == Spec => GameSpec
<1>1. Init => GameInit
  BY DEF Init, ServerInit
<1>2. GameTypeOK /\ [GameNext]_gameVars => GameTypeOK'
  BY PlayType, TypeUnchanged DEF GameNext
<1>3. Spec => []GameTypeOK
  BY <1>1, <1>2, GameInitType, StepPlays, PTL DEF Spec
<1>4. QED
  BY <1>1, <1>3, StepPlays, PTL DEF Spec, GameSpec

\* In every state of the running server the side to move has a legal card
\* until the game is over.
THEOREM ServerCanGoOn == Spec => []MoverCanMove
BY ServerPlaysGame, MoveExists, PTL

\* In every state of the running server hands and counters agree.
THEOREM ServerStaysInStep == Spec => [](HandsInStep /\ CountersAgree)
<1>1. InStep => HandsInStep /\ CountersAgree
  BY DEF InStep
<1>2. QED
  BY <1>1, ServerPlaysGame, StaysInStep, PTL

\* In every state of the running server every card of the deal is in its
\* hand or has been played once, and no side has revoked.
THEOREM ServerKeepsRounds == Spec => [](CardsInOnePlace /\ NoRevoke)
BY ServerPlaysGame, CardsStayPut, NobodyRevokes, PTL

\* The running server deals, takes, charges and adds up as the players were
\* promised, whatever its threads, its clients and its faults do.
THEOREM ServerKeepsPromise == Spec => ImplementsKierki
BY ServerPlaysGame, GameImplementsKierki, PTL

\* In every state of the running server the points charged and the points
\* still to be charged make up what the deals are worth.
THEOREM ServerBalances == Spec => []LedgerBalances
BY ServerPlaysGame, BooksBalance, PTL

-----------------------------------------------------------------------------
(* The shape of a step.                                                    *)

LoopPlaces == {"poll", "socket", "drain", "send", "lastSend", "exit", "failed", "quitting",
               "arm", "lastArm", "final", "ended"}
Moves(w, x) == Set(pc, w, x)

\* Nothing but the thread's own state and its pipe.
Local(w) ==
    /\ pc[w] \notin {"none", "final", "ended"}
    /\ \E x \in LoopPlaces \ {"ended"} : Moves(w, x)
    /\ UNCHANGED <<serverVars, tableVars, killFlag, cleanerVars, pin, spoken>>
    /\ UNCHANGED pipe \/ Set(pipe, w, FALSE)
    /\ UNCHANGED err \/ \E e \in BOOLEAN : (err[w] => e) /\ Set(err, w, e)

\* A message of the client, new or pending.
Called(w) ==
    /\ pc[w] \in {"poll", "socket"}
    /\ Moves(w, "drain")
    /\ UNCHANGED <<cleanerVars, err>>
    /\ \E m : \E done \in BOOLEAN :
         /\ callback(m, w, done)
         /\ Set(pin, w, IF done THEN None ELSE m)
         /\ \/ m = pin[w] /\ m # None /\ UNCHANGED spoken
            \/ m \in Says(w) /\ w # Proxy /\ Set(spoken, w, spoken[w] + 1)

\* The exit callback.
Asked(w) ==
    /\ pc[w] \in {"poll", "socket", "exit", "failed", "quitting", "final"}
    /\ UNCHANGED <<cleanerVars, err, pin>>
    /\ UNCHANGED spoken \/ Set(spoken, w, spoken[w] + 1)
    /\ \E work \in BOOLEAN, quit \in BOOLEAN, x \in LoopPlaces :
         /\ grandExitCallback(w, err[w], work, quit)
         /\ Moves(w, x)
         /\ quit => x \in {"final", "ended"}
         /\ pc[w] = "final" <=> x = "ended"

\* The timer has run out.
TimedOut(w) ==
    /\ pc[w] \in {"poll", "arm", "lastArm"}
    /\ handleTimeout(w)
    /\ \E x \in {"poll", "final"} : Moves(w, x)
    /\ UNCHANGED <<cleanerVars, err, pin, spoken>>

\* The listener has a new connection.
Accepted(w) ==
    /\ pc[w] \in {"poll", "socket"}
    /\ forwardConnection
    /\ pc' = [pc EXCEPT ![w] = "drain", ![nextIx] = "poll"]
    /\ UNCHANGED <<cleanerVars, err, pin, spoken>>

Shaped(w) == Local(w) \/ Called(w) \/ Asked(w) \/ TimedOut(w) \/ Accepted(w)

\* The types of what the loop keeps.
LoopTypes ==
    /\ pc \in [Workers -> LoopPlaces \cup {"none"}]
    /\ conn \in [Workers -> {"open", "quit", "closed"}]
    /\ err \in [Workers -> BOOLEAN] /\ armed \in [Workers -> BOOLEAN] /\ resp \in [Workers -> BOOLEAN]

\* What a socket has for its thread has a shape.
LEMMA SocketShape ==
    ASSUME LoopTypes, NEW w \in Workers, pc[w] \in {"poll", "socket"},
           UNCHANGED <<cleanerVars, err>>, socketReady(w)
    PROVE  Shaped(w)
<1>1. CASE acceptAction(w)
  BY <1>1 DEF acceptAction, Shaped, Accepted, clientVars
<1>2. CASE w # Proxy /\ receive(w)
  BY <1>2 DEF receive, process, Speak, Shaped, Called, Set, Moves
<1>3. CASE partOfMessage(w) \/ hangup(w)
  BY <1>3 DEF partOfMessage, noAction, hangup, Shaped, Local, Set, Moves, LoopPlaces, sharedVars, clientVars, queueVars
<1>4. CASE overflow(w)
  BY <1>4 DEF overflow, Shaped, Asked, Set, Moves, LoopPlaces
<1>5. QED
  BY <1>1, <1>2, <1>3, <1>4 DEF socketReady

\* So has every step of a thread.
LEMMA ThreadShape ==
    ASSUME LoopTypes, NEW w \in Workers, threadStep(w) \/ outside(w) \/ fault(w)
    PROVE  Shaped(w)
<1>1. CASE lookAtSocket(w)
  <2>1. CASE noAction(w)
    BY <1>1, <2>1 DEF lookAtSocket, noAction, Shaped, Local, Set, Moves, LoopPlaces, sharedVars, clientVars, queueVars
  <2>2. CASE pin[w] # None /\ process(w, pin[w]) /\ UNCHANGED clientVars
    BY <1>1, <2>2 DEF lookAtSocket, process, Shaped, Called, Set, Moves, clientVars
  <2>3. CASE socketReady(w)
    BY <1>1, <2>3, SocketShape DEF lookAtSocket
  <2>4. QED
    BY <1>1, <2>1, <2>2, <2>3 DEF lookAtSocket
<1>2. CASE wakeBySocket(w)
  BY <1>2, SocketShape DEF wakeBySocket
<1>3. CASE wakeByStdout(w)
  BY <1>3 DEF wakeByStdout, noAction, Shaped, Local, Set, Moves, LoopPlaces, sharedVars, clientVars, queueVars
<1>4. CASE timeOut(w)
  BY <1>4 DEF timeOut, Shaped, TimedOut, Set, Moves, LoopTypes, clientVars
<1>5. CASE arm(w)
  <2>1. CASE handleTimeout(w)
    BY <1>5, <2>1 DEF arm, Shaped, TimedOut, Set, Moves, clientVars
  <2>2. CASE UNCHANGED sharedVars
    BY <1>5, <2>2 DEF arm, Shaped, Local, Set, Moves, LoopPlaces, sharedVars, clientVars, queueVars
  <2>3. QED
    BY <1>5, <2>1, <2>2 DEF arm
<1>6. CASE askExit(w)
  BY <1>6 DEF askExit, Refused, Shaped, Asked, Set, Moves, LoopPlaces, LoopOr, HasWork, clientVars
<1>7. CASE final(w)
  BY <1>7 DEF final, Shaped, Asked, Set, Moves, LoopPlaces, HasWork, clientVars
<1>8. CASE wakeByPipe(w) \/ drain(w) \/ queueDone(w)
  BY <1>8 DEF wakeByPipe, drain, takeJobs, queueDone, LoopOr,
              Shaped, Local, Set, Moves, LoopPlaces, sharedVars, clientVars, queueVars
<1>9. CASE obeyKill(w) \/ closeConn(w) \/ fault(w)
  BY <1>9 DEF obeyKill, takeJobs, closeConn, fault, pollFails, pipeFails, sendFails, LoopTypes,
              Shaped, Local, Set, Moves, LoopPlaces, sharedVars, clientVars, queueVars
<1>10. CASE sendOne(w)
  <2>1. pc[w] \in LoopPlaces \ {"final", "ended"} /\ Set(pc, w, pc[w])
    BY <1>10 DEF sendOne, LoopTypes, Set, LoopPlaces
  <2>2. QED
    BY <1>10, <2>1 DEF sendOne, Hear, Shaped, Local, Moves, LoopPlaces, sharedVars, queueVars
<1>11. QED
  BY <1>1, <1>2, <1>3, <1>4, <1>5, <1>6, <1>7, <1>8, <1>9, <1>10 DEF threadStep, outside

-----------------------------------------------------------------------------
(* The tables of workers.                                                  *)

\* Who is on the tables, and how far those are who are to be joined.
Threads ==
    /\ \A w \in Workers : (roles[w] = "none" <=> w >= nextIx) /\ (pc[w] = "none" <=> w >= nextIx)
    /\ \A w \in Workers : roles[w] \notin {"none", "SHUTDOWN"} => w \in workers
    /\ \A w \in Workers : roles[w] = "SHUTDOWN" => pc[w] \in {"final", "ended"}
    /\ \A w \in toErase \cup joining : roles[w] = "SHUTDOWN"
    /\ \A w \in Workers : pc[w] = "ended" /\ roles[w] = "SERVING_ACTIVE" => err[w] /\ exiting

\* The types of the tables.
TableTypes ==
    /\ nextIx \in 1 .. MaxWorkers
    /\ workers \subseteq 0 .. nextIx - 1
    /\ roles \in [Workers -> Maybe(Status, "none")]
    /\ toErase \subseteq workers
    /\ joining \subseteq Workers \ workers

\* A callback made by w changes at most its own role, and takes it off the
\* tables only with the answer that its thread may end.
Keeps(w) ==
    /\ UNCHANGED <<nextIx, workers, toErase>>
    /\ exiting => exiting'
    /\ \/ UNCHANGED roles
       \/ roles[w] # "SHUTDOWN" /\ \E r \in Status \ {"SHUTDOWN"} : setRole(w, r)

\* A worker is marked for erasure.
Leaves(w) ==
    /\ UNCHANGED <<nextIx, workers, exitCode>>
    /\ exiting => exiting'
    /\ roles[w] \notin {"none", "SHUTDOWN"}
    /\ setRole(w, "SHUTDOWN")
    /\ toErase' = toErase \cup {w}

\* The callback for a message changes at most the sender's role.
LEMMA CallTables ==
    ASSUME NEW w \in Workers, roles[w] # "SHUTDOWN", NEW m, NEW done \in BOOLEAN, callback(m, w, done)
    PROVE  Keeps(w)
<1>1. CASE playerIntro(m.side, w, done)
  BY <1>1 DEF playerIntro, takeSide, answerBusy, dismissRepeat, Keeps, Status, setRole,
              seatVars, serverVars, tableVars
<1>2. CASE playerTricked(m.trickNo, m.card, w, done)
  BY <1>2 DEF playerTricked, acceptCard, rejectCard, refuseStranger, ignoreCard, finalize, Keeps, Status,
              setRole, seatVars, serverVars, tableVars
<1>3. CASE handleWrongMessage(w, done)
  BY <1>3 DEF handleWrongMessage, Keeps, serverVars, tableVars
<1>4. QED
  BY <1>1, <1>2, <1>3 DEF callback

\* The exit callback keeps its worker or takes it off the tables, and only
\* then lets it end.
LEMMA ExitTables ==
    ASSUME roles \in [Workers -> Maybe(Status, "none")],
           NEW w \in Workers, NEW e \in BOOLEAN, NEW work, NEW quit \in BOOLEAN,
           grandExitCallback(w, e, work, quit)
    PROVE  /\ Keeps(w) \/ (quit /\ Leaves(w))
           /\ roles'[w] = "SERVING_ACTIVE" => e /\ exiting'
<1>1. CASE e
  BY <1>1 DEF grandExitCallback, internalError, finalize, Keeps, tableVars
<1>2. CASE ~e /\ playerLeaves(w, work, quit)
  BY <1>2 DEF grandExitCallback, playerLeaves, leaveOrLinger, leave, eraseWorker, sendNothing,
              setRole, Keeps, Leaves, Status, Maybe
<1>3. CASE ~e /\ zombieLeaves(w, work, quit)
  BY <1>3 DEF grandExitCallback, zombieLeaves, leave, eraseWorker, sendNothing,
              setRole, Keeps, Leaves, Status, Maybe
<1>4. CASE ~e /\ (strangerLeaves(w, quit) \/ goneAlready(w, quit))
  BY <1>4 DEF grandExitCallback, strangerLeaves, goneAlready, leave, eraseWorker, sendNothing,
              setRole, Keeps, Leaves, Status, Maybe
<1>5. CASE ~e /\ proxyLeaves(w, quit)
  BY <1>5 DEF grandExitCallback, proxyLeaves, leave, eraseWorker, finalize,
              setRole, Keeps, Leaves, Status, Maybe
<1>6. QED
  BY <1>1, <1>2, <1>3, <1>4, <1>5 DEF grandExitCallback

\* A timeout changes no table.
LEMMA TimeoutTables ==
    ASSUME NEW w, handleTimeout(w)
    PROVE  Keeps(w)
BY DEF handleTimeout, Keeps, tableVars

\* Only workers are to be erased or joined.
LEMMA OnTheTables == TableTypes => toErase \cup joining \subseteq Workers
BY MgrAssumption DEF TableTypes, Workers

\* The tables stay right when a thread keeps its place on them, goes, comes
\* in, and when the cleaner takes some away.
LEMMA KeepsThreads ==
    ASSUME LoopTypes, TableTypes, Threads,
           NEW w \in Workers, NEW x \in LoopPlaces, Moves(w, x), Keeps(w),
           UNCHANGED joining, \A v \in Workers : err[v] => err'[v],
           pc[w] \notin {"none", "ended"}, pc[w] = "final" => x = "ended",
           x = "ended" /\ roles'[w] = "SERVING_ACTIVE" => err[w] /\ exiting'
    PROVE  TableTypes' /\ Threads'
<1>1. roles' \in [Workers -> Maybe(Status, "none")]
  BY DEF Keeps, setRole, TableTypes, Maybe
<1>2. TableTypes'
  BY <1>1 DEF Keeps, TableTypes
<1>3. roles[w] # "none" /\ roles'[w] # "none" /\ x # "none"
  BY DEF Keeps, setRole, TableTypes, Threads, Status, LoopPlaces
<1>4. \A v \in Workers : v # w => roles'[v] = roles[v] /\ pc'[v] = pc[v]
  BY DEF Keeps, setRole, TableTypes, LoopTypes, Moves, Set
<1>5. pc'[w] = x /\ (roles'[w] = "SHUTDOWN" <=> roles[w] = "SHUTDOWN")
  BY DEF Keeps, setRole, TableTypes, LoopTypes, Moves, Set
<1>6. Threads'
  BY <1>3, <1>4, <1>5, OnTheTables DEF Keeps, Threads
<1>7. QED
  BY <1>2, <1>6

\* A worker that leaves is past its loop.
LEMMA LeavesThreads ==
    ASSUME LoopTypes, TableTypes, Threads,
           NEW w \in Workers, NEW x \in {"final", "ended"}, Moves(w, x), Leaves(w), UNCHANGED <<joining, err>>
    PROVE  TableTypes' /\ Threads'
<1>1. roles' \in [Workers -> Maybe(Status, "none")]
  BY DEF Leaves, setRole, TableTypes, Maybe, Status
<1>2. w \in workers
  BY DEF Leaves, Threads
<1>3. TableTypes'
  BY <1>1, <1>2 DEF Leaves, TableTypes
<1>4. \A v \in Workers : v # w => roles'[v] = roles[v] /\ pc'[v] = pc[v]
  BY DEF Leaves, setRole, TableTypes, LoopTypes, Moves, Set
<1>5. pc'[w] = x /\ roles'[w] = "SHUTDOWN"
  BY DEF Leaves, setRole, TableTypes, LoopTypes, Moves, Set
<1>6. Threads'
  BY <1>4, <1>5, OnTheTables DEF Leaves, Threads, LoopTypes, LoopPlaces
<1>7. QED
  BY <1>3, <1>6

\* An accepted connection adds the next worker.
LEMMA AcceptedThreads ==
    ASSUME LoopTypes, TableTypes, Threads, NEW w \in Workers, Accepted(w)
    PROVE  TableTypes' /\ Threads'
<1>1. nextIx \in Workers /\ nextIx # w /\ roles[nextIx] = "none" /\ nextIx \notin workers
  BY MgrAssumption DEF Accepted, forwardConnection, spawnNewWorker, TableTypes, Threads, Workers
<1>2. roles' = [roles EXCEPT ![nextIx] = "SERVING_UNKNOWN"]
  BY DEF Accepted, forwardConnection, spawnNewWorker, setRole
<1>3. nextIx \notin joining
  BY <1>1 DEF Threads
<1>4. TableTypes'
  BY <1>1, <1>2, <1>3, MgrAssumption
  DEF Accepted, forwardConnection, spawnNewWorker, TableTypes, Maybe, Status, Workers, cleanerVars
<1>5. \A v \in Workers : v \notin {w, nextIx} => roles'[v] = roles[v] /\ pc'[v] = pc[v]
  BY <1>2 DEF Accepted, TableTypes, LoopTypes
<1>6. pc'[w] = "drain" /\ pc'[nextIx] = "poll" /\ roles'[w] = roles[w] /\ roles'[nextIx] = "SERVING_UNKNOWN"
  BY <1>1, <1>2 DEF Accepted, TableTypes, LoopTypes
<1>7. nextIx' = nextIx + 1 /\ workers' = workers \cup {nextIx}
      /\ UNCHANGED <<toErase, joining, err, exiting>>
  BY DEF Accepted, forwardConnection, spawnNewWorker, serverVars, cleanerVars
<1>8. Threads'
  <2>1. \A v \in Workers : v >= nextIx' <=> v >= nextIx /\ v # nextIx
    BY <1>7, MgrAssumption DEF TableTypes, Workers
  <2>2. \A v \in toErase' \cup joining' : roles'[v] = "SHUTDOWN"
    BY <1>1, <1>3, <1>5, <1>6, <1>7, OnTheTables DEF TableTypes, Threads
  <2>3. pc[w] # "none" /\ ~(w >= nextIx)
    BY DEF Accepted, Threads
  <2>4. \A v \in Workers : (roles'[v] = "none" <=> v >= nextIx') /\ (pc'[v] = "none" <=> v >= nextIx')
    BY <1>1, <1>5, <1>6, <2>1, <2>3 DEF Threads
  <2>5. \A v \in Workers : roles'[v] \notin {"none", "SHUTDOWN"} => v \in workers'
    BY <1>5, <1>6, <1>7, <2>3 DEF Accepted, Threads
  <2>6. \A v \in Workers : roles'[v] = "SHUTDOWN" => pc'[v] \in {"final", "ended"}
    BY <1>5, <1>6, ZenonT(60) DEF Accepted, Threads
  <2>7. \A v \in Workers : pc'[v] = "ended" /\ roles'[v] = "SERVING_ACTIVE" => err'[v] /\ exiting'
    BY <1>5, <1>6, <1>7 DEF Threads
  <2>8. QED
    BY <2>2, <2>4, <2>5, <2>6, <2>7 DEF Threads
<1>9. QED
  BY <1>4, <1>8

\* The cleaner takes away only workers that are past their loop.
LEMMA CleanerThreads ==
    ASSUME LoopTypes, TableTypes, Threads, cleanerTakes \/ cleanerJoins
    PROVE  TableTypes' /\ Threads'
<1>1. UNCHANGED <<nextIx, roles, pc, err, exiting>>
  BY DEF cleanerTakes, takeFinished, cleanerJoins, joinFinished, threadVars, serverVars, tableVars
<1>2. CASE cleanerTakes
  <2>1. workers' = workers \ toErase /\ joining' = toErase /\ toErase' = {}
    BY <1>2 DEF cleanerTakes, takeFinished
  <2>2. TableTypes'
    BY <1>1, <2>1, OnTheTables DEF TableTypes
  <2>3. QED
    BY <1>1, <2>1, <2>2 DEF Threads
<1>3. CASE cleanerJoins
  BY <1>1, <1>3 DEF cleanerJoins, joinFinished, tableVars, TableTypes, Threads
<1>4. QED
  BY <1>2, <1>3

-----------------------------------------------------------------------------
(* The seats.                                                              *)

Occupied == {s \in Sides : activeSides[s] # NoWorker}

SeatTypes ==
    /\ activeSides \in [Sides -> Maybe(Workers, NoWorker)]
    /\ workerToSide \in [Workers -> Maybe(Sides, NoSide)]
    /\ zombieWorkerToSide \in [Workers -> Maybe(Sides, NoSide)]

\* As much of SeatsAgree as survives connections that introduce themselves
\* again: such a worker keeps its seat without the role.
Seats ==
    /\ playersConnected = Cardinality(Occupied)
    /\ \A w \in Workers, s \in Sides : activeSides[s] = w <=> workerToSide[w] = s
    /\ \A w \in Workers : roles[w] = "SERVING_ACTIVE" => workerToSide[w] # NoSide
    /\ \A w \in Workers : roles[w] \in {"none", "SERVING_UNKNOWN"} => workerToSide[w] = NoSide

\* The occupied sides are a finite set, no larger than that of all sides.
LEMMA OccupiedFinite ==
    /\ IsFiniteSet(Sides) /\ Cardinality(Sides) = NSides
    /\ IsFiniteSet(Occupied) /\ Cardinality(Occupied) \in 0 .. NSides
    /\ Cardinality(Occupied) = NSides => Occupied = Sides
<1>1. IsFiniteSet(Sides) /\ Cardinality(Sides) = NSides
  BY RulesAssumption, FS_Interval DEF Sides
<1>2. Occupied \subseteq Sides
  BY DEF Occupied
<1>3. QED
  BY <1>1, <1>2, FS_Subset, FS_CardinalityType, RulesAssumption

\* The numbers that stand for no worker and no side are none.
LEMMA NobodyThere == NoWorker \notin Workers /\ NoSide \notin Sides
BY DEF NoWorker, NoSide, Workers, Sides

\* A worker that takes a free side is counted.
LEMMA TakeSeats ==
    ASSUME TableTypes, SeatTypes, Seats, NEW w \in Workers, NEW side \in Sides, takeSide(side, w)
    PROVE  SeatTypes' /\ Seats'
<1>1. SeatTypes'
  BY DEF takeSide, SeatTypes, Maybe
<1>2. activeSides[side] = NoWorker /\ workerToSide[w] = NoSide
  BY DEF takeSide, Seats
<1>3. playersConnected' = Cardinality(Occupied')
  <2>1. Occupied' = Occupied \cup {side} /\ side \notin Occupied
    BY <1>2, NobodyThere DEF takeSide, SeatTypes, Occupied
  <2>2. QED
    BY <2>1, OccupiedFinite, FS_AddElement DEF takeSide, Seats
<1>4. ASSUME NEW v \in Workers, NEW s \in Sides
      PROVE  activeSides'[s] = v <=> workerToSide'[v] = s
  BY <1>2, NobodyThere DEF takeSide, SeatTypes, Seats
<1>5. ASSUME NEW v \in Workers
      PROVE  /\ roles'[v] = "SERVING_ACTIVE" => workerToSide'[v] # NoSide
             /\ roles'[v] \in {"none", "SERVING_UNKNOWN"} => workerToSide'[v] = NoSide
  BY NobodyThere DEF takeSide, setRole, TableTypes, SeatTypes, Seats
<1>6. QED
  BY <1>1, <1>3, <1>4, <1>5 DEF Seats

\* A player that gives up its side is no longer counted.
LEMMA FreeSeats ==
    ASSUME TableTypes, SeatTypes, Seats, NEW w \in Workers, roles[w] = "SERVING_ACTIVE", freeSeat(w),
           NEW r \in {"CLEANUP", "SHUTDOWN"}, setRole(w, r)
    PROVE  SeatTypes' /\ Seats'
<1>1. SeatTypes'
  BY DEF freeSeat, SeatTypes, Maybe
<1>2. workerToSide[w] \in Sides /\ activeSides[workerToSide[w]] = w
  BY DEF SeatTypes, Seats, Maybe
<1>3. playersConnected' = Cardinality(Occupied')
  <2>1. Occupied' = Occupied \ {workerToSide[w]} /\ workerToSide[w] \in Occupied
    BY <1>2, NobodyThere DEF freeSeat, SeatTypes, Occupied
  <2>2. QED
    BY <2>1, OccupiedFinite, FS_RemoveElement DEF freeSeat, Seats
<1>4. ASSUME NEW v \in Workers, NEW s \in Sides
      PROVE  activeSides'[s] = v <=> workerToSide'[v] = s
  BY <1>2, NobodyThere DEF freeSeat, SeatTypes, Seats
<1>5. ASSUME NEW v \in Workers
      PROVE  /\ roles'[v] = "SERVING_ACTIVE" => workerToSide'[v] # NoSide
             /\ roles'[v] \in {"none", "SERVING_UNKNOWN"} => workerToSide'[v] = NoSide
  BY DEF freeSeat, setRole, TableTypes, SeatTypes, Seats
<1>6. QED
  BY <1>1, <1>3, <1>4, <1>5 DEF Seats

\* A change of roles that seats nobody.
LEMMA SameSeats ==
    ASSUME SeatTypes, Seats, UNCHANGED seatVars,
           \A v \in Workers : roles'[v] \in {"none", "SERVING_UNKNOWN", "SERVING_ACTIVE"} =>
               \/ roles'[v] = roles[v]
               \/ workerToSide[v] = NoSide /\ roles'[v] # "SERVING_ACTIVE"
    PROVE  SeatTypes' /\ Seats'
BY DEF seatVars, SeatTypes, Seats, Occupied

\* The callbacks for messages keep seats, side map and count in step.
LEMMA CallSeats ==
    ASSUME TableTypes, SeatTypes, Seats, NEW w \in Workers, NEW m, m.type = "IAM" => m.side \in Sides,
           NEW done \in BOOLEAN, callback(m, w, done)
    PROVE  SeatTypes' /\ Seats'
<1>1. CASE takeSide(m.side, w) /\ m.type = "IAM"
  BY <1>1, TakeSeats
<1>2. CASE answerBusy(m.side, w) \/ dismissRepeat(w)
  BY <1>2, SameSeats DEF answerBusy, dismissRepeat, setRole, TableTypes
<1>3. CASE acceptCard(m.card, w) \/ rejectCard(m.trickNo, m.card, w) \/ refuseStranger(w) \/ ignoreCard(w)
  BY <1>3, SameSeats DEF acceptCard, rejectCard, refuseStranger, ignoreCard, setRole, TableTypes, tableVars, serverVars
<1>4. CASE handleWrongMessage(w, done)
  BY <1>4, SameSeats DEF handleWrongMessage, tableVars, serverVars
<1>5. CASE UNCHANGED <<serverVars, tableVars>>
  BY <1>5, SameSeats DEF tableVars, serverVars
<1>6. QED
  BY <1>1, <1>2, <1>3, <1>4, <1>5 DEF callback, playerIntro, playerTricked

\* So does the exit callback.
LEMMA ExitSeats ==
    ASSUME TableTypes, SeatTypes, Seats, NEW w \in Workers, NEW e \in BOOLEAN, NEW work,
           NEW quit \in BOOLEAN, grandExitCallback(w, e, work, quit)
    PROVE  SeatTypes' /\ Seats'
<1>1. CASE playerLeaves(w, work, quit)
  BY <1>1, FreeSeats DEF playerLeaves, leaveOrLinger, leave
<1>2. CASE internalError
  BY <1>2, SameSeats DEF internalError
<1>3. CASE zombieLeaves(w, work, quit) \/ strangerLeaves(w, quit) \/ proxyLeaves(w, quit) \/ goneAlready(w, quit)
  BY <1>3, SameSeats DEF zombieLeaves, strangerLeaves, proxyLeaves, goneAlready, leave, setRole, TableTypes
<1>4. QED
  BY <1>1, <1>2, <1>3 DEF grandExitCallback

-----------------------------------------------------------------------------
(* The types of the rest.                                                  *)

QueueTypes == killFlag \in [Workers -> BOOLEAN] /\ pipe \in [Workers -> BOOLEAN]

FlagTypes ==
    /\ exiting \in BOOLEAN /\ finishFlag \in BOOLEAN /\ crashed \in BOOLEAN
    /\ exitCode \in {0, 1}
    /\ clearThreads \in Nat
    /\ lastDeal = <<>> \/ lastDeal \in [Sides -> SUBSET Card]

\* Messages and kill orders that are delivered keep the queues' types,
LEMMA DeliverTypes ==
    ASSUME QueueTypes, NEW mail, NEW killed, NEW woken, deliver(mail, killed, woken)
    PROVE  QueueTypes'
BY DEF QueueTypes, deliver

\* whoever sends them.
LEMMA SendTypes ==
    ASSUME QueueTypes, crashed \in BOOLEAN,
           \/ \E f, killed : post(f, killed)
           \/ \E v, msgs, killed : sendTo(v, msgs, killed)
           \/ \E killed : kill(killed)
           \/ sendNothing
           \/ UNCHANGED queueVars /\ UNCHANGED crashed
    PROVE  QueueTypes' /\ crashed' \in BOOLEAN
<1>1. ASSUME NEW f, NEW killed, post(f, killed)
      PROVE  QueueTypes' /\ crashed' \in BOOLEAN
  BY <1>1, DeliverTypes DEF post, Misaddressed
<1>2. ASSUME NEW v, NEW msgs, NEW killed, sendTo(v, msgs, killed)
      PROVE  QueueTypes' /\ crashed' \in BOOLEAN
  BY <1>2, DeliverTypes DEF sendTo, Unreachable
<1>3. ASSUME NEW killed, kill(killed)
      PROVE  QueueTypes' /\ crashed' \in BOOLEAN
  BY <1>2, <1>3 DEF kill
<1>4. CASE UNCHANGED queueVars /\ UNCHANGED crashed
  BY <1>4 DEF queueVars, QueueTypes
<1>5. QED
  BY <1>1, <1>2, <1>3, <1>4 DEF sendNothing

\* The callbacks for messages keep the types of queues and flags,
LEMMA CallTypes ==
    ASSUME GameTypeOK, GameTypeOK', QueueTypes, FlagTypes,
           NEW w \in Workers, NEW m, NEW done \in BOOLEAN, callback(m, w, done)
    PROVE  QueueTypes' /\ FlagTypes'
<1>1. CASE takeSide(m.side, w)
  <2>1. QueueTypes' /\ crashed' \in BOOLEAN
    BY <1>1, DeliverTypes DEF takeSide, Misaddressed
  <2>2. QED
    BY <1>1, <2>1 DEF takeSide, FlagTypes, GameTypeOK
<1>2. CASE answerBusy(m.side, w)
  BY <1>2, SendTypes DEF answerBusy, FlagTypes
<1>3. CASE dismissRepeat(w) \/ refuseStranger(w)
  BY <1>3, SendTypes DEF dismissRepeat, refuseStranger, FlagTypes
<1>4. CASE acceptCard(m.card, w)
  <2>1. QueueTypes' /\ crashed' \in BOOLEAN
    BY <1>4, SendTypes DEF acceptCard, FlagTypes
  <2>2. lastDeal' \in {lastDeal, hands'} /\ UNCHANGED <<exitCode, clearThreads>>
    BY <1>4 DEF acceptCard
  <2>3. exiting' \in BOOLEAN /\ finishFlag' \in BOOLEAN
    BY <1>4 DEF acceptCard, finalize, FlagTypes
  <2>4. QED
    BY <2>1, <2>2, <2>3 DEF FlagTypes, GameTypeOK
<1>5. CASE rejectCard(m.trickNo, m.card, w)
  BY <1>5, SendTypes DEF rejectCard, FlagTypes, tableVars
<1>6. CASE handleWrongMessage(w, done) /\ ~Suspended
  BY <1>6, SendTypes DEF handleWrongMessage, FlagTypes, tableVars
<1>7. CASE UNCHANGED <<serverVars, tableVars, queueVars>>
  BY <1>7, SendTypes DEF FlagTypes, serverVars, tableVars
<1>8. QED
  BY <1>1, <1>2, <1>3, <1>4, <1>5, <1>6, <1>7
  DEF callback, playerIntro, playerTricked, ignoreCard, handleWrongMessage

\* and so do the exit callback
LEMMA ExitTypes ==
    ASSUME QueueTypes, FlagTypes, NEW w \in Workers, NEW e, NEW work, NEW quit,
           grandExitCallback(w, e, work, quit)
    PROVE  QueueTypes' /\ FlagTypes'
<1>1. CASE internalError
  BY <1>1, SendTypes DEF internalError, finalize, FlagTypes
<1>2. CASE playerLeaves(w, work, quit) /\ UNCHANGED <<lastDeal, exitCode>>
  BY <1>2, SendTypes DEF playerLeaves, leaveOrLinger, leave, eraseWorker, FlagTypes
<1>3. CASE (zombieLeaves(w, work, quit) \/ strangerLeaves(w, quit)) /\ UNCHANGED <<lastDeal, exitCode>>
  BY <1>3, SendTypes DEF zombieLeaves, strangerLeaves, leave, eraseWorker, FlagTypes
<1>4. CASE (proxyLeaves(w, quit) \/ goneAlready(w, quit)) /\ UNCHANGED <<lastDeal, exitCode>>
  <2>1. QueueTypes' /\ crashed' \in BOOLEAN
    BY <1>4, SendTypes DEF proxyLeaves, goneAlready, FlagTypes
  <2>2. CASE proxyLeaves(w, quit)
    BY <1>4, <2>1, <2>2 DEF proxyLeaves, finalize, leave, eraseWorker, FlagTypes
  <2>3. CASE goneAlready(w, quit)
    BY <1>4, <2>1, <2>3 DEF goneAlready, FlagTypes
  <2>4. QED
    BY <1>4, <2>2, <2>3
<1>5. QED
  BY <1>1, <1>2, <1>3, <1>4 DEF grandExitCallback

\* and the timeout.
LEMMA TimeoutTypes ==
    ASSUME QueueTypes, FlagTypes, NEW w, handleTimeout(w)
    PROVE  QueueTypes' /\ FlagTypes'
BY SendTypes DEF handleTimeout, tableVars, FlagTypes

\* What a socket has for its thread keeps the types of its loop,
LEMMA SocketTypes ==
    ASSUME LoopTypes, NEW w \in Workers, socketReady(w) \/ noAction(w) \/ process(w, pin[w])
    PROVE  conn' \in [Workers -> {"open", "quit", "closed"}] /\ resp' \in [Workers -> BOOLEAN]
<1>1. ASSUME NEW m, process(w, m)
      PROVE  conn' \in [Workers -> {"open", "quit", "closed"}] /\ resp' \in [Workers -> BOOLEAN]
  BY <1>1, ZenonT(60) DEF process, Set, LoopTypes
<1>2. CASE partOfMessage(w) \/ hangup(w) \/ overflow(w) \/ acceptAction(w) \/ noAction(w)
  BY <1>2 DEF partOfMessage, noAction, hangup, overflow, acceptAction, Set, LoopTypes
<1>3. CASE receive(w)
  <2>1. PICK m \in Says(w) : process(w, m)
    BY <1>3 DEF receive
  <2>2. QED
    BY <1>1, <2>1
<1>4. CASE process(w, pin[w])
  BY <1>4, ZenonT(60) DEF process, Set, LoopTypes
<1>5. QED
  BY <1>2, <1>3, <1>4 DEF socketReady

\* and so does every step of the server.
LEMMA LoopTypesNext ==
    ASSUME LoopTypes, NEW w \in Workers, threadStep(w) \/ outside(w) \/ fault(w)
    PROVE  LoopTypes'
<1>1. pc' \in [Workers -> LoopPlaces \cup {"none"}]
  BY ThreadShape DEF Shaped, Local, Called, Asked, TimedOut, Accepted, Moves, Set, LoopTypes, LoopPlaces
<1>2. CASE lookAtSocket(w)
  <2>1. /\ socketReady(w) \/ noAction(w) \/ process(w, pin[w])
        /\ UNCHANGED <<err, armed>>
    BY <1>2 DEF lookAtSocket
  <2>2. QED
    BY <1>1, <2>1, SocketTypes DEF LoopTypes
<1>3. CASE outside(w)
  <2>1. (socketReady(w) \/ noAction(w)) /\ UNCHANGED err /\ armed' = [armed EXCEPT ![w] = FALSE]
    BY <1>3 DEF outside, wakeBySocket, wakeByStdout, Set
  <2>2. QED
    BY <1>1, <2>1, SocketTypes DEF LoopTypes
<1>4. CASE fault(w)
  <2>1. CASE pollFails(w)
    <3>1. (err[w] \/ w = Proxy) \in BOOLEAN
      BY DEF LoopTypes
    <3>2. QED
      BY <1>1, <2>1, <3>1 DEF pollFails, Set, LoopTypes
  <2>2. CASE pipeFails(w) \/ sendFails(w)
    BY <1>1, <2>2 DEF pipeFails, sendFails, Set, LoopTypes
  <2>3. QED
    BY <1>4, <2>1, <2>2 DEF fault
<1>5. CASE wakeByPipe(w) \/ timeOut(w) \/ drain(w) \/ arm(w)
  BY <1>1, <1>5 DEF wakeByPipe, timeOut, drain, arm, Set, LoopTypes
<1>6. CASE sendOne(w)
  BY <1>1, <1>6 DEF sendOne, Set, LoopTypes
<1>7. CASE queueDone(w) \/ obeyKill(w) \/ closeConn(w) \/ askExit(w) \/ final(w)
  BY <1>1, <1>7 DEF queueDone, obeyKill, closeConn, askExit, final, Set, LoopTypes
<1>8. QED
  BY <1>2, <1>3, <1>4, <1>5, <1>6, <1>7 DEF threadStep

-----------------------------------------------------------------------------
(* The invariant, whoever the clients are.                                 *)

\* A message that waits for its callback names a side, if it names one.
Inputs ==
    /\ pin = [w \in Workers |-> pin[w]]
    /\ \A w \in Workers : pin[w].type = "IAM" => pin[w].side \in Sides

\* The inductive invariant.
Running ==
    /\ GameTypeOK /\ LoopTypes /\ TableTypes /\ SeatTypes /\ QueueTypes /\ FlagTypes
    /\ cleaner \in {"wait", "join", "lastJoin", "done"}
    /\ Threads
    /\ Seats
    /\ Inputs

\* An introduction names a side.
LEMMA SaidSide ==
    ASSUME NEW w \in Workers, w # Proxy, NEW m \in Says(w), m.type = "IAM"
    PROVE  m.side \in Sides
<1>1. w \in Handlers /\ Wants[w] \subseteq Sides
  BY LoopAssumption DEF Handlers
<1>2. ASSUME m \in KierkiSays(w)
      PROVE  m.side \in Sides
  BY <1>1, <1>2 DEF KierkiSays, Iam, TrickC
<1>3. ASSUME m \in AnyoneSays(w)
      PROVE  m.side \in Sides
  BY <1>1, <1>3 DEF AnyoneSays, Iam, TrickC, Bad
<1>4. QED
  BY <1>2, <1>3 DEF Says

\* The server starts in such a state.
LEMMA InitRunning == Init => Running
<1> SUFFICES ASSUME Init
             PROVE  Running
  OBVIOUS
<1>1. LoopTypes /\ QueueTypes /\ FlagTypes /\ cleaner \in {"wait", "join", "lastJoin", "done"}
  BY DEF Init, ServerInit, MgrInit, LoopTypes, LoopPlaces, QueueTypes, FlagTypes
<1>2. TableTypes /\ Threads
  BY MgrAssumption DEF Init, ServerInit, MgrInit, TableTypes, Threads, Status, Maybe, Workers, Proxy
<1>3. SeatTypes
  BY DEF Init, ServerInit, SeatTypes, Maybe
<1>4. Seats
  <2>1. Occupied = {}
    BY DEF Init, ServerInit, Occupied
  <2>2. playersConnected = Cardinality(Occupied)
    BY <2>1, FS_EmptySet DEF Init, ServerInit
  <2>3. \A w \in Workers : roles[w] # "SERVING_ACTIVE" /\ workerToSide[w] = NoSide
    BY DEF Init, ServerInit, MgrInit
  <2>4. \A w \in Workers, s \in Sides : activeSides[s] # w /\ workerToSide[w] # s
    BY NobodyThere DEF Init, ServerInit
  <2>5. QED
    BY <2>2, <2>3, <2>4 DEF Seats
<1>5. Inputs
  BY DEF Init, Inputs, None
<1>6. QED
  BY <1>1, <1>2, <1>3, <1>4, <1>5, GameInitType DEF Init, ServerInit, Running

\* The game keeps its type, as each step makes at most one move.
LEMMA GameStaysTyped ==
    ASSUME GameTypeOK, NEW w \in Workers, threadStep(w) \/ outside(w) \/ fault(w)
    PROVE  GameTypeOK'
BY ThreadPlays, OutsidePlays, PlayType, TypeUnchanged DEF GameNext

\* Every shape of a step keeps it.
LEMMA LocalRuns ==
    ASSUME Running, NEW w \in Workers, Local(w)
    PROVE  TableTypes' /\ Threads' /\ SeatTypes' /\ Seats' /\ QueueTypes' /\ FlagTypes' /\ Inputs'
<1>1. TableTypes' /\ Threads'
  <2>1. Keeps(w) /\ UNCHANGED joining
    BY DEF Local, Keeps, tableVars, serverVars, cleanerVars
  <2>2. \A v \in Workers : err[v] => err'[v]
    BY DEF Local, Set, Running, LoopTypes
  <2>3. PICK x \in LoopPlaces \ {"ended"} : Moves(w, x)
    BY DEF Local
  <2>4. QED
    BY <2>1, <2>2, <2>3, KeepsThreads DEF Local, Running
<1>2. SeatTypes' /\ Seats'
  BY SameSeats DEF Local, Running, serverVars, tableVars
<1>3. QueueTypes' /\ FlagTypes' /\ Inputs'
  BY DEF Local, Running, QueueTypes, FlagTypes, Inputs, Set, serverVars, tableVars
<1>4. QED
  BY <1>1, <1>2, <1>3

\* A message of the client.
LEMMA CalledRuns ==
    ASSUME Running, GameTypeOK', NEW w \in Workers, Called(w)
    PROVE  TableTypes' /\ Threads' /\ SeatTypes' /\ Seats' /\ QueueTypes' /\ FlagTypes' /\ Inputs'
<1>1. PICK m : \E done \in BOOLEAN :
        /\ callback(m, w, done)
        /\ Set(pin, w, IF done THEN None ELSE m)
        /\ m = pin[w] \/ (m \in Says(w) /\ w # Proxy)
  BY DEF Called
<1>2. PICK done \in BOOLEAN : callback(m, w, done) /\ Set(pin, w, IF done THEN None ELSE m)
  BY <1>1
<1>3. m.type = "IAM" => m.side \in Sides
  BY <1>1, SaidSide DEF Running, Inputs
<1>4. roles[w] # "SHUTDOWN" /\ pc[w] \notin {"none", "final", "ended"} /\ UNCHANGED <<joining, err>>
  BY DEF Called, Running, Threads, cleanerVars
<1>5. TableTypes' /\ Threads'
  <2>1. Keeps(w)
    BY <1>2, <1>4, CallTables
  <2>2. Moves(w, "drain") /\ "drain" \in LoopPlaces
    BY DEF Called, LoopPlaces
  <2>3. QED
    BY <1>4, <2>1, <2>2, KeepsThreads DEF Running
<1>6. SeatTypes' /\ Seats'
  BY <1>2, <1>3, CallSeats DEF Running
<1>7. QueueTypes' /\ FlagTypes'
  BY <1>2, CallTypes DEF Running
<1>8. Inputs'
  BY <1>2, <1>3 DEF Running, Inputs, Set, None
<1>9. QED
  BY <1>5, <1>6, <1>7, <1>8

\* The exit callback.
LEMMA AskedRuns ==
    ASSUME Running, NEW w \in Workers, Asked(w)
    PROVE  TableTypes' /\ Threads' /\ SeatTypes' /\ Seats' /\ QueueTypes' /\ FlagTypes' /\ Inputs'
<1>1. PICK work \in BOOLEAN, quit \in BOOLEAN, x \in LoopPlaces :
        /\ grandExitCallback(w, err[w], work, quit)
        /\ Moves(w, x)
        /\ quit => x \in {"final", "ended"}
        /\ pc[w] = "final" <=> x = "ended"
  BY DEF Asked
<1>2. UNCHANGED <<joining, err, pin>> /\ pc[w] \notin {"none", "ended"} /\ err[w] \in BOOLEAN
  BY DEF Asked, Running, LoopTypes, cleanerVars
<1>3. TableTypes' /\ Threads'
  <2>1. /\ Keeps(w) \/ (quit /\ Leaves(w))
        /\ roles'[w] = "SERVING_ACTIVE" => err[w] /\ exiting'
    BY <1>1, <1>2, ExitTables DEF Running, TableTypes
  <2>2. CASE Keeps(w)
    BY <1>1, <1>2, <2>1, <2>2, KeepsThreads DEF Running
  <2>3. CASE quit /\ Leaves(w)
    BY <1>1, <1>2, <2>3, LeavesThreads DEF Running
  <2>4. QED
    BY <2>1, <2>2, <2>3
<1>4. SeatTypes' /\ Seats'
  BY <1>1, <1>2, ExitSeats DEF Running
<1>5. QueueTypes' /\ FlagTypes'
  BY <1>1, ExitTypes DEF Running
<1>6. Inputs'
  BY <1>2 DEF Running, Inputs
<1>7. QED
  BY <1>3, <1>4, <1>5, <1>6

\* A timeout.
LEMMA TimedOutRuns ==
    ASSUME Running, NEW w \in Workers, TimedOut(w)
    PROVE  TableTypes' /\ Threads' /\ SeatTypes' /\ Seats' /\ QueueTypes' /\ FlagTypes' /\ Inputs'
<1>1. handleTimeout(w) /\ UNCHANGED <<joining, err, pin>> /\ pc[w] \notin {"none", "final", "ended"}
  BY DEF TimedOut, cleanerVars
<1>2. TableTypes' /\ Threads'
  <2>1. PICK x \in {"poll", "final"} : Moves(w, x)
    BY DEF TimedOut
  <2>2. x \in LoopPlaces
    BY DEF LoopPlaces
  <2>3. QED
    BY <1>1, <2>1, <2>2, TimeoutTables, KeepsThreads DEF Running
<1>3. SeatTypes' /\ Seats'
  BY <1>1, SameSeats DEF handleTimeout, Running, tableVars
<1>4. QueueTypes' /\ FlagTypes' /\ Inputs'
  BY <1>1, TimeoutTypes DEF Running, Inputs
<1>5. QED
  BY <1>2, <1>3, <1>4

\* A new connection.
LEMMA AcceptedRuns ==
    ASSUME Running, NEW w \in Workers, Accepted(w)
    PROVE  TableTypes' /\ Threads' /\ SeatTypes' /\ Seats' /\ QueueTypes' /\ FlagTypes' /\ Inputs'
<1>1. TableTypes' /\ Threads'
  BY AcceptedThreads DEF Running
<1>2. SeatTypes' /\ Seats'
  <2>1. \A v \in Workers : roles'[v] = roles[v] \/ (v = nextIx /\ roles'[v] = "SERVING_UNKNOWN")
    BY DEF Accepted, forwardConnection, spawnNewWorker, setRole, Running, TableTypes
  <2>2. nextIx \in Workers => workerToSide[nextIx] = NoSide
    BY MgrAssumption DEF Running, Threads, Seats, TableTypes, Workers
  <2>3. UNCHANGED seatVars
    BY DEF Accepted, forwardConnection, serverVars
  <2>4. QED
    BY <2>1, <2>2, <2>3, SameSeats DEF Running
<1>3. QueueTypes' /\ FlagTypes' /\ Inputs'
  BY DEF Accepted, forwardConnection, spawnNewWorker, Running, QueueTypes, FlagTypes, Inputs, serverVars, queueVars
<1>4. QED
  BY <1>1, <1>2, <1>3

\* The cleaner is not a thread of a connection.
LEMMA CleanerRuns ==
    ASSUME Running, cleanerTakes \/ cleanerJoins
    PROVE  Running'
<1>1. TableTypes' /\ Threads'
  BY CleanerThreads DEF Running
<1>2. UNCHANGED <<gameVars, serverVars, roles, killFlag, pipe, finishFlag, pin, pc, conn, err, armed, resp>>
  BY DEF cleanerTakes, takeFinished, cleanerJoins, joinFinished, threadVars, tableVars, queueVars
<1>3. SeatTypes' /\ Seats'
  BY <1>2, SameSeats DEF Running, serverVars
<1>4. clearThreads' \in Nat /\ cleaner' \in {"wait", "join", "lastJoin", "done"}
  BY DEF cleanerTakes, takeFinished, cleanerJoins, joinFinished, tableVars, Running, FlagTypes
<1>5. LoopTypes' /\ QueueTypes' /\ FlagTypes' /\ Inputs'
  BY <1>2, <1>4 DEF Running, LoopTypes, QueueTypes, FlagTypes, Inputs, serverVars
<1>6. QED
  BY <1>1, <1>2, <1>3, <1>4, <1>5, TypeUnchanged DEF Running

\* The invariant is inductive.
LEMMA StepRuns == Running /\ [Next]_vars => Running'
<1> SUFFICES ASSUME Running, [Next]_vars
             PROVE  Running'
  OBVIOUS
<1>1. ASSUME NEW w \in Workers, threadStep(w) \/ outside(w) \/ fault(w)
      PROVE  Running'
  <2>1. GameTypeOK'
    BY <1>1, GameStaysTyped DEF Running
  <2>2. LoopTypes'
    BY <1>1, LoopTypesNext DEF Running
  <2>3. Shaped(w)
    BY <1>1, ThreadShape DEF Running
  <2>4. UNCHANGED cleaner
    BY <2>3 DEF Shaped, Local, Called, Asked, TimedOut, Accepted, cleanerVars
  <2>5. TableTypes' /\ Threads' /\ SeatTypes' /\ Seats' /\ QueueTypes' /\ FlagTypes' /\ Inputs'
    BY <2>1, <2>3, LocalRuns, CalledRuns, AskedRuns, TimedOutRuns, AcceptedRuns DEF Shaped
  <2>6. QED
    BY <2>1, <2>2, <2>4, <2>5 DEF Running
<1>2. CASE UNCHANGED vars
  BY <1>2, TypeUnchanged
  DEF vars, sharedVars, serverVars, seatVars, tableVars, queueVars, cleanerVars, threadVars, clientVars,
      Running, LoopTypes, TableTypes, SeatTypes, QueueTypes, FlagTypes, Threads, Seats, Occupied, Inputs
<1>3. QED
  BY <1>1, <1>2, CleanerRuns DEF Next

\* What the server keeps whatever its clients send and whatever fails.
THEOREM ServerRuns == Spec => []Running
BY InitRunning, StepRuns, PTL DEF Spec

\* Every variable of the server keeps its type, for any number of sides,
\* connections and messages.
THEOREM ServerTypeCorrect == Spec => []TypeOK
<1>1. Running => TypeOK
  <2> SUFFICES ASSUME Running
               PROVE  TypeOK
    OBVIOUS
  <2>1. playersConnected \in 0 .. NSides
    BY OccupiedFinite DEF Running, Seats
  <2>2. QED
    BY <2>1 DEF Running, LoopTypes, LoopPlaces, TableTypes, SeatTypes, QueueTypes, FlagTypes, TypeOK
<1>2. QED
  BY <1>1, ServerRuns, PTL

\* Only threads past their loop are joined, so that the cleaner never waits
\* for a thread that serves somebody.
THEOREM JoinsOnlyTheOver == Spec => []JoinedIsOver
<1>1. Running => JoinedIsOver
  BY OnTheTables DEF Running, Threads, JoinedIsOver
<1>2. QED
  BY <1>1, ServerRuns, PTL

-----------------------------------------------------------------------------
(* Clients that introduce themselves once.                                 *)

\* With them a seat and the role of a player go together, a worker that has
\* heard nothing has no role to lose, and no lookup throws.
Polite ==
    /\ \A w \in Workers : workerToSide[w] # NoSide => roles[w] = "SERVING_ACTIVE"
    /\ spoken \in [Workers -> Nat]
    /\ \A w \in Handlers : spoken[w] = 0 => roles[w] \in {"none", "SERVING_UNKNOWN", "SHUTDOWN"}
    /\ \A w \in Workers : pin[w] = None \/ (pin[w].type = "TRICK" /\ spoken[w] # 0)
    /\ ~crashed

\* A repository client introduces itself first and only then sends cards.
LEMMA SaidOnce ==
    ASSUME Rude = {}, NEW w \in Workers, NEW m \in Says(w)
    PROVE  \/ m.type = "IAM" /\ spoken[w] = 0
           \/ m.type = "TRICK" /\ spoken[w] # 0
BY DEF Says, KierkiSays, Iam, TrickC

\* A seat is held by a worker that is on the tables, and a complete table has
\* one for every side.
LEMMA SeatsManned ==
    ASSUME Running, Polite
    PROVE  /\ \A s \in Sides : activeSides[s] # NoWorker => activeSides[s] \in workers
           /\ ~Incomplete => \A s \in Sides : activeSides[s] \in workers
<1>1. ASSUME NEW s \in Sides, activeSides[s] # NoWorker
      PROVE  activeSides[s] \in workers
  <2>1. activeSides[s] \in Workers /\ workerToSide[activeSides[s]] = s
    BY <1>1 DEF Running, SeatTypes, Seats, Maybe
  <2>2. roles[activeSides[s]] = "SERVING_ACTIVE"
    BY <2>1, NobodyThere DEF Polite
  <2>3. QED
    BY <2>1, <2>2 DEF Running, Threads
<1>2. ASSUME ~Incomplete, NEW s \in Sides
      PROVE  activeSides[s] # NoWorker
  <2>1. Cardinality(Occupied) = NSides
    BY <1>2, OccupiedFinite, RulesAssumption DEF Incomplete, Running, Seats
  <2>2. QED
    BY <2>1, OccupiedFinite DEF Occupied
<1>3. QED
  BY <1>1, <1>2

\* Messages and kill orders for workers that are there throw nothing.
LEMMA SendSafe ==
    ASSUME NEW v, NEW msgs, NEW killed, sendTo(v, msgs, killed),
           killed \subseteq workers, v \in workers \/ msgs = <<>>
    PROVE  ~crashed'
BY DEF sendTo, Unreachable, Mail, NoMail

\* Nor do kill orders alone,
LEMMA KillSafe ==
    ASSUME NEW killed, kill(killed), killed \subseteq workers
    PROVE  ~crashed'
BY SendSafe DEF kill

\* nor messages for sides whose workers are there.
LEMMA PostSafe ==
    ASSUME NEW f, NEW killed, post(f, killed), \A s \in Sides : activeSides[s] \in workers
    PROVE  ~crashed'
BY DEF post, Misaddressed

\* A step without messages throws nothing.
LEMMA SpareSafe == UNCHANGED crashed /\ ~crashed => ~crashed'
OBVIOUS

\* The arrival of a player is told to nobody who is not there.
LEMMA TakeSafe ==
    ASSUME Running, Polite, NEW w \in workers, NEW side \in Sides, takeSide(side, w)
    PROVE  ~crashed'
<1> DEFINE at == [activeSides EXCEPT ![side] = w]
<1>1. ASSUME NEW s \in Sides, IntroPost(side)[s] # <<>>
      PROVE  at[s] \in workers
  <2>1. CASE s = side
    BY <2>1 DEF Running, SeatTypes
  <2>2. CASE s # side
    <3>1. Starts \/ Resumes
      BY <1>1, <2>2 DEF IntroPost
    <3>2. playersConnected + 1 = NSides
      BY <3>1 DEF Starts, Resumes
    <3>3. side \notin Occupied
      BY DEF takeSide, Occupied
    <3>4. Cardinality(Occupied \cup {side}) = NSides
      BY <3>2, <3>3, OccupiedFinite, FS_AddElement DEF Running, Seats
    <3>5. Occupied \cup {side} = Sides
      BY <3>4, OccupiedFinite, FS_Subset DEF Occupied
    <3>6. s \in Occupied
      BY <2>2, <3>5
    <3>7. QED
      BY <2>2, <3>6, SeatsManned DEF Occupied, Running, SeatTypes
  <2>3. QED
    BY <2>1, <2>2
<1>2. crashed' = Misaddressed(at, IntroPost(side))
  BY DEF takeSide
<1>3. QED
  BY <1>1, <1>2 DEF Misaddressed

\* A callback for a message of such a client.
LEMMA CalledPolitely ==
    ASSUME Rude = {}, Running, Polite, NEW w \in Workers, Called(w)
    PROVE  Polite'
<1>1. PICK m : \E done \in BOOLEAN :
        /\ callback(m, w, done)
        /\ Set(pin, w, IF done THEN None ELSE m)
        /\ \/ m = pin[w] /\ m # None /\ UNCHANGED spoken
           \/ m \in Says(w) /\ w # Proxy /\ Set(spoken, w, spoken[w] + 1)
  BY DEF Called
<1>2. PICK done \in BOOLEAN : callback(m, w, done) /\ Set(pin, w, IF done THEN None ELSE m)
  BY <1>1
<1>3. pc[w] \in {"poll", "socket"} /\ roles[w] \notin {"none", "SHUTDOWN"} /\ w \in workers
  BY DEF Called, Running, Threads
<1>4. spoken' \in [Workers -> Nat] /\ \A v \in Workers : v # w => spoken'[v] = spoken[v]
  BY <1>1 DEF Polite, Set
<1>5. spoken'[w] # 0
  BY <1>1 DEF Polite, Set
<1>6. ASSUME m.type = "IAM"
      PROVE  Polite'
  <2>1. m \in Says(w) /\ w # Proxy /\ spoken[w] = 0
    BY <1>1, <1>6, SaidOnce DEF Polite
  <2>2. roles[w] = "SERVING_UNKNOWN"
    BY <1>3, <2>1 DEF Polite, Handlers
  <2>3. m.side \in Sides
    BY <1>6, <2>1, SaidSide
  <2>4. done /\ (takeSide(m.side, w) \/ answerBusy(m.side, w))
    BY <1>2, <1>6, <2>2 DEF callback, playerIntro, dismissRepeat
  <2>5. \A v \in Workers : workerToSide'[v] # NoSide => roles'[v] = "SERVING_ACTIVE"
    BY <2>2, <2>4 DEF takeSide, answerBusy, setRole, seatVars, Polite, Running, Seats, SeatTypes, TableTypes
  <2>6. \A v \in Workers : v # w => roles'[v] = roles[v]
    BY <2>4 DEF takeSide, answerBusy, setRole, Running, TableTypes
  <2>7. ~crashed'
    BY <1>3, <2>3, <2>4, TakeSafe, SendSafe DEF answerBusy
  <2>8. \A v \in Workers : pin'[v] = None \/ (pin'[v].type = "TRICK" /\ spoken'[v] # 0)
    BY <1>2, <1>4, <2>4 DEF Set, Running, Inputs, Polite
  <2>9. QED
    BY <1>4, <1>5, <2>5, <2>6, <2>7, <2>8 DEF Polite, Handlers
<1>7. ASSUME m.type # "IAM"
      PROVE  Polite'
  <2>1. m.type = "TRICK"
    BY <1>1, <1>7, SaidOnce DEF Polite
  <2>2. playerTricked(m.trickNo, m.card, w, done)
    BY <1>2, <2>1 DEF callback
  <2>3. UNCHANGED workerToSide /\ (UNCHANGED roles \/ (roles[w] = "SERVING_UNKNOWN" /\ setRole(w, "CLEANUP_UNKNOWN")))
    BY <2>2 DEF playerTricked, acceptCard, rejectCard, refuseStranger, ignoreCard, seatVars, serverVars, tableVars
  <2>4. \A v \in Workers : workerToSide'[v] # NoSide => roles'[v] = "SERVING_ACTIVE"
    BY <2>3 DEF setRole, Polite, Running, Seats, TableTypes
  <2>5. \A v \in Workers : v # w => roles'[v] = roles[v]
    BY <2>3 DEF setRole, Running, TableTypes
  <2>6. ~crashed'
    <3>1. CASE acceptCard(m.card, w) /\ ~Incomplete
      BY <3>1, SeatsManned, PostSafe DEF acceptCard
    <3>2. CASE rejectCard(m.trickNo, m.card, w) /\ ~Incomplete
      BY <3>2, SeatsManned, PostSafe DEF rejectCard
    <3>3. CASE refuseStranger(w)
      BY <1>3, <3>3, KillSafe DEF refuseStranger
    <3>4. CASE UNCHANGED serverVars
      BY <3>4, SpareSafe DEF serverVars, Polite
    <3>5. QED
      BY <2>2, <3>1, <3>2, <3>3, <3>4 DEF playerTricked, ignoreCard
  <2>7. \A v \in Workers : pin'[v] = None \/ (pin'[v].type = "TRICK" /\ spoken'[v] # 0)
    BY <1>2, <1>4, <1>5, <2>1 DEF Set, Running, Inputs, Polite
  <2>8. QED
    BY <1>4, <1>5, <2>4, <2>5, <2>6, <2>7 DEF Polite, Handlers
<1>8. QED
  BY <1>6, <1>7

\* The exit callback.
LEMMA AskedPolitely ==
    ASSUME Running, Polite, NEW w \in Workers, Asked(w)
    PROVE  Polite'
<1>1. PICK work \in BOOLEAN, quit \in BOOLEAN : grandExitCallback(w, err[w], work, quit)
  BY DEF Asked
<1>2. UNCHANGED pin /\ spoken' \in [Workers -> Nat] /\ \A v \in Workers : spoken[v] # 0 => spoken'[v] # 0
  BY DEF Asked, Polite, Set
<1>3. /\ \A v \in Workers : workerToSide'[v] # NoSide => roles'[v] = "SERVING_ACTIVE"
      /\ \A v \in Handlers : spoken[v] = 0 => roles'[v] \in {"none", "SERVING_UNKNOWN", "SHUTDOWN"}
      /\ ~crashed'
  <2>1. CASE internalError
    <3>1. ~crashed'
      BY <2>1, KillSafe DEF internalError, ToStop, Stoppable
    <3>2. QED
      BY <2>1, <3>1 DEF internalError, seatVars, Polite
  <2>2. CASE playerLeaves(w, work, quit)
    BY <2>2 DEF playerLeaves, freeSeat, leaveOrLinger, leave, setRole, sendNothing, Polite, Running, TableTypes,
                SeatTypes, Handlers
  <2>3. CASE zombieLeaves(w, work, quit) \/ strangerLeaves(w, quit) \/ goneAlready(w, quit)
    BY <2>3 DEF zombieLeaves, strangerLeaves, goneAlready, leave, setRole, sendNothing, seatVars, Polite, Running,
                TableTypes, Seats, Handlers
  <2>4. CASE proxyLeaves(w, quit)
    <3>1. ~crashed'
      BY <2>4, KillSafe DEF proxyLeaves, ToStop, Stoppable
    <3>2. QED
      BY <2>4, <3>1 DEF proxyLeaves, leave, setRole, seatVars, Polite, Running, TableTypes, Handlers
  <2>5. QED
    BY <1>1, <2>1, <2>2, <2>3, <2>4 DEF grandExitCallback
<1>4. QED
  BY <1>2, <1>3 DEF Polite, Handlers

\* A timeout asks a worker that is there.
LEMMA TimedOutPolitely ==
    ASSUME Running, Polite, NEW w \in Workers, TimedOut(w)
    PROVE  Polite'
<1>1. handleTimeout(w) /\ UNCHANGED <<roles, workerToSide, pin, spoken>>
  BY DEF TimedOut, handleTimeout, seatVars, tableVars
<1>2. roles[w] \notin {"none", "SHUTDOWN"} /\ w \in workers
  BY DEF TimedOut, Running, Threads
<1>3. ~crashed'
  BY <1>1, <1>2, KillSafe, SendSafe, SpareSafe DEF handleTimeout, sendNothing, Polite
<1>4. QED
  BY <1>1, <1>3 DEF Polite

\* A new connection has no side yet.
LEMMA AcceptedPolitely ==
    ASSUME Running, Polite, NEW w \in Workers, Accepted(w)
    PROVE  Polite'
<1>1. UNCHANGED <<workerToSide, pin, spoken, crashed>>
  BY DEF Accepted, forwardConnection, serverVars, seatVars
<1>2. \A v \in Workers : roles'[v] = roles[v] \/ (roles[v] = "none" /\ roles'[v] = "SERVING_UNKNOWN")
  BY DEF Accepted, forwardConnection, spawnNewWorker, setRole, Running, TableTypes, Threads
<1>3. QED
  BY <1>1, <1>2 DEF Polite, Handlers

\* Nobody has said anything at the start.
LEMMA InitPolite == Init => Polite
BY DEF Init, ServerInit, MgrInit, Polite, Handlers, Proxy

\* With clients that introduce themselves once, it is inductive as well.
LEMMA StepPolite ==
    ASSUME Rude = {}
    PROVE  Running /\ Polite /\ [Next]_vars => Polite'
<1> SUFFICES ASSUME Running, Polite, [Next]_vars
             PROVE  Polite'
  OBVIOUS
<1>1. ASSUME NEW w \in Workers, threadStep(w) \/ outside(w) \/ fault(w)
      PROVE  Polite'
  <2>1. Shaped(w)
    BY <1>1, ThreadShape DEF Running
  <2>2. CASE Local(w)
    BY <2>2 DEF Local, serverVars, seatVars, tableVars, Polite
  <2>3. QED
    BY <2>1, <2>2, CalledPolitely, AskedPolitely, TimedOutPolitely, AcceptedPolitely DEF Shaped
<1>2. CASE cleanerTakes \/ cleanerJoins
  BY <1>2 DEF cleanerTakes, takeFinished, cleanerJoins, joinFinished, threadVars, clientVars, tableVars,
              serverVars, seatVars, Polite
<1>3. CASE UNCHANGED vars
  BY <1>3 DEF vars, sharedVars, serverVars, seatVars, tableVars, threadVars, clientVars, Polite
<1>4. QED
  BY <1>1, <1>2, <1>3 DEF Next

\* In every state of a server with such clients only active workers hold
\* sides, and no callback has thrown.
THEOREM ServerPolite ==
    ASSUME Rude = {}
    PROVE  Spec => [](Running /\ Polite)
BY InitRunning, StepRuns, InitPolite, StepPolite, PTL DEF Spec

\* While clients introduce themselves once, the seat count, the map from
\* sides and the roles of the workers agree, whoever comes and goes and
\* whatever system calls fail.
THEOREM SeatsCorrect ==
    ASSUME Rude = {}
    PROVE  Spec => []SeatsAgree
<1>1. Running /\ Polite => SeatsAgree
  BY DEF Running, Polite, Seats, Occupied, SeatsAgree
<1>2. QED
  BY <1>1, ServerPolite, PTL

\* No seat is left to a worker that is gone or about to be joined.
THEOREM SeatsLive ==
    ASSUME Rude = {}
    PROVE  Spec => []SeatedWorkerLives
<1>1. Running /\ Polite => SeatedWorkerLives
  <2> SUFFICES ASSUME Running, Polite, NEW s \in Sides, activeSides[s] # NoWorker,
                      ~(err[activeSides[s]] /\ exiting)
               PROVE  activeSides[s] \in workers \ toErase /\ pc[activeSides[s]] # "ended"
    BY DEF SeatedWorkerLives
  <2>1. activeSides[s] \in Workers /\ roles[activeSides[s]] = "SERVING_ACTIVE"
    BY NobodyThere DEF Running, SeatTypes, Seats, Maybe, Polite
  <2>2. QED
    BY <2>1 DEF Running, Threads
<1>2. QED
  BY <1>1, ServerPolite, PTL

\* No message is ever addressed to a free side or a removed worker: the
\* lookup that would end the process does not throw.
THEOREM NothingThrown ==
    ASSUME Rude = {}
    PROVE  Spec => []NeverThrows
<1>1. Polite => NeverThrows
  BY DEF Polite, NeverThrows
<1>2. QED
  BY <1>1, ServerPolite, PTL

-----------------------------------------------------------------------------
(* The loop of a thread against the steps of all the others.               *)

\* What any handler does to a worker: whoever gets a message, a kill order
\* or a complete table is woken, and nothing is taken back.
Stirs(v) ==
    /\ jobs[v] = <<>> => jobs'[v] = <<>> \/ pipe'[v]
    /\ killFlag'[v] = killFlag[v] \/ pipe'[v]
    /\ pipe[v] => pipe'[v]
    /\ killFlag[v] => killFlag'[v]
    /\ v \in DOMAIN jobs'

Rouses(v) == Stirs(v) /\ (roles'[v] = "SERVING_ACTIVE" /\ Incomplete /\ ~Incomplete' => pipe'[v])

-----------------------------------------------------------------------------
(* The callbacks.                                                          *)

\* What is delivered wakes.
LEMMA DeliverStirs ==
    ASSUME QueueTypes, NEW mail, NEW killed, NEW woken, deliver(mail, killed, woken), NEW v \in Workers
    PROVE  Stirs(v)
<1>1. mail[v] # <<>> \/ jobs[v] # <<>> \/ jobs'[v] = <<>>
  BY DEF deliver
<1>2. QED
  BY <1>1 DEF deliver, Stirs, QueueTypes

\* However it is sent.
LEMMA SendStirs ==
    ASSUME QueueTypes, NEW v \in Workers, v \in DOMAIN jobs,
           \/ \E f, killed : post(f, killed)
           \/ \E u, msgs, killed : sendTo(u, msgs, killed)
           \/ \E killed : kill(killed)
           \/ UNCHANGED queueVars
    PROVE  Stirs(v)
<1>1. ASSUME NEW f, NEW killed, post(f, killed)
      PROVE  Stirs(v)
  BY <1>1, DeliverStirs DEF post
<1>2. ASSUME NEW u, NEW msgs, NEW killed, sendTo(u, msgs, killed)
      PROVE  Stirs(v)
  BY <1>2, DeliverStirs DEF sendTo
<1>3. ASSUME NEW killed, kill(killed)
      PROVE  Stirs(v)
  BY <1>2, <1>3 DEF kill
<1>4. CASE UNCHANGED queueVars
  BY <1>4 DEF queueVars, Stirs
<1>5. QED
  BY <1>1, <1>2, <1>3, <1>4

\* Who is killed gets the order.
LEMMA KillTells ==
    ASSUME QueueTypes, NEW w \in Workers, kill({w})
    PROVE  killFlag'[w]
BY DEF kill, sendTo, deliver, QueueTypes

\* The seat count.
LEMMA CountType == Running => playersConnected \in 0 .. NSides /\ NSides \in Nat
BY OccupiedFinite, RulesAssumption DEF Running, Seats

\* The arrival that completes the table wakes every player: with its hand
\* when the game starts, by role when it resumes.
LEMMA TakeRouses ==
    ASSUME Running, NEW w \in Workers, NEW side \in Sides, takeSide(side, w), NEW v \in Workers,
           roles'[v] = "SERVING_ACTIVE", ~Incomplete'
    PROVE  pipe'[v]
<1> DEFINE mail == ToWorkers(activeSides', IntroPost(side))
           heldUp == {"SERVING_ACTIVE", "CLEANUP_UNKNOWN", "SERVING_UNKNOWN"}
<1>1. playersConnected + 1 = NSides
  <2>1. playersConnected # NSides
    BY OccupiedFinite DEF takeSide, Occupied, Running, Seats
  <2>2. playersConnected' = playersConnected + 1
    BY DEF takeSide
  <2>3. QED
    BY <2>1, <2>2, CountType DEF Incomplete
<1>2. deliver(mail, {}, IF Resumes THEN WithRoles(heldUp) ELSE {})
  BY DEF takeSide
<1>3. CASE lastDeal = <<>>
  <2>1. PICK s \in Sides : activeSides'[s] = v
    <3>1. SeatTypes' /\ Seats'
      BY TakeSeats DEF Running
    <3>2. workerToSide'[v] \in Sides
      BY <3>1 DEF SeatTypes, Seats, Maybe
    <3>3. QED
      BY <3>1, <3>2 DEF Seats
  <2>2. DEFINE t == CHOOSE u \in Sides : activeSides'[u] = v
  <2>3. t \in Sides
    BY <2>1
  <2>4. mail[v] = IntroPost(side)[t]
    BY <2>1 DEF ToWorkers
  <2>5. IntroPost(side)[t] = <<DealMsg(roundMode, nextMove, hands[t])>> \o PromptNow(t)
    BY <1>1, <1>3, <2>3 DEF IntroPost, Starts
  <2>6. PromptNow(t) = <<>> \/ PromptNow(t) = <<TrickMsg(table, trickNo)>>
    BY DEF PromptNow
  <2>7. mail[v] # <<>>
    BY <2>4, <2>5, <2>6
  <2>8. QED
    BY <1>2, <2>7 DEF deliver
<1>4. CASE lastDeal # <<>>
  <2>1. Resumes
    BY <1>1, <1>4 DEF Resumes
  <2>2. v \in WithRoles(heldUp)
    BY DEF takeSide, setRole, WithRoles, Running, TableTypes
  <2>3. QED
    BY <1>2, <2>1, <2>2 DEF deliver
<1>5. QED
  BY <1>3, <1>4

\* A message of a client.
LEMMA CallRouses ==
    ASSUME Running, NEW w \in Workers, NEW m, m.type = "IAM" => m.side \in Sides,
           NEW done \in BOOLEAN, callback(m, w, done), NEW v \in Workers, v \in DOMAIN jobs
    PROVE  Rouses(v) /\ (v # w => roles'[v] = roles[v])
<1>1. QueueTypes /\ roles = [u \in Workers |-> roles[u]]
  BY DEF Running, TableTypes
<1>2. CASE m.type = "IAM" /\ takeSide(m.side, w)
  <2>1. Stirs(v)
    BY <1>1, <1>2, DeliverStirs DEF takeSide
  <2>2. v # w => roles'[v] = roles[v]
    BY <1>1, <1>2 DEF takeSide, setRole
  <2>3. QED
    BY <1>2, <2>1, <2>2, TakeRouses DEF Rouses
<1>3. CASE answerBusy(m.side, w) \/ dismissRepeat(w) \/ refuseStranger(w)
  <2>1. Stirs(v)
    BY <1>1, <1>3, SendStirs DEF answerBusy, dismissRepeat, refuseStranger
  <2>2. QED
    BY <1>1, <1>3, <2>1 DEF answerBusy, dismissRepeat, refuseStranger, setRole, seatVars, Rouses, Incomplete
<1>4. CASE acceptCard(m.card, w) \/ rejectCard(m.trickNo, m.card, w)
  <2>1. Stirs(v)
    BY <1>1, <1>4, SendStirs DEF acceptCard, rejectCard
  <2>2. QED
    BY <1>4, <2>1 DEF acceptCard, rejectCard, seatVars, tableVars, Rouses, Incomplete
<1>5. CASE handleWrongMessage(w, done) /\ done
  <2>1. Stirs(v)
    BY <1>1, <1>5, SendStirs DEF handleWrongMessage
  <2>2. QED
    BY <1>5, <2>1 DEF handleWrongMessage, seatVars, tableVars, Rouses, Incomplete
<1>6. CASE UNCHANGED <<serverVars, tableVars, queueVars>>
  BY <1>1, <1>6, SendStirs DEF serverVars, seatVars, tableVars, Rouses, Incomplete
<1>7. QED
  BY <1>2, <1>3, <1>4, <1>5, <1>6 DEF callback, playerIntro, playerTricked, ignoreCard, handleWrongMessage

\* What the worker itself learns from it: a message is held back only while
\* a side is free, and who is dismissed is told to go.
LEMMA CallAnswers ==
    ASSUME Running, NEW w \in Workers, NEW m, NEW done \in BOOLEAN, callback(m, w, done)
    PROVE  /\ ~done => Incomplete'
           /\ m.type = "BAD" /\ done => killFlag'[w]
           /\ roles'[w] = "CLEANUP" => roles[w] = "CLEANUP" \/ killFlag'[w]
<1>1. QueueTypes /\ w \in DOMAIN roles
  BY DEF Running, TableTypes
<1>2. ~done => Incomplete'
  BY DEF callback, playerIntro, playerTricked, handleWrongMessage, Suspended, Incomplete, serverVars, seatVars
<1>3. m.type = "BAD" /\ done => killFlag'[w]
  BY <1>1, KillTells DEF callback, handleWrongMessage
<1>4. ASSUME roles'[w] = "CLEANUP", roles[w] # "CLEANUP"
      PROVE  killFlag'[w]
  <2>1. dismissRepeat(w)
    BY <1>1, <1>4 DEF callback, playerIntro, playerTricked, handleWrongMessage, takeSide, answerBusy,
                     acceptCard, rejectCard, refuseStranger, ignoreCard, setRole, tableVars
  <2>2. QED
    BY <1>1, <2>1, KillTells DEF dismissRepeat
<1>5. QED
  BY <1>2, <1>3, <1>4

\* The exit callback.
LEMMA ExitRouses ==
    ASSUME Running, NEW w \in Workers, NEW e \in BOOLEAN, NEW work, NEW quit \in BOOLEAN,
           grandExitCallback(w, e, work, quit), NEW v \in Workers, v \in DOMAIN jobs
    PROVE  Rouses(v) /\ (v # w => roles'[v] = roles[v])
<1>1. QueueTypes /\ roles = [u \in Workers |-> roles[u]]
  BY DEF Running, TableTypes
<1>2. CASE internalError
  <2>1. Stirs(v)
    BY <1>1, <1>2, SendStirs DEF internalError
  <2>2. QED
    BY <1>2, <2>1 DEF internalError, seatVars, Rouses, Incomplete
<1>3. CASE playerLeaves(w, work, quit)
  <2>1. Stirs(v)
    BY <1>1, <1>3, SendStirs DEF playerLeaves, sendNothing
  <2>2. playersConnected' = playersConnected - 1
    BY <1>3 DEF playerLeaves, freeSeat
  <2>3. Incomplete => Incomplete'
    BY <2>2, CountType DEF Incomplete
  <2>4. QED
    BY <1>1, <1>3, <2>1, <2>3 DEF playerLeaves, leaveOrLinger, leave, setRole, Rouses
<1>4. CASE zombieLeaves(w, work, quit) \/ strangerLeaves(w, quit) \/ goneAlready(w, quit)
  <2>1. Stirs(v)
    BY <1>1, <1>4, SendStirs DEF zombieLeaves, strangerLeaves, goneAlready, sendNothing
  <2>2. QED
    BY <1>1, <1>4, <2>1 DEF zombieLeaves, strangerLeaves, goneAlready, leave, setRole, seatVars, Rouses, Incomplete
<1>5. CASE proxyLeaves(w, quit)
  <2>1. Stirs(v)
    BY <1>1, <1>5, SendStirs DEF proxyLeaves
  <2>2. QED
    BY <1>1, <1>5, <2>1 DEF proxyLeaves, leave, setRole, seatVars, Rouses, Incomplete
<1>6. QED
  BY <1>2, <1>3, <1>4, <1>5 DEF grandExitCallback

\* Only a zombie may have to go on, and an error changes no role.
LEMMA ExitAnswers ==
    ASSUME Running, NEW w \in Workers, NEW e \in BOOLEAN, NEW work, NEW quit \in BOOLEAN,
           grandExitCallback(w, e, work, quit)
    PROVE  /\ ~quit => roles'[w] \in {"CLEANUP", "CLEANUP_UNKNOWN"}
           /\ e => roles' = roles
<1>1. w \in DOMAIN roles
  BY DEF Running, TableTypes
<1>2. CASE e /\ quit /\ internalError
  BY <1>2 DEF internalError
<1>3. CASE ~e /\ playerLeaves(w, work, quit)
  BY <1>1, <1>3 DEF playerLeaves, leaveOrLinger, leave, setRole
<1>4. CASE ~e /\ zombieLeaves(w, work, quit)
  BY <1>4 DEF zombieLeaves
<1>5. CASE ~e /\ quit
  BY <1>5
<1>6. QED
  BY <1>2, <1>3, <1>4, <1>5 DEF grandExitCallback, strangerLeaves, proxyLeaves, goneAlready

\* A timeout.
LEMMA TimeoutRouses ==
    ASSUME Running, NEW w \in Workers, handleTimeout(w), NEW v \in Workers, v \in DOMAIN jobs
    PROVE  Rouses(v) /\ roles'[v] = roles[v]
<1>1. Stirs(v)
  BY SendStirs DEF handleTimeout, sendNothing, Running
<1>2. QED
  BY <1>1 DEF handleTimeout, seatVars, tableVars, Rouses, Incomplete

-----------------------------------------------------------------------------
(* The loop of one thread.                                                 *)

\* Where a thread still has the queue, the orders or the messages before it.
BeforeDrain == {"socket", "drain", "final", "ended"}
BeforeOrder == BeforeDrain \cup {"send", "lastSend"}
Obeying == {"drain", "send", "lastSend"}

\* A thread that has work is woken or on the way to it.  Without a connection
\* it waits for nothing more, unless it is a zombie.
Wakeful(w) ==
    /\ w \in DOMAIN jobs /\ w \in DOMAIN pout
    /\ jobs[w] # <<>> => pipe[w] \/ pc[w] \in BeforeDrain
    /\ killFlag[w] => pipe[w] \/ conn[w] = "closed" \/ pc[w] \in BeforeOrder
    /\ conn[w] = "quit" => killFlag[w] /\ pc[w] \in Obeying
    /\ pc[w] = "none" => conn[w] = "open"
    /\ pc[w] \in {"poll", "socket", "arm"} => conn[w] = "open" \/ roles[w] \in {"CLEANUP", "CLEANUP_UNKNOWN"}
    /\ roles[w] = "SERVING_ACTIVE" /\ conn[w] = "open" /\ ~Incomplete =>
         /\ pin[w] # None => pipe[w] \/ pc[w] \in {"socket", "final", "ended"}
         /\ pout[w] # <<>> => pipe[w] \/ pc[w] \in BeforeOrder
    /\ pc[w] \in {"exit", "failed", "quitting", "lastArm"} => conn[w] # "open"
    /\ pc[w] = "final" => conn[w] # "open" \/ err[w]
    /\ roles[w] = "CLEANUP" => conn[w] # "open" \/ (killFlag[w] /\ pc[w] \in Obeying)

Awake == \A w \in Workers : Wakeful(w)

\* A step of another thread: it may stir the worker, or start it.
Elsewhere(v) ==
    /\ Rouses(v)
    /\ v \in DOMAIN pout'
    /\ pin'[v] = pin[v] /\ pout'[v] = pout[v] /\ conn'[v] = conn[v] /\ err'[v] = err[v]
    /\ \/ pc'[v] = pc[v] /\ roles'[v] = roles[v]
       \/ pc[v] = "none" /\ pc'[v] = "poll" /\ roles'[v] = "SERVING_UNKNOWN"

\* Such a step loses no wake-up.
LEMMA ElsewhereWakes ==
    ASSUME QueueTypes, NEW v, Wakeful(v), Elsewhere(v)
    PROVE  Wakeful(v)'
BY DEF Wakeful, Elsewhere, Rouses, Stirs, BeforeDrain, BeforeOrder, Obeying

\* A step that changes nothing of the other threads.
Alone(w) ==
    /\ UNCHANGED <<seatVars, roles, killFlag, pin>>
    /\ \E x : Set(pc, w, x)
    /\ UNCHANGED jobs \/ \E x : Set(jobs, w, x)
    /\ UNCHANGED pipe \/ \E x : Set(pipe, w, x)
    /\ UNCHANGED pout \/ \E x : Set(pout, w, x)
    /\ UNCHANGED conn \/ \E x : Set(conn, w, x)
    /\ UNCHANGED err \/ \E x : Set(err, w, x)

\* The others do not notice it.
LEMMA AloneElsewhere ==
    ASSUME Running, Awake, NEW w \in Workers, Alone(w), NEW v \in Workers \ {w}
    PROVE  Elsewhere(v)
<1>1. /\ v \in DOMAIN jobs' /\ v \in DOMAIN pout' /\ v \in DOMAIN jobs
      /\ jobs'[v] = jobs[v] /\ pout'[v] = pout[v]
  BY DEF Alone, Set, Awake, Wakeful
<1>2. pipe'[v] = pipe[v] /\ conn'[v] = conn[v] /\ err'[v] = err[v] /\ pc'[v] = pc[v]
  BY DEF Alone, Set, Running, QueueTypes, LoopTypes
<1>3. QED
  BY <1>1, <1>2 DEF Alone, Elsewhere, Rouses, Stirs, seatVars, Incomplete

\* What every thread sees of a step of w.
Stays(w) == Wakeful(w)' /\ \A v \in Workers \ {w} : Elsewhere(v)

\* The types of what a thread has of its own.
OwnTypes(w) ==
    /\ w \in DOMAIN jobs /\ w \in DOMAIN pout /\ w \in DOMAIN pin /\ w \in DOMAIN roles
    /\ w \in DOMAIN pc /\ w \in DOMAIN conn /\ w \in DOMAIN err /\ w \in DOMAIN pipe

\* They are right.
LEMMA Owned == ASSUME Running, Awake, NEW w \in Workers PROVE OwnTypes(w)
BY DEF Running, LoopTypes, TableTypes, QueueTypes, Inputs, Awake, Wakeful, OwnTypes

\* The thread goes on by itself, from the wake-up to the queue,
LEMMA FirstHalf ==
    ASSUME Running, Awake, NEW w \in Workers, wakeByPipe(w) \/ pollFails(w) \/ pipeFails(w) \/ drain(w)
    PROVE  Stays(w)
<1> USE DEF OwnTypes, Wakeful, BeforeDrain, BeforeOrder, Obeying, Incomplete, Set,
            sharedVars, serverVars, seatVars, tableVars, queueVars
<1>1. Wakeful(w) /\ OwnTypes(w)
  BY Owned DEF Awake
<1>2. CASE wakeByPipe(w)
  <2>1. Wakeful(w)'
    BY <1>1, <1>2 DEF wakeByPipe
  <2>2. Alone(w)
    BY <1>2 DEF wakeByPipe, Alone
  <2>3. QED
    BY <2>1, <2>2, AloneElsewhere DEF Stays
<1>3. CASE pollFails(w)
  <2>1. Wakeful(w)'
    BY <1>1, <1>3 DEF pollFails
  <2>2. Alone(w)
    BY <1>3 DEF pollFails, Alone
  <2>3. QED
    BY <2>1, <2>2, AloneElsewhere DEF Stays
<1>4. CASE pipeFails(w)
  <2>1. Wakeful(w)'
    BY <1>1, <1>4 DEF pipeFails
  <2>2. Alone(w)
    BY <1>4 DEF pipeFails, Alone
  <2>3. QED
    BY <2>1, <2>2, AloneElsewhere DEF Stays
<1>5. CASE drain(w)
  <2>1. Wakeful(w)'
    BY <1>1, <1>5 DEF drain, takeJobs
  <2>2. Alone(w)
    BY <1>5 DEF drain, takeJobs, Alone
  <2>3. QED
    BY <2>1, <2>2, AloneElsewhere DEF Stays
<1>6. QED
  BY <1>2, <1>3, <1>4, <1>5

\* and from there to the next wait or the end.
LEMMA SecondHalf ==
    ASSUME Running, Awake, NEW w \in Workers,
           sendOne(w) \/ sendFails(w) \/ queueDone(w) \/ obeyKill(w) \/ closeConn(w)
    PROVE  Stays(w)
<1> USE DEF OwnTypes, Wakeful, BeforeDrain, BeforeOrder, Obeying, Incomplete, Set,
            sharedVars, serverVars, seatVars, tableVars, queueVars
<1>1. Wakeful(w) /\ OwnTypes(w)
  BY Owned DEF Awake
<1>2. CASE sendOne(w)
  <2>1. Wakeful(w)'
    BY <1>1, <1>2 DEF sendOne
  <2>2. Set(pc, w, pc[w])
    BY <1>2 DEF sendOne, Running, LoopTypes
  <2>3. Alone(w)
    BY <1>2, <2>2 DEF sendOne, Alone
  <2>4. QED
    BY <2>1, <2>3, AloneElsewhere DEF Stays
<1>3. CASE sendFails(w)
  <2>1. Wakeful(w)'
    BY <1>1, <1>3 DEF sendFails
  <2>2. Alone(w)
    BY <1>3 DEF sendFails, Alone
  <2>3. QED
    BY <2>1, <2>2, AloneElsewhere DEF Stays
<1>4. CASE queueDone(w)
  <2>1. conn[w] = "closed" \/ pout[w] = <<>> \/ Incomplete
    BY <1>4 DEF queueDone, MaySend, Suspended
  <2>2. pc'[w] = IF conn[w] # "open" THEN "exit" ELSE LoopOr(w, "arm")
    BY <1>1, <1>4 DEF queueDone
  <2>3. LoopOr(w, "arm") \in {"arm", "poll"}
    BY DEF LoopOr
  <2>4. Wakeful(w)'
    BY <1>1, <1>4, <2>1, <2>2, <2>3
    DEF queueDone
  <2>5. Alone(w)
    BY <1>4 DEF queueDone, Alone
  <2>6. QED
    BY <2>4, <2>5, AloneElsewhere DEF Stays
<1>5. CASE obeyKill(w)
  <2>1. Wakeful(w)'
    BY <1>1, <1>5 DEF obeyKill, takeJobs
  <2>2. Alone(w)
    BY <1>5 DEF obeyKill, takeJobs, Alone
  <2>3. QED
    BY <2>1, <2>2, AloneElsewhere DEF Stays
<1>6. CASE closeConn(w)
  <2>1. Wakeful(w)'
    BY <1>1, <1>6 DEF closeConn
  <2>2. Alone(w)
    BY <1>6 DEF closeConn, Alone
  <2>3. QED
    BY <2>1, <2>2, AloneElsewhere DEF Stays
<1>7. QED
  BY <1>2, <1>3, <1>4, <1>5, <1>6

\* A thread whose socket is looked at has no message pending, or has been
\* woken, and its connection is there.
Looks(w) ==
    \/ pc[w] = "poll" /\ (conn[w] = "closed" \/ (conn[w] = "open" /\ pin[w] = None))
    \/ pc[w] = "socket"

\* Neither a socket without news nor a client that hangs up costs a wake-up.
LEMMA QuietLook ==
    ASSUME Running, Awake, NEW w \in Workers, Looks(w),
           hangup(w) \/ (noAction(w) /\ (conn[w] # "open" \/ pin[w] = None)),
           UNCHANGED <<pout, err>>
    PROVE  Stays(w)
<1> USE DEF OwnTypes, Wakeful, BeforeDrain, BeforeOrder, Obeying, Incomplete, Set,
            sharedVars, serverVars, seatVars, tableVars, queueVars
<1>1. Wakeful(w) /\ OwnTypes(w)
  BY Owned DEF Awake
<1>2. Wakeful(w)'
  BY <1>1 DEF hangup, noAction, Looks
<1>3. Alone(w)
  BY DEF hangup, noAction, Alone
<1>4. QED
  BY <1>2, <1>3, AloneElsewhere DEF Stays

\* Nor does a message: what is held back is held back by a free side.
LEMMA MessageLook ==
    ASSUME Running, Awake, NEW w \in Workers, Looks(w), conn[w] = "open",
           NEW m, m.type = "IAM" => m.side \in Sides, process(w, m), UNCHANGED <<pout, err>>
    PROVE  Stays(w)
<1>1. Wakeful(w) /\ OwnTypes(w)
  BY Owned DEF Awake
<1>2. PICK done \in BOOLEAN :
         /\ callback(m, w, done)
         /\ Set(pin, w, IF done THEN None ELSE m)
         /\ Set(conn, w, IF done /\ m.type = "BAD" THEN "quit" ELSE conn[w])
  BY DEF process
<1>3. \A v \in Workers : Rouses(v) /\ (v # w => roles'[v] = roles[v])
  BY <1>2, CallRouses DEF Awake, Wakeful
<1>4. /\ ~done => Incomplete'
      /\ m.type = "BAD" /\ done => killFlag'[w]
      /\ roles'[w] = "CLEANUP" => roles[w] = "CLEANUP" \/ killFlag'[w]
  BY <1>2, CallAnswers
<1>5. pc'[w] = "drain" /\ pin'[w] = (IF done THEN None ELSE m)
  BY <1>1, <1>2 DEF process, Set, OwnTypes
<1>6. conn'[w] = IF done /\ m.type = "BAD" THEN "quit" ELSE conn[w]
  BY <1>1, <1>2 DEF Set, OwnTypes
<1>7. Wakeful(w)'
  BY <1>1, <1>3, <1>4, <1>5, <1>6 DEF Wakeful, Looks, Rouses, Stirs, BeforeDrain, BeforeOrder, Obeying
<1>8. ASSUME NEW v \in Workers \ {w}
      PROVE  Elsewhere(v)
  <2>1. pin'[v] = pin[v] /\ conn'[v] = conn[v] /\ pc'[v] = pc[v]
    BY <1>2 DEF process, Set, Running, LoopTypes, Inputs
  <2>2. QED
    BY <1>3, <2>1 DEF Elsewhere, Awake, Wakeful
<1>9. QED
  BY <1>7, <1>8 DEF Stays

\* A new worker starts without work.
LEMMA ListenerLook ==
    ASSUME Running, Awake, NEW w \in Workers, Looks(w), conn[w] # "open" \/ pin[w] = None,
           acceptAction(w), UNCHANGED <<pout, err, cleanerVars>>
    PROVE  Stays(w)
<1>1. Wakeful(w) /\ OwnTypes(w)
  BY Owned DEF Awake
<1>2. nextIx \in Workers /\ nextIx # w /\ pc[nextIx] = "none"
  BY MgrAssumption DEF Looks, acceptAction, forwardConnection, spawnNewWorker, Running, TableTypes, Threads, Workers
<1>3. UNCHANGED <<queueVars, seatVars, pin, conn>> /\ roles' = [roles EXCEPT ![nextIx] = "SERVING_UNKNOWN"]
  BY DEF acceptAction, forwardConnection, spawnNewWorker, setRole, serverVars
<1>4. pc'[w] = "drain" /\ roles'[w] = roles[w]
  BY <1>1, <1>2, <1>3 DEF acceptAction, OwnTypes
<1>5. Wakeful(w)'
  BY <1>1, <1>3, <1>4 DEF Wakeful, Looks, queueVars, seatVars, Incomplete, BeforeDrain, BeforeOrder, Obeying
<1>6. ASSUME NEW v \in Workers \ {w}
      PROVE  Elsewhere(v)
  <2>1. Rouses(v) /\ v \in DOMAIN pout'
    BY <1>3 DEF Rouses, Stirs, queueVars, seatVars, Incomplete, Awake, Wakeful
  <2>2. IF v = nextIx THEN pc'[v] = "poll" /\ roles'[v] = "SERVING_UNKNOWN"
                      ELSE pc'[v] = pc[v] /\ roles'[v] = roles[v]
    BY <1>2, <1>3 DEF acceptAction, Running, LoopTypes, TableTypes
  <2>3. QED
    BY <1>2, <1>3, <2>1, <2>2 DEF Elsewhere
<1>7. QED
  BY <1>5, <1>6 DEF Stays

\* A thread that asks to end ends, or is a zombie.
LEMMA ExitStays ==
    ASSUME Running, Awake, NEW w \in Workers,
           (overflow(w) /\ Looks(w) /\ UNCHANGED <<pout, err>>) \/ askExit(w) \/ final(w)
    PROVE  Stays(w)
<1>1. Wakeful(w) /\ OwnTypes(w) /\ err[w] \in BOOLEAN
  BY Owned DEF Awake, Running, LoopTypes
<1>2. PICK work \in BOOLEAN, quit \in BOOLEAN :
         /\ grandExitCallback(w, err[w], work, quit)
         /\ \/ overflow(w) /\ Set(pc, w, IF quit THEN "final" ELSE "drain")
            \/ askExit(w) /\ Set(pc, w, IF quit THEN "final" ELSE Refused(w))
            \/ final(w) /\ Set(pc, w, "ended")
  BY DEF overflow, askExit, final, HasWork
<1>3. \A v \in Workers : Rouses(v) /\ (v # w => roles'[v] = roles[v])
  BY <1>1, <1>2, ExitRouses DEF Awake, Wakeful
<1>4. /\ ~quit => roles'[w] \in {"CLEANUP", "CLEANUP_UNKNOWN"}
      /\ err[w] => roles' = roles
  BY <1>1, <1>2, ExitAnswers
<1>5. UNCHANGED <<pin, pout, err>>
  BY DEF overflow, askExit, final
<1>6. Wakeful(w)'
  <2>1. CASE overflow(w) /\ Set(pc, w, IF quit THEN "final" ELSE "drain")
    <3>1. conn'[w] = "closed" /\ pc'[w] \in {"final", "drain"}
      BY <1>1, <2>1 DEF overflow, Set, OwnTypes
    <3>2. QED
      BY <1>1, <1>3, <1>5, <3>1 DEF Wakeful, Rouses, Stirs, BeforeDrain, BeforeOrder, Obeying
  <2>2. CASE askExit(w) /\ Set(pc, w, IF quit THEN "final" ELSE Refused(w))
    <3>1. conn'[w] = conn[w] /\ conn[w] # "open" /\ pc[w] \in {"exit", "failed", "quitting"}
      BY <1>1, <2>2 DEF askExit, Wakeful
    <3>2. pc'[w] \in {"final", "poll", "arm", "lastArm"} /\ (quit => pc'[w] = "final")
      BY <1>1, <2>2 DEF Set, Refused, LoopOr, OwnTypes
    <3>3. QED
      BY <1>1, <1>3, <1>4, <1>5, <3>1, <3>2 DEF Wakeful, Rouses, Stirs, BeforeDrain, BeforeOrder, Obeying
  <2>3. CASE final(w) /\ Set(pc, w, "ended")
    <3>1. conn'[w] = conn[w] /\ pc[w] = "final" /\ pc'[w] = "ended"
      BY <1>1, <2>3 DEF final, Set, OwnTypes
    <3>2. QED
      BY <1>1, <1>3, <1>4, <1>5, <3>1 DEF Wakeful, Rouses, Stirs, BeforeDrain, BeforeOrder, Obeying
  <2>4. QED
    BY <1>2, <2>1, <2>2, <2>3
<1>7. ASSUME NEW v \in Workers \ {w}
      PROVE  Elsewhere(v)
  <2>1. conn'[v] = conn[v] /\ pc'[v] = pc[v]
    BY <1>2 DEF overflow, askExit, final, Set, Running, LoopTypes
  <2>2. QED
    BY <1>3, <1>5, <2>1 DEF Elsewhere, Awake, Wakeful
<1>8. QED
  BY <1>6, <1>7 DEF Stays

\* A timer that runs out takes nothing from the thread it wakes.
LEMMA TimerStays ==
    ASSUME Running, Awake, NEW w \in Workers, timeOut(w) \/ arm(w)
    PROVE  Stays(w)
<1>1. Wakeful(w) /\ OwnTypes(w)
  BY Owned DEF Awake
<1>2. \A v \in Workers : Rouses(v) /\ roles'[v] = roles[v]
  <2>1. CASE handleTimeout(w)
    BY <2>1, TimeoutRouses DEF Awake, Wakeful
  <2>2. CASE UNCHANGED sharedVars
    BY <2>2 DEF Rouses, Stirs, sharedVars, serverVars, seatVars, tableVars, queueVars, Incomplete, Awake, Wakeful
  <2>3. QED
    BY <2>1, <2>2 DEF timeOut, arm
<1>3. /\ UNCHANGED <<pin, pout, conn, err>>
      /\ \/ pc[w] \in {"poll", "arm"} /\ Set(pc, w, "poll")
         \/ pc[w] = "lastArm" /\ Set(pc, w, "final")
  BY DEF timeOut, arm, Set, Running, LoopTypes
<1>4. Wakeful(w)'
  BY <1>1, <1>2, <1>3 DEF Wakeful, OwnTypes, Set, Rouses, Stirs, BeforeDrain, BeforeOrder, Obeying
<1>5. ASSUME NEW v \in Workers \ {w}
      PROVE  Elsewhere(v)
  BY <1>2, <1>3 DEF Elsewhere, Set, Running, LoopTypes, Awake, Wakeful
<1>6. QED
  BY <1>4, <1>5 DEF Stays

\* Whatever a socket has for its thread.
LEMMA SocketStays ==
    ASSUME Running, Awake, NEW w \in Workers, Looks(w), conn[w] = "open", pin[w] = None,
           socketReady(w), UNCHANGED <<pout, err, cleanerVars>>
    PROVE  Stays(w)
<1>1. CASE acceptAction(w)
  BY <1>1, ListenerLook
<1>2. CASE w # Proxy /\ receive(w)
  <2>1. PICK m \in Says(w) : process(w, m)
    BY <1>2 DEF receive
  <2>2. QED
    BY <1>2, <2>1, SaidSide, MessageLook
<1>3. CASE partOfMessage(w) \/ hangup(w)
  BY <1>3, QuietLook DEF partOfMessage
<1>4. CASE overflow(w)
  BY <1>4, ExitStays
<1>5. QED
  BY <1>1, <1>2, <1>3, <1>4 DEF socketReady

\* Every step of a thread keeps every thread wakeful.
LEMMA StepStays ==
    ASSUME Running, Awake, NEW w \in Workers, threadStep(w) \/ outside(w) \/ fault(w)
    PROVE  Stays(w)
<1>1. CASE lookAtSocket(w)
  <2>1. Looks(w) /\ UNCHANGED <<cleanerVars, pout, err>>
    BY <1>1 DEF lookAtSocket, Looks
  <2>2. CASE noAction(w) /\ (conn[w] # "open" \/ pin[w] = None)
    BY <2>1, <2>2, QuietLook
  <2>3. CASE conn[w] = "open" /\ process(w, pin[w])
    <3>1. pin[w].type = "IAM" => pin[w].side \in Sides
      BY DEF Running, Inputs
    <3>2. PICK m : process(w, m) /\ (m.type = "IAM" => m.side \in Sides)
      BY <2>3, <3>1 DEF process
    <3>3. QED
      BY <2>1, <2>3, <3>2, MessageLook
  <2>4. CASE conn[w] = "open" /\ pin[w] = None /\ socketReady(w)
    BY <2>1, <2>4, SocketStays
  <2>5. QED
    BY <1>1, <2>2, <2>3, <2>4 DEF lookAtSocket
<1>2. CASE wakeBySocket(w)
  <2>1. pin[w] = None /\ conn[w] = "open"
    BY <1>2 DEF wakeBySocket, PolledFd, Socket, Awake, Wakeful, Obeying, Running, LoopTypes
  <2>2. QED
    BY <1>2, <2>1, SocketStays DEF wakeBySocket, Looks
<1>3. CASE wakeByStdout(w)
  <2>1. conn[w] = "closed"
    BY <1>3 DEF wakeByStdout, PolledFd, Socket, StdOut
  <2>2. QED
    BY <1>3, <2>1, QuietLook DEF wakeByStdout, Looks
<1>4. QED
  BY <1>1, <1>2, <1>3, FirstHalf, SecondHalf, ExitStays, TimerStays DEF threadStep, outside, fault

\* Nobody has work at the start.
LEMMA InitAwake == Init => Awake
BY DEF Init, ServerInit, MgrInit, Awake, Wakeful, BeforeDrain, BeforeOrder, Obeying

\* With Running it is inductive.
LEMMA StepAwake == Running /\ Awake /\ [Next]_vars => Awake'
<1> SUFFICES ASSUME Running, Awake, [Next]_vars, NEW v \in Workers
             PROVE  Wakeful(v)'
  BY DEF Awake
<1>1. ASSUME NEW w \in Workers, threadStep(w) \/ outside(w) \/ fault(w)
      PROVE  Wakeful(v)'
  BY <1>1, StepStays, ElsewhereWakes DEF Stays, Running, Awake
<1>2. CASE cleanerTakes \/ cleanerJoins
  <2>1. UNCHANGED <<serverVars, roles, killFlag, pipe, threadVars>>
    BY <1>2 DEF cleanerTakes, takeFinished, cleanerJoins, joinFinished, tableVars, queueVars
  <2>2. v \in DOMAIN jobs' /\ (jobs'[v] = jobs[v] \/ jobs'[v] = <<>>)
    BY <1>2 DEF cleanerTakes, takeFinished, cleanerJoins, joinFinished, queueVars, Awake, Wakeful
  <2>3. QED
    BY <2>1, <2>2 DEF serverVars, seatVars, threadVars, Incomplete, Awake, Wakeful
<1>3. CASE UNCHANGED vars
  BY <1>3 DEF vars, sharedVars, serverVars, seatVars, tableVars, queueVars, threadVars, Incomplete, Awake, Wakeful
<1>4. QED
  BY <1>1, <1>2, <1>3 DEF Next

\* In every state of the server, whoever its clients are.
THEOREM ServerAwake == Spec => [](Running /\ Awake)
BY InitRunning, StepRuns, InitAwake, StepAwake, PTL DEF Spec

\* A thread that sleeps in poll has nothing to do: no message, kill order or
\* complete table comes without a byte in its pipe, however the handlers of
\* the other threads and its own iteration interleave.
THEOREM NoWakeUpLost == Spec => []NobodySleepsOnWork
<1>1. Running /\ Awake => NobodySleepsOnWork
  <2> SUFFICES ASSUME Running, Awake, NEW w \in workers, Asleep(w)
               PROVE  /\ jobs[w] = <<>>
                      /\ killFlag[w] => conn[w] = "closed"
                      /\ roles[w] = "SERVING_ACTIVE" /\ ~Incomplete => pin[w] = None /\ pout[w] = <<>>
    BY DEF NobodySleepsOnWork
  <2>1. w \in Workers
    BY MgrAssumption DEF Running, TableTypes, Workers
  <2>2. QED
    BY <2>1 DEF Awake, Wakeful, Asleep, BeforeDrain, BeforeOrder
<1>2. QED
  BY <1>1, ServerAwake, PTL

\* A thread that has been told to go and waits in poll all the same is a
\* zombie: at the end of the server the exit rule for zombies is the only
\* one that can keep the cleaner waiting.
THEOREM ZombiesLinger == Spec => []OnlyZombiesLinger
<1>1. Running /\ Awake => OnlyZombiesLinger
  <2> SUFFICES ASSUME Running, Awake, NEW w \in workers \ toErase, exiting, killFlag[w], Asleep(w)
               PROVE  roles[w] \in {"CLEANUP", "CLEANUP_UNKNOWN"}
    BY DEF OnlyZombiesLinger
  <2>1. w \in Workers
    BY MgrAssumption DEF Running, TableTypes, Workers
  <2>2. QED
    BY <2>1 DEF Awake, Wakeful, Asleep, BeforeOrder, BeforeDrain
<1>2. QED
  BY <1>1, ServerAwake, PTL

-----------------------------------------------------------------------------
(* Who moves the game.                                                     *)

\* The only step that moves the game is the callback for a card.
LEMMA CardMoves ==
    ASSUME Running, Awake, NEW w \in Workers, threadStep(w) \/ outside(w) \/ fault(w), gameVars' # gameVars
    PROVE  /\ pc[w] \in {"poll", "socket"} /\ pc'[w] = "drain" /\ conn[w] = "open"
           /\ ~Incomplete /\ \E card : acceptCard(card, w)
<1>1. ASSUME NEW m, process(w, m)
      PROVE  pc'[w] = "drain" /\ ~Incomplete /\ \E card : acceptCard(card, w)
  <2>1. pc'[w] = "drain"
    BY <1>1 DEF process, Set, Running, LoopTypes
  <2>2. PICK done \in BOOLEAN : callback(m, w, done)
    BY <1>1 DEF process
  <2>3. playerTricked(m.trickNo, m.card, w, done)
    BY <2>2, IntroKeepsGame DEF callback, handleWrongMessage
  <2>4. QED
    BY <2>1, <2>3 DEF playerTricked, rejectCard, refuseStranger, ignoreCard
<1>2. socketReady(w) => \E m : process(w, m)
  BY ExitKeepsGame DEF socketReady, acceptAction, forwardConnection, receive, partOfMessage, noAction, hangup,
                       overflow, sharedVars, Running, LoopTypes
<1>3. CASE lookAtSocket(w)
  <2>1. ~noAction(w)
    BY DEF noAction, sharedVars
  <2>2. pc[w] = "socket" /\ conn[w] = "open" /\ (process(w, pin[w]) \/ socketReady(w))
    BY <1>3, <2>1 DEF lookAtSocket
  <2>3. \E m : process(w, m)
    BY <1>2, <2>2 DEF process
  <2>4. QED
    BY <1>1, <2>2, <2>3
<1>4. CASE wakeBySocket(w)
  <2>1. conn[w] = "open"
    BY <1>4 DEF wakeBySocket, PolledFd, Socket, Awake, Wakeful, Obeying, Running, LoopTypes
  <2>2. QED
    BY <1>1, <1>2, <1>4, <2>1 DEF wakeBySocket
<1>5. ~timeOut(w) /\ ~arm(w)
  BY TimeoutKeepsGame DEF timeOut, arm, sharedVars
<1>6. ~askExit(w) /\ ~final(w)
  BY ExitKeepsGame DEF askExit, final, Running, LoopTypes
<1>7. ~wakeByPipe(w) /\ ~drain(w) /\ ~obeyKill(w) /\ ~sendOne(w) /\ ~queueDone(w) /\ ~closeConn(w)
  BY DEF wakeByPipe, drain, obeyKill, sendOne, queueDone, closeConn, sharedVars
<1>8. ~wakeByStdout(w) /\ ~fault(w)
  BY DEF wakeByStdout, noAction, fault, pollFails, pipeFails, sendFails, sharedVars
<1>9. QED
  BY <1>3, <1>4, <1>5, <1>6, <1>7, <1>8 DEF threadStep, outside

\* The game is moved only while the table is complete, by the thread that
\* holds the seat of the side to move: a thread dismissed with its connection
\* open obeys its kill order before it looks at its socket again.
THEOREM MovesOnlyByTheMover == Spec => OnlyTheMoverMoves
<1> DEFINE Moved == gameVars' # gameVars =>
                      /\ ~Incomplete
                      /\ activeSides[nextMove] # NoWorker
                      /\ workerToSide[activeSides[nextMove]] = nextMove
                      /\ pc'[activeSides[nextMove]] # pc[activeSides[nextMove]]
<1>1. Running /\ Awake /\ [Next]_vars => [Moved]_vars
  <2> SUFFICES ASSUME Running, Awake, [Next]_vars, gameVars' # gameVars
               PROVE  Moved
    OBVIOUS
  <2>1. PICK w \in Workers : threadStep(w) \/ outside(w) \/ fault(w)
    BY DEF Next, cleanerTakes, cleanerJoins, vars, sharedVars
  <2>2. PICK card : acceptCard(card, w)
    BY <2>1, CardMoves
  <2>3. roles[w] = "SERVING_ACTIVE"
    BY <2>1, <2>2, CardMoves DEF acceptCard, IsPlayer, Awake, Wakeful, Obeying
  <2>4. nextMove = workerToSide[w]
    BY <2>2, <2>3 DEF acceptCard, SenderSide, Play, mayPlay
  <2>5. nextMove \in Sides /\ activeSides[nextMove] = w
    BY <2>3, <2>4 DEF Running, SeatTypes, Seats, Maybe
  <2>6. QED
    BY <2>1, <2>4, <2>5, CardMoves, NobodyThere
<1>2. QED
  BY <1>1, ServerAwake, PTL DEF Spec, OnlyTheMoverMoves
==============================================================================
