------------------------------- MODULE IOWorker -------------------------------
(***************************************************************************)
(* The loop of a worker thread (io_worker.cpp, io_worker_handler.cpp,      *)
(* io_worker_connect.cpp) around the callbacks of module Server, the       *)
(* cleaner, and the clients at the other end of the connections: the       *)
(* whole running server.                                                   *)
(*                                                                         *)
(* One iteration of IOWorker::run is cut where another thread can come     *)
(* between two accesses to shared state: poll with handlePipe and          *)
(* socketAction (one callback at most), the drain of the job queue, each   *)
(* send, the look at the kill order, the exit callback, the timer.         *)
(***************************************************************************)
EXTENDS Server

CONSTANTS
    Rude,        \* connections that send anything; the others are clients of src/client
    Wants,       \* the sides the client of each connection may ask for
    MaxInput,    \* bound: messages one connection sends
    MaxOpen,     \* bound: client connections open at the same time
    Leavers,     \* connections whose clients may hang up at any time
    MaxUnread,   \* bound: messages on their way to a client whose timer runs out
    Timeout,     \* the -t option; negative waits for ever
    Faults       \* system calls that may fail: "poll", "send", "read"

Handlers == Workers \ {Proxy}

ASSUME LoopAssumption ==
    /\ Rude \subseteq Handlers
    /\ Wants \in [Handlers -> SUBSET Sides]
    /\ {MaxInput, MaxOpen} \subseteq Nat
    /\ Leavers \subseteq Handlers
    /\ MaxUnread \in Nat
    /\ Timeout \in Int
    /\ Faults \subseteq {"poll", "send", "read"}

VARIABLES
    pc,       \* where each thread is
    pin,      \* pendingIncoming: the message not dealt with yet, or None
    pout,     \* pendingOutgoing
    conn,     \* "open", "quit" (wantToToQuit) or "closed" (closedFd as well)
    err,      \* an internal error is in errs
    armed,    \* nextTimeout # -1
    resp,     \* responseTimeout is set
    asked,    \* client: trick numbers of the prompts it has not answered
    spoken,   \* client: messages sent so far
    told      \* client: what it was told since the last DEAL, prompts aside

threadVars == <<pc, pin, pout, conn, err, armed, resp>>
clientVars == <<asked, spoken, told>>
sharedVars == <<gameVars, serverVars, tableVars, queueVars>>
vars == <<sharedVars, cleanerVars, threadVars, clientVars>>

None == [type |-> "none"]
Set(f, w, x) == f' = [f EXCEPT ![w] = x]

Init ==
    /\ ServerInit
    /\ pc = [w \in Workers |-> IF w = Proxy THEN "poll" ELSE "none"]
    /\ pin = [w \in Workers |-> None]
    /\ pout = [w \in Workers |-> <<>>]
    /\ conn = [w \in Workers |-> "open"]
    /\ err = [w \in Workers |-> FALSE]
    /\ armed = [w \in Workers |-> FALSE]
    /\ resp = [w \in Workers |-> Timeout > 0 /\ w # Proxy]   \* the listener has no timeout
    /\ asked = [w \in Workers |-> <<>>]
    /\ spoken = [w \in Workers |-> 0]
    /\ told = [w \in Workers |-> <<>>]

-----------------------------------------------------------------------------
(* The clients.                                                            *)

Iam(s) == [type |-> "IAM", side |-> s]
TrickC(no, card) == [type |-> "TRICK", trickNo |-> no, card |-> card]
Bad == [type |-> "BAD"]          \* parseNetMsg makes nothing of it

\* A client of src/client introduces itself once and answers each TRICK and
\* WRONG with a card it believes to hold; any other client may say anything.
KierkiSays(w) ==
    IF spoken[w] = 0 THEN {Iam(s) : s \in Wants[w]}
    ELSE IF asked[w] # <<>> /\ workerToSide[w] # NoSide
           THEN {TrickC(Head(asked[w]), card) : card \in hands[workerToSide[w]]}
           ELSE {}

AnyoneSays(w) ==
    {Iam(s) : s \in Wants[w]}
      \cup {TrickC(no, card) : no \in {trickNo, trickNo + 1}, card \in UNION {hands[s] : s \in Sides}}
      \cup {Bad}

Says(w) ==
    IF spoken[w] = MaxInput THEN {}
    ELSE IF w \in Rude THEN AnyoneSays(w) ELSE KierkiSays(w)

\* A busy client goes away by itself (client.cpp:186-196).
HangsUp(w) ==
    \/ w \in Leavers
    \/ told[w] # <<>> /\ told[w][Len(told[w])].type = "BUSY"

Speak(w, m) ==
    /\ Set(spoken, w, spoken[w] + 1)
    /\ Set(asked, w, IF m.type = "TRICK" /\ asked[w] # <<>> THEN Tail(asked[w]) ELSE asked[w])
    /\ UNCHANGED told

Hear(w, m) ==
    /\ Set(asked, w, IF m.type \in {"TRICK", "WRONG"} THEN Append(asked[w], m.trickNo) ELSE asked[w])
    /\ Set(told, w, CASE m.type = "DEAL" -> <<m>>
                      [] m.type \in {"TAKEN", "SCORE", "TOTAL", "BUSY"} -> Append(told[w], m)
                      [] OTHER -> told[w])
    /\ UNCHANGED spoken

-----------------------------------------------------------------------------
(* socketAction.                                                           *)

callback(m, w, done) ==
    \/ m.type = "IAM" /\ playerIntro(m.side, w, done)
    \/ m.type = "TRICK" /\ playerTricked(m.trickNo, m.card, w, done)
    \/ m.type = "BAD" /\ handleWrongMessage(w, done)

\* A message that is not dealt with stays pending until the next iteration.
process(w, m) ==
    /\ \E done \in BOOLEAN :
         /\ callback(m, w, done)
         /\ Set(pin, w, IF done THEN None ELSE m)
         /\ Set(conn, w, IF done /\ m.type = "BAD" THEN "quit" ELSE conn[w])
         /\ Set(resp, w, IF m.type = "BAD" /\ ~done THEN resp[w] ELSE FALSE)
    /\ Set(pc, w, "drain")

receive(w) ==
    \E m \in Says(w) : Speak(w, m) /\ process(w, m)

\* recv returns 0, or an error.
hangup(w) ==
    /\ HangsUp(w)
    /\ Set(conn, w, "closed")
    /\ Set(pc, w, "drain")
    /\ UNCHANGED <<sharedVars, pin, resp, clientVars>>

\* More than MAX_PARSE_LEN bytes without a separator: the connection is
\* closed and the exit callback asked at once.
\* (The broken variant does not listen to the answer.)
overflowGoesOn(w) ==
    /\ w \in Rude /\ spoken[w] < MaxInput
    /\ Set(spoken, w, spoken[w] + 1)
    /\ Set(conn, w, "closed")
    /\ \E quit \in BOOLEAN : grandExitCallback(w, err[w], FALSE, quit)
    /\ Set(pc, w, "drain")
    /\ UNCHANGED <<pin, resp, asked, told>>

overflow(w) ==
    /\ w \in Rude /\ spoken[w] < MaxInput
    /\ Set(spoken, w, spoken[w] + 1)
    /\ Set(conn, w, "closed")
    /\ \E quit \in BOOLEAN :
         /\ grandExitCallback(w, err[w], FALSE, quit)
         /\ Set(pc, w, IF quit THEN "final" ELSE "drain")
    /\ UNCHANGED <<pin, resp, asked, told>>

noAction(w) == Set(pc, w, "drain") /\ UNCHANGED <<sharedVars, pin, conn, resp, clientVars>>

\* Bytes that do not complete a message.  They matter to the timer only, and
\* are left out where there is none.
partOfMessage(w) == Timeout > 0 /\ noAction(w)

\* accept on the listening socket.
OpenConns == {w \in 1 .. nextIx - 1 : conn[w] # "closed"}

acceptAction(w) ==
    /\ Cardinality(OpenConns) < MaxOpen
    /\ forwardConnection
    /\ pc' = [pc EXCEPT ![w] = "drain", ![nextIx] = "poll"]
    /\ UNCHANGED <<pin, conn, resp, clientVars>>

\* What the socket has for a thread that polls it.
socketReady(w) ==
    IF w = Proxy THEN acceptAction(w)
    ELSE receive(w) \/ partOfMessage(w) \/ hangup(w) \/ overflow(w)

-----------------------------------------------------------------------------
(* IOWorker::run.                                                          *)

\* The descriptor poll watches beside the pipe: the socket, or its negation,
\* which poll ignores, while a message is pending.  A closed connection has
\* -1 there, and the negation of that is 1.
Ignored == -1
StdOut == 1
Socket == 2
PolledFd(w) ==
    LET fd == IF conn[w] = "closed" THEN -1 ELSE Socket
    IN  IF pin[w] = None THEN fd ELSE -fd

\* Woken through the pipe, which handlePipe empties before anything else.
wakeByPipe(w) ==
    /\ pc[w] = "poll" /\ pipe[w]
    /\ Set(pipe, w, FALSE)
    /\ Set(armed, w, FALSE)
    /\ Set(pc, w, "socket")
    /\ UNCHANGED <<gameVars, serverVars, tableVars, jobs, killFlag, cleanerVars,
                   pin, pout, conn, err, resp, clientVars>>

\* Then the socket is looked at all the same.
lookAtSocket(w) ==
    /\ pc[w] = "socket"
    /\ \/ conn[w] # "open" /\ noAction(w)
       \/ conn[w] = "open" /\ pin[w] # None /\ process(w, pin[w]) /\ UNCHANGED clientVars
       \/ conn[w] = "open" /\ pin[w] = None /\ (noAction(w) \/ socketReady(w))
    /\ UNCHANGED <<cleanerVars, pout, err, armed>>

\* Woken by the socket alone.
wakeBySocket(w) ==
    /\ pc[w] = "poll" /\ ~pipe[w]
    /\ PolledFd(w) = Socket
    /\ socketReady(w)
    /\ Set(armed, w, FALSE)
    /\ UNCHANGED <<cleanerVars, pout, err>>

\* Woken by standard output, whose readiness has nothing to do with the
\* worker: an iteration without news.
wakeByStdout(w) ==
    /\ pc[w] = "poll" /\ ~pipe[w]
    /\ PolledFd(w) = StdOut
    /\ noAction(w)
    /\ Set(armed, w, FALSE)
    /\ UNCHANGED <<cleanerVars, pout, err>>

\* poll timed out.
MayExpire(w) == Len(asked[w]) + Len(pout[w]) + Len(jobs[w]) < MaxUnread

timeOut(w) ==
    /\ pc[w] = "poll" /\ armed[w] /\ ~pipe[w]
    /\ MayExpire(w)
    /\ handleTimeout(w)
    /\ Set(armed, w, FALSE)
    /\ Set(resp, w, FALSE)
    /\ UNCHANGED <<cleanerVars, pc, pin, pout, conn, err, clientVars>>

\* poll failed: the connection is closed and the exit callback asked.
pollFails(w) ==
    /\ "poll" \in Faults
    /\ pc[w] = "poll"
    /\ Set(conn, w, "closed")
    /\ Set(err, w, err[w] \/ w = Proxy)
    /\ Set(armed, w, FALSE)
    /\ Set(pc, w, "failed")
    /\ UNCHANGED <<sharedVars, cleanerVars, pin, pout, resp, clientVars>>

\* handlePipe cannot read what has come: an internal error, and the end of
\* the loop.
pipeFails(w) ==
    /\ "read" \in Faults
    /\ pc[w] = "socket"
    /\ Set(err, w, TRUE)
    /\ Set(pc, w, "final")
    /\ UNCHANGED <<sharedVars, cleanerVars, pin, pout, conn, armed, resp, clientVars>>

\* while (jobQueue.hasNextJob()) pendingOutgoing.push(jobQueue.popNextJob())
takeJobs(w) ==
    /\ Set(pout, w, pout[w] \o jobs[w])
    /\ Set(jobs, w, <<>>)

\* (In the broken variant the pipe is emptied only now.)
drainThenPipe(w) ==
    /\ pc[w] = "drain"
    /\ takeJobs(w)
    /\ Set(pipe, w, FALSE)
    /\ Set(pc, w, "send")
    /\ UNCHANGED <<gameVars, serverVars, tableVars, killFlag, cleanerVars,
                   pin, conn, err, armed, resp, clientVars>>

drain(w) ==
    /\ pc[w] = "drain"
    /\ takeJobs(w)
    /\ Set(pc, w, "send")
    /\ UNCHANGED <<gameVars, serverVars, tableVars, killFlag, pipe, cleanerVars,
                   pin, conn, err, armed, resp, clientVars>>

\* One round of handleQueue: execMutexed sends unless the game is suspended.
MaySend(w) == conn[w] # "closed" /\ pout[w] # <<>> /\ ~Suspended

\* (The broken variant leaves the timer alone.)
sendOneUntimed(w) ==
    /\ pc[w] \in {"send", "lastSend"}
    /\ MaySend(w)
    /\ Hear(w, Head(pout[w]))
    /\ Set(pout, w, Tail(pout[w]))
    /\ UNCHANGED <<sharedVars, cleanerVars, pc, pin, conn, err, armed, resp>>

sendOne(w) ==
    /\ pc[w] \in {"send", "lastSend"}
    /\ MaySend(w)
    /\ Hear(w, Head(pout[w]))
    /\ Set(pout, w, Tail(pout[w]))
    /\ Set(resp, w, TRUE)
    /\ Set(armed, w, Timeout >= 0)
    /\ UNCHANGED <<sharedVars, cleanerVars, pc, pin, conn, err>>

\* send fails or takes only a part: the loop ends, whatever is pending.  In
\* the second handleQueue it ends only after the rest of the iteration.
sendFails(w) ==
    /\ "send" \in Faults
    /\ pc[w] \in {"send", "lastSend"}
    /\ MaySend(w)
    /\ Set(pout, w, Tail(pout[w]))
    /\ Set(conn, w, "closed")
    /\ Set(pc, w, IF pc[w] = "send" THEN "final" ELSE "quitting")
    /\ UNCHANGED <<sharedVars, cleanerVars, pin, err, armed, resp, clientVars>>

\* The timer is set from the last answer unless a send has set it.
NeedsTimer(w) == ~armed[w] /\ Timeout > 0 /\ resp[w]
LoopOr(w, there) == IF NeedsTimer(w) THEN there ELSE "poll"

\* handleQueue is through and there is no kill order.
queueDone(w) ==
    /\ pc[w] = "send"
    /\ ~MaySend(w)
    /\ ~killFlag[w]
    /\ Set(pc, w, IF conn[w] # "open" THEN "exit" ELSE LoopOr(w, "arm"))
    /\ UNCHANGED <<sharedVars, cleanerVars, pin, pout, conn, err, armed, resp, clientVars>>

\* It is through and finds the order: what was queued meanwhile is still
\* sent.  (Not so in the broken variant.)
obeyKillAtOnce(w) ==
    /\ pc[w] = "send"
    /\ ~MaySend(w)
    /\ killFlag[w]
    /\ Set(pc, w, "lastSend")
    /\ UNCHANGED <<sharedVars, cleanerVars, pin, pout, conn, err, armed, resp, clientVars>>

obeyKill(w) ==
    /\ pc[w] = "send"
    /\ ~MaySend(w)
    /\ killFlag[w]
    /\ takeJobs(w)
    /\ Set(pc, w, "lastSend")
    /\ UNCHANGED <<gameVars, serverVars, tableVars, killFlag, pipe, cleanerVars,
                   pin, conn, err, armed, resp, clientVars>>

closeConn(w) ==
    /\ pc[w] = "lastSend"
    /\ ~MaySend(w)
    /\ Set(conn, w, "closed")
    /\ Set(pc, w, "exit")
    /\ UNCHANGED <<sharedVars, cleanerVars, pin, pout, err, armed, resp, clientVars>>

HasWork(w) == pin[w] # None \/ (pout[w] # <<>> /\ conn[w] # "closed")

\* A thread that wants to quit asks whether it may.  One whose loop ends
\* anyway sets its timer all the same.
Refused(w) ==
    CASE pc[w] = "exit" -> LoopOr(w, "arm")
      [] pc[w] = "failed" -> "poll"
      [] OTHER -> IF NeedsTimer(w) THEN "lastArm" ELSE "final"

askExit(w) ==
    /\ pc[w] \in {"exit", "failed", "quitting"}
    /\ \E quit \in BOOLEAN :
         /\ grandExitCallback(w, err[w], HasWork(w), quit)
         /\ Set(pc, w, IF quit THEN "final" ELSE Refused(w))
    /\ UNCHANGED <<cleanerVars, pin, pout, conn, err, armed, resp, clientVars>>

\* The rest of the waiting time, or the timeout at once if it is past.
arm(w) ==
    /\ pc[w] \in {"arm", "lastArm"}
    /\ \/ Set(armed, w, TRUE) /\ UNCHANGED sharedVars
       \/ MayExpire(w) /\ handleTimeout(w) /\ UNCHANGED armed
    /\ Set(pc, w, IF pc[w] = "arm" THEN "poll" ELSE "final")
    /\ UNCHANGED <<cleanerVars, pin, pout, conn, err, resp, clientVars>>

\* After the loop the exit callback is asked once more, and not listened to.
\* (In the broken variant it is not asked.)
finalUnasked(w) ==
    /\ pc[w] = "final"
    /\ Set(pc, w, "ended")
    /\ UNCHANGED <<sharedVars, cleanerVars, pin, pout, conn, err, armed, resp, clientVars>>

final(w) ==
    /\ pc[w] = "final"
    /\ \E quit \in BOOLEAN : grandExitCallback(w, err[w], HasWork(w), quit)
    /\ Set(pc, w, "ended")
    /\ UNCHANGED <<cleanerVars, pin, pout, conn, err, armed, resp, clientVars>>

-----------------------------------------------------------------------------
(* The system.                                                             *)

\* What a thread does without the help of a client or a fault.
threadStep(w) ==
    \/ wakeByPipe(w) \/ lookAtSocket(w) \/ timeOut(w)
    \/ drain(w) \/ sendOne(w) \/ queueDone(w) \/ obeyKill(w) \/ closeConn(w)
    \/ askExit(w) \/ arm(w) \/ final(w)

outside(w) == wakeBySocket(w) \/ wakeByStdout(w)
fault(w) == pollFails(w) \/ pipeFails(w) \/ sendFails(w)

cleanerTakes == takeFinished /\ UNCHANGED <<gameVars, serverVars, threadVars, clientVars>>
cleanerJoins ==
    /\ joinFinished({w \in Workers : pc[w] = "ended"})
    /\ UNCHANGED <<gameVars, serverVars, threadVars, clientVars>>

Next ==
    /\ ~crashed
    /\ cleaner # "done"
    /\ \/ \E w \in Workers : threadStep(w) \/ outside(w) \/ fault(w)
       \/ cleanerTakes
       \/ cleanerJoins

Spec == Init /\ [][Next]_vars
=============================================================================
