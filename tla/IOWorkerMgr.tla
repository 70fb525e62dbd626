----------------------------- MODULE IOWorkerMgr -----------------------------
(***************************************************************************)
(* server/io_worker_mgr.{h,cpp} and job_queue.cpp: the table of workers    *)
(* that all threads share, the queue and the pipe by which one thread      *)
(* reaches another, and the cleaner, the main thread that joins finished   *)
(* workers in waitForClearing.                                             *)
(*                                                                         *)
(* Handlers run under gameStateMutex, so the calls one handler makes are   *)
(* one step: deliver describes all its sendJob, sendKill and signal calls  *)
(* together.  Only the cleaner runs outside that mutex; it takes           *)
(* threadsStructuresMutex for one step of its own.                         *)
(***************************************************************************)
EXTENDS Integers, Sequences, FiniteSets

CONSTANT MaxWorkers      \* bound: workers ever spawned, the listener included

ASSUME MgrAssumption == MaxWorkers \in Nat \ {0}

Workers == 0 .. MaxWorkers - 1
Proxy == 0               \* the IOWorkerConnect that Server::run spawns

Status == {"SERVING_UNKNOWN", "SERVING_ACTIVE", "SERVING_PROXY",
           "CLEANUP", "CLEANUP_UNKNOWN", "SHUTDOWN"}

VARIABLES
    nextIx,         \* index of the next worker
    workers,        \* keys of the workers map
    roles,          \* the roles map; entries are never removed
    toErase,        \* workers whose exit callback asked to be joined
    clearThreads,   \* clearThreadsSemaphore: libstdc++ counts past one
    finishFlag,
    jobs,           \* JobQueue::jobsPending of each worker
    killFlag,       \* JobQueue::killFlag of each worker
    pipe,           \* a byte waits in the worker's pipe
    cleaner,        \* the main thread: "wait", "join", "lastJoin" or "done"
    joining         \* q: the threads it took out of the maps and joins

tableVars == <<nextIx, workers, roles, toErase, clearThreads, finishFlag>>
queueVars == <<jobs, killFlag, pipe>>
cleanerVars == <<cleaner, joining>>
mgrVars == <<tableVars, queueVars, cleanerVars>>

MgrInit ==
    /\ nextIx = 1
    /\ workers = {Proxy}
    /\ roles = [w \in Workers |-> IF w = Proxy THEN "SERVING_PROXY" ELSE "none"]
    /\ toErase = {}
    /\ clearThreads = 0
    /\ finishFlag = FALSE
    /\ jobs = [w \in Workers |-> <<>>]
    /\ killFlag = [w \in Workers |-> FALSE]
    /\ pipe = [w \in Workers |-> FALSE]
    /\ cleaner = "wait"
    /\ joining = {}

-----------------------------------------------------------------------------
\* One handler's sendJob calls (mail), sendKill calls and bare signals.
\* pipes keeps its entries, so a signal to a worker gone from the maps is
\* harmless; sendJob and sendKill to one are not (Unreachable).
\* (The broken variant puts new jobs in front.)
deliverInFront(mail, killed, woken) ==
    /\ jobs' = [w \in Workers |-> IF w \in workers THEN mail[w] \o jobs[w] ELSE jobs[w]]
    /\ killFlag' = [w \in Workers |-> killFlag[w] \/ w \in killed]
    /\ pipe' = [w \in Workers |-> pipe[w] \/ mail[w] # <<>> \/ w \in killed \/ w \in woken]

deliver(mail, killed, woken) ==
    /\ jobs' = [w \in Workers |-> IF w \in workers THEN jobs[w] \o mail[w] ELSE jobs[w]]
    /\ killFlag' = [w \in Workers |-> killFlag[w] \/ w \in killed]
    /\ pipe' = [w \in Workers |-> pipe[w] \/ mail[w] # <<>> \/ w \in killed \/ w \in woken]

NoMail == [w \in Workers |-> <<>>]
Mail(w, msgs) == [NoMail EXCEPT ![w] = msgs]

\* workers.at(ix) throws for a worker that the cleaner has removed.
Unreachable(mail, killed) == \E w \in Workers \ workers : mail[w] # <<>> \/ w \in killed

setRole(w, role) == roles' = [roles EXCEPT ![w] = role]

\* signalRole: whom it writes to.
WithRoles(some) == {w \in Workers : roles[w] \in some}

\* eraseWorker: the semaphore is released once per worker.
eraseWorker(w) ==
    /\ toErase' = toErase \cup {w}
    /\ clearThreads' = IF w \in toErase THEN clearThreads ELSE clearThreads + 1

\* finish: whom it kills.
Stoppable == workers \ toErase

\* spawnNewWorker, as far as the maps go.
spawnNewWorker(role) ==
    /\ nextIx < MaxWorkers
    /\ nextIx' = nextIx + 1
    /\ workers' = workers \cup {nextIx}
    /\ setRole(nextIx, role)
    /\ UNCHANGED <<toErase, clearThreads, finishFlag>>

-----------------------------------------------------------------------------
\* waitForClearing: under the mutex, everything to be erased leaves the maps.
\* (The broken variant does not clear the list.)
takeFinishedAgain ==
    /\ cleaner = "wait"
    /\ clearThreads > 0
    /\ clearThreads' = clearThreads - 1
    /\ joining' = toErase
    /\ workers' = workers \ toErase
    /\ cleaner' = IF finishFlag /\ workers' = {} THEN "lastJoin" ELSE "join"
    /\ UNCHANGED <<nextIx, roles, toErase, finishFlag, queueVars>>

takeFinished ==
    /\ cleaner = "wait"
    /\ clearThreads > 0
    /\ clearThreads' = clearThreads - 1
    /\ joining' = toErase
    /\ workers' = workers \ toErase
    /\ toErase' = {}
    /\ cleaner' = IF finishFlag /\ workers' = {} THEN "lastJoin" ELSE "join"
    /\ UNCHANGED <<nextIx, roles, finishFlag, queueVars>>

\* The threads are joined outside the mutex, which needs every one of them
\* to have left IOWorker::run; their workers, job queues included, go with
\* them.
joinFinished(finished) ==
    /\ cleaner \in {"join", "lastJoin"}
    /\ joining \subseteq finished
    /\ cleaner' = IF cleaner = "lastJoin" THEN "done" ELSE "wait"
    /\ joining' = {}
    /\ jobs' = [w \in Workers |-> IF w \in joining THEN <<>> ELSE jobs[w]]
    /\ UNCHANGED <<tableVars, killFlag, pipe>>
=============================================================================
