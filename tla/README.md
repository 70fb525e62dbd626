# Kierki: a verification project for the card-game server

`kierki-server` runs one game of the trick-taking card game kierki for four
players over TCP; `kierki-client` plays one seat. This directory holds TLA+
models of the server, its rules, its clients and their messages, TLC
configurations that check them on small instances, and theorems checked by TLAPS
for every value of the constants.

    tlc -workers 2 -config MCGame.cfg MCGame       # any run below
    tlapm GameProofs.tla                           # any proof module

`PROJECT.json` maps every definition to the source lines it models and lists
the runs, the hazards, the broken variants (one per property, so that each
property is known to be able to fail) and the theorems.

## 1. The system

| Component | Source | State | Operations | Talks to |
|---|---|---|---|---|
| Game rules | `server/game_rules.cpp`, `common/card.cpp` | none | `isMoveLegal`, `whoTakes` | called by the server |
| Game state | `server/server.cpp` | round, mode, hands, `nextMove`, `trickNo`, `table`, penalties, `takenInRound` | `prepareRound`, the second half of `playerTricked` | reads the scenario, writes messages |
| Server callbacks | `server/server.cpp` | `activeSides`, `workerToSide`, `zombieWorkerToSide`, `playersConnected`, `lastDeal`, `exiting`, `exitCode` | `playerIntro`, `playerTricked`, `forwardConnection`, `handleTimeout`, `handleWrongMessage`, `execMutexed`, `finalize`, `handleSysErr`, `grandExitCallback` | called by worker threads, each under `gameStateMutex` |
| Worker manager, job queue | `server/io_worker_mgr.cpp`, `job_queue.cpp` | maps of workers, threads, roles and pipes; `toErase`, semaphore, `finishFlag`; per worker a queue and a kill flag | `sendJob`, `sendKill`, `signal(Role)`, `finish`, `eraseWorker`, `spawnNewWorker`, `waitForClearing` | called by callbacks; the main thread sits in `waitForClearing` |
| Worker threads | `server/io_worker.cpp`, `io_worker_handler.cpp`, `io_worker_connect.cpp` | pending messages in and out, the connection, two timers, errors | the `run` loop: poll, `handlePipe`, `socketAction`, `handleQueue`, kill order, exit callback, timer | one client socket each; one thread listens |
| Messages | `common/send_job.*`, `network_msg_parser.*` | none | `genMsg` of each message, `parseNetMsg` | both ends |
| Client | `client/client.cpp` | socket, stage, trick number, whether a card is asked for, exit code | `run`: connect, introduce, one branch per message, end of file; `chooseCard` | the server; calls its player |
| Players and strategy | `client/player*.cpp`, `strategy.cpp` | a hand of their own, cards sent and not settled, next trick | `dealMsg`, `trickMsg`, `takenMsg`, `wrongMsg`, `anyCmd`, `nextMove` | called by the client, call `chooseCard` |
| Scenario | `common/utils.cpp` | none | `parseScenario` | read once by the server |
| Helpers, logging, command lines | `common/utils.*`, `logger.*`, `message.*`, `kierki-*.cpp` | none kept | `sendNoBlockN`, addresses, output | |

How they interact. Every connection has a thread. The thread parses what its
client sends and makes one callback into `Server`, which changes the game and
the seats under `gameStateMutex` and pushes messages to the queues of the
seated workers, waking each through a pipe. Nothing is sent, and no card is
accepted, while a side is free: a card that arrives then stays pending in the
thread, and `playerIntro` wakes the threads when the table is complete again. A
thread that wants to end asks `grandExitCallback`; if allowed, the main thread
takes it out of the maps and joins it. After the last trick `finalize` kills
every worker, the listener included. A client hears a stream of messages and
keeps, by rules of its own, the hand it believes it holds; it never compares it
with the server's, which judges every card by its own.

What is hard here: the order of a kill against the last scores; prompts,
departures and resumptions crossing each other; messages told twice or not at
all to a player that comes back; timers cleared on one path and rebuilt on
another; a join of a thread that is still in its loop; the end of the process
after departures; a client's hand and trick counter under repeated prompts and
replayed rounds; messages without separators. Section 7 says what makes each component correct; the
`hazards` of `PROJECT.json` give each at its line.

## 2. The modules

| Module | What it models | Built on |
|---|---|---|
| `GameRules` | `isMoveLegal`, `whoTakes`, the card order, `nxtSide` | |
| `Game` | the variables of one game and `Play`, the only step that changes them; `GameTypeOK`, `HandsInStep`, `CountersAgree` | `GameRules` |
| `Kierki` | the contract: what the players are promised, with the list of plays as its only record of a round | `GameRules` |
| `GameProps` | properties of whole rounds; the refinement mapping onto `Kierki` | `Game` |
| `IOWorkerMgr` | the tables the threads share, queues and pipes, the cleaner | |
| `Server` | the callbacks, one operator each, with every branch of the handler as a disjunct | `Game`, `IOWorkerMgr` |
| `IOWorker` | the loop of each thread, the clients at the other end, the cleaner: the whole running server, `Spec` | `Server` |
| `ServerProps` | its properties and `LiveSpec` | `IOWorker`, `GameProps` |
| `Client` | one client process for each connection: stages, both players' hands, each message it hears, its end | `GameRules` |
| `ClientServer` | these clients at the table of `Server`, `TableSpec`; its properties and its fairness | `Server`, `Client` |
| `Codec` | the text of every message, the patterns and readers of `parseNetMsg`, `parseScenario` | `GameRules` |
| `RulesProofs` | theorems about `GameRules`: the taking card, sums over finite sets, what a trick costs | `GameRules` |
| `CodecProofs` | theorems about the loops of `whoTakes`, its price list, and the round trip of every message and of the scenario file | `MCRules`, `RulesProofs` |
| `GameProofs` | theorems about `GameSpec`: steps, whole rounds, cards and colours; that it implements `Kierki`; the penalty ledger | `GameProps`, `RulesProofs` |
| `CallbackProofs` | what each callback does to the game | `Server`, `GameProofs` |
| `SeatProofs` | `Spec` implements `GameSpec`, and so `Kierki`; types, threads and seats of `Spec`, its wake-ups, zombies and moves | `ServerProps`, `CallbackProofs` |
| `MessageProofs` | prompts and timers of `Spec` | `SeatProofs` |
| `StoryProofs` | what the clients of `Spec` are told, and what they hear last | `MessageProofs` |
| `ClientServerProofs` | `TableSpec` implements `GameSpec`, and so `Kierki`; what the clients may rely on | `ClientServer`, `CallbackProofs` |
| `MCRules`, `MCGame`, `MCServer`, `MCClients` | decks, scenarios and clients for the runs; `MCRules` also states what reading and writing must preserve | |

Definitions named as a broken variant in a comment are not used by any
specification; they are plausible bugs for the properties to catch.

### State and actions against the code

* *Handlers are single steps.* Each callback holds `gameStateMutex` from its
  first line to its last, so nothing another thread does under that mutex comes
  in between. All the `sendJob`, `sendKill` and `signal` calls of a handler are
  the one step `deliver`. The accesses to shared state that do **not** take the
  mutex (emptying the pipe, draining the queue, the look at the kill flag, the
  cleaner) are steps of their own.
* *One iteration of `IOWorker::run`* is cut there: `pc` goes `poll`, `socket`
  (pipe emptied, `socketAction` to come), `drain`, `send` (one message a step,
  as `execMutexed` takes the mutex for each), `lastSend` (after a kill order),
  `exit`, `arm`, and back, or `final`, `ended`. `failed` is the exit callback
  after a failing `poll`. A failing send ends the loop at once, except in the
  second `handleQueue`, after a kill order: there the rest of the iteration
  follows, the exit callback (`quitting`) and, if the worker may not go, the
  timer (`lastArm`), before `final` asks the exit callback again.
* *The connection.* `conn = "quit"` is `wantToToQuit` alone, `"closed"` is
  `closedFd` too. `PolledFd` is what `pollFds[0].fd` is while `poll` waits.
* *`pin`* is the at most one message `pendingIncoming` ever holds: the read
  loop stops when it is not empty. *`pout`* is `pendingOutgoing`.
* *Answers of callbacks* are parameters: `done` (the message was dealt with),
  `quit` (the thread may end). An action picks the value the handler admits.
* *Callbacks that throw.* `sendJob` to a side or worker that is not in the map
  sets `crashed`; an exception on a `jthread` ends the process.
* *Timers.* `resp` says whether `responseTimeout` is set, `armed` whether
  `nextTimeout` is. Time itself is left out: an armed timer may run out at any
  moment, and a deadline that is rebuilt may already be past (`arm`).
* *Clients, as the threads see them.* In `IOWorker` a client is what it may say.
  A repository client introduces itself once and answers each TRICK
  and WRONG with one card (`KierkiSays`). The worst it can do is answer late,
  answer with a card that is not legal now, or hang up (`Leavers`). The automatic
  player ignores a prompt it has answered and waits for a new one after WRONG;
  the console player may answer each. Both are among the behaviours of the model,
  and a client that answers late enough looks like one that does not. A
  connection in `Rude` says anything at any time: introductions for any wanted
  side, cards of anybody, unreadable messages, endless ones.
* *Messages* are records with the data the other side acts on; `Codec` checks
  that their text carries this data. *Hands* are sets: `rmCardIfPresent` removes one card, the cards
  of a deal are distinct (`ScenarioAssumption`), and nothing depends on their
  order. *Sides* are `0 .. NSides - 1` in the order of `nxtSide`; the code's 4
  and 13 are the constants `NSides` and `TricksPerRound`, which the handlers
  use wherever the code compares with 4, 3 or `TRICKS_PER_ROUND`.

### Clients at the table

`ClientServer` replaces the threads' loops by what `IOWorker` and its checks
show of them, so that the clients can be modelled whole:

* `jobs[w]` is everything on its way to client `w`: the queue, `pendingOutgoing`
  and the socket, one after the other, all first in, first out. `deliverNext`
  moves the first message to the client, and, like `execMutexed`, only while
  every side is taken. `up[w]` is everything on its way from it.
* `serve` is one callback with `done = TRUE`; a card the callback does not deal
  with (`done = FALSE`) stays where it is, as `pendingIncoming` does. No message
  of these clients is ever unreadable to the server.
* `link` goes `none`, `open`, then `left` when the client has closed its end,
  and `shut` when the worker has. `notice` is the worker reading the end of
  file, after what came before it; `close` is a worker with a kill order, which
  sends what is queued first and then closes. The last messages are taken to
  arrive before the end of file, as TCP does when neither side has unread data.
* `hear` is one branch of `Client::run` with the player's method it calls.
  `Strategy::nextMove` picks the first or last fitting card; since a hand is a
  set here, `trickMsg` may pick any card of `Fitting`. A person types any card of the hand
  shown (`type`), legal or not, one for each prompt, whatever became of the last
  one. `hurried[w]` is a history variable, not in the code: somebody has typed a
  card while the fate of another was unknown. No action reads it (section 6 says
  what it is for).
* `crash` is a system call that throws, or a kill of the process: what it has
  written may be lost, from some message on. `parseNetMsg` makes an empty list
  of a message it does not know and `run` reads its first element: on an empty
  vector that is a read through a null pointer, so `unreadableMsg` is a crash.
* `askAgain` is the worker's timer, at any moment.

Left out here: the listener, the cleaner and the timers of strangers, which have
no part in a game; a connection made after the last trick (`numbers_are_known`
shows one made before it); a rival that connects in the moment between the end
of a player and the server's notice of it, whom the server answers BUSY.

### Text

In `Codec` a text is a sequence of characters without the type prefix and the
line end. `PastCard` and its kin give the places a match of a pattern can have
come to, so `isTaken` and the others are `std::regex_match` with all its ways to
match. The readers are translations of the cases of `parseNetMsg`, with the
lookahead characters they use, from the left (TRICK to a client, DEAL) or from
the right (TRICK from a client, TAKEN). What `Client::run` and `socketAction`
make of the strings (`atoi`, `Card::fromString`) is part of the reader.

Left out on purpose: code nothing reaches (`furtherMovesNeeded`, the
`SERVING_PROXY` case of `playerTricked`, the last `else` of `socketAction`,
which `parseNetMsg` leaves no message for); reuse of a closed descriptor by a
later connection; a pipe full of unread wake-ups; failures of `accept`,
`fcntl`, `pipe` and `close`; the unlocked read of the workers map when a thread
starts; the arrival of a message in parts, except where it resets a timer. The
cleaner's semaphore is declared binary but libstdc++ counts its releases, and
so does the model.

## 3. The runs

`CHECK_DEADLOCK FALSE` stands wherever the system really stops: a game ends,
and so does the server; some runs also end in the hang described in section 6.

| Run | Question | Instance |
|---|---|---|
| `rules` | Does `whoTakes` as defined name the side the code's two loops reach, and charge what the cards cost? Is every message and scenario line read as what was written? | four sides; every table up to a full trick from an eight-card deck with twos, tens, kings, ties, off-colour high cards and each kind of charged card, all modes, tricks 1, 7, 10, 13 |
| `game` | Do hands, counters, turns, suits and penalties stay right whatever legal card is played, and does the game implement `Kierki`? | four sides, two rounds of three tricks in the two modes that charge most, every legal play |
| `polite` | Does everybody hear the final totals before the connection closes, and does the server then end? (liveness) | three clients, one trick |
| `reconnect` | Do seats, threads, wake-ups, prompts and the story told to a newcomer stay right when a client may leave at any moment? | two sides, one round of two tricks; connection 1 may leave, connection 3 wants its side |
| `timers` | Can the game wait for ever on a silent mover, or a repeated prompt move it out of turn? | two sides with a timeout, several prompts on their way |
| `faults` | What do failing `poll`, `send` and pipe reads leave behind? Does the game still implement `Kierki`? | two rounds, any side wanted by anybody, failures at any step |
| `anyone` | What can a connection that sends anything do to the players? | two clients of the repository and one that sends up to two arbitrary messages, two tricks |
| `clients` | Does a client's own hand stay the server's, unless a person answers in haste? Is an automatic player ever refused, asked with an empty hand, or left with a wrong exit code? Does the game, and every client, come to an end? (liveness) | two sides, two rounds of two tricks; automatic 1, which may break down, console 2, and 3, which wants the same side as 1; one repeated prompt on its way |
| `available_cards`, `never_throws`, `no_foreign_poll`, `numbers_are_known` | The findings of section 6. | |

### Bounds, and why they are enough

* `NSides`, `TricksPerRound`. The rules are checked with four sides. The server
  runs use two or three: a seat, its prompt and its stream depend on the other
  sides only through "all taken", "the side to move" and "another side", which
  two sides show, and three where it matters that somebody else than the first
  or the last is waiting. One trick a round reaches every branch of
  `playerTricked` in the two-round scenario; two tricks add the story in
  mid-round. What holds for every number of sides and tricks is in section 5.
* `MaxWorkers` counts the listener: two seats, a newcomer. `MaxOpen` limits the
  connections open at one time, `MaxInput` what one connection sends: an
  introduction and a card per prompt, one more where prompts are repeated.
* `MaxUnread` limits the prompts on their way when a timer runs out. A timer
  repeats a prompt without end; two unread ones are already a first answer that
  crosses a second prompt.
* `Wants`, `Leavers`, `Rude`, `Faults` choose the clients and the failures of a
  run, `Timeout` the `-t` option. Runs vary one of them at a time, because their
  product is out of reach, and each hazard needs one or two.

* `Seat`, `Frail`, `MaxUnread` of `clients`: a successor for one side shows BUSY,
  the wait and the replay of a round; `Frail` clients break down only while a
  successor is to come, or the game would rightly stop. `MaxUnread = 1` lets a
  prompt be repeated whenever nothing else is on its way, and again after the
  first is read, so a person can have two cards on their way. Two rounds show DEAL after SCORE and a
  successor that is dealt in twice, two tricks the TAKEN that are applied to a
  hand and those that are not.
* `rules`: a number runs into a card in every way the patterns allow: one digit
  before a ten, ten before any rank, two digits alone. Kings stand for the
  letters, twos for the digits; the middle of the number range adds nothing the
  readers look at.

### Fairness

`LiveSpec` asks weak fairness of every thread's own steps (the scheduler runs
threads that can run), of the two steps of the cleaner, and of `wakeBySocket`:
a thread whose socket is readable is woken, and the automatic client does
connect, introduce itself and answer each prompt without waiting for anybody
(`player_auto.cpp`). No fairness is asked of faults, of departures, or of
`wakeByStdout`. `ServerEnds` is checked where every client plays to the end; it
is false once somebody leaves (section 6).

`TableLiveSpec` asks weak fairness of connecting, serving, delivering, noticing
and closing: networks deliver, threads and client processes run. Of the person it
asks that a legal card is typed if, again and again, one could be (`SF` of
`typeWell`): a refused card or a repeated prompt may come in between, but nobody
types illegal cards for ever. Nothing is asked of breakdowns and timers, so
`PlayersFinish` needs no timeout: a prompt to a seated player is never lost, and
a successor is asked when it comes. It is claimed of behaviours in which nobody
hurries; a person who has lost a card that way may have none left to play.

## 4. The contract

`Kierki` keeps only the plays of the round and the totals of the rounds before.
Hands, turn, colour to follow, takers and cost are recomputed from the plays
each time, by definitions of their own: the winner is the highest card of the
colour led, the cost is summed card by card. `GameProps` maps `takenInRound` and
`table` to plays (`PlaysOf`), and `ImplementsKierki` says that every step of the
server's counters, resets and running sums is a step of that contract. The runs
`game` and `faults` check it, the second one on the running server, and
`GameProofs` proves it.

## 5. What is proved

The theorems hold, those about texts excepted, for any `NSides` and
`TricksPerRound` above zero and any scenario (`RulesAssumption`, `ScenarioAssumption`: non-empty, each hand of
`TricksPerRound` cards, no card dealt twice in a round), any number of workers
and clients, any length of queues and streams.

* About the rules: `TrickHasTaker` and `TakerIsUnique` (a taking card exists and
  is unique, so the `CHOOSE` in the model stands for the code's comparisons),
  `SomeCardIsLegal`.
* `LoopsAreRight` (`LoopsFindTaker`): the two loops of `whoTakes`, as folds, find
  the side the rules name, for tables of any size. A fold is a recursive function
  over sets of places, so each proof gives the value it has for every set (the
  best of the places seen so far, `LoopFindsBest`; the side so many places on,
  `LoopFindsSide`), which shows that such a function exists, and then that any
  function with that recursion ends with the last value (`LoopEnds`).
  `PricesAddUp` (`PenaltyAddsUp`): the price list, summed card by card, is what
  `whoTakes` counts (`ListedPrice`, from `CardsCost` and `PenaltyParts`).
* `PromptsAreRead` (`PromptsRead`), `ResultsAreRead` (`ResultsRead`) and
  `HandsDoArrive` (`HandsArrive`): every text is read as what was written, under
  the one assumption that there are four sides and thirteen tricks (`AsWritten`),
  the numbers the patterns of `parseNetMsg` spell out. The lemmas they rest on
  say more than a small deck can, and are theorems of their own: `NumbersRead`,
  `TrickSRead`, `TrickCRead`, `WrongRead`, `TakenRead`, `BusyRead`, `ScoreRead`,
  `DealRead` and `ScenarioRead` are about all 52 cards in any order and number the
  pattern allows, scores of any length, and scenario files of any length.
  `NoTrickAfterLast` is the other half of `numbers_are_known`: the prompt for trick
  14 matches no pattern, whatever lies on the table: read as trick 1, it would
  have a 4 with no colour behind it. Numbers have no width in the model; the code
  writes and reads `int`s.

  The argument is the same for each. A text is its parts one behind the other,
  with a sequence of the places where they end (`Joined`, `CardsAt`, `ScoreAt`,
  `TrickIn`). The pattern's possible places contain those (`CardsPassed`,
  `NumberPassed`, `ScorePassed`), so the text matches, though a match could also
  have come another way. And the reader, from the left (`CardsFromText`,
  `ScoreRead`) or from the right (`CardsCut`), moves from one of those places to
  the next: a 1 or a 0 where the reader looks decides between two and three
  characters, and no other rank begins or ends with it (`NamesAre`). Where a number
  stops before a card is told by the third character (`NumberLenIs`).
  Since induction cannot be cited, a recursion along a text is first shown to
  define a function at all (`RecursionExists`: by the least measure up to which
  none is right), then followed step by step, and a place where it goes wrong is
  excluded by taking the least one.
* `TypeCorrect`: `GameSpec => []GameTypeOK`.
* `StaysInStep`: the inductive invariant `InStep`, which is `GameTypeOK`,
  `HandsInStep` and `CountersAgree` together. None of the last two is inductive
  alone. That a finished game makes no further step is not a guard of
  `playerTricked`; it follows because nobody holds a card then (`NobodyPlaysOn`),
  which needs the sizes of hands; and the sizes of hands follow the trick
  counter only if the table is never left full and the turn passes round it in
  order, which is what `HasPlayed` counts.
  `HandsCorrect`, `CountersCorrect` and `MoveExists` (until the game is over the
  side to move has a legal card) follow from it.
* `RoundsKept`: the inductive invariant `RoundKept` of a round, on top of
  `InStep`. The cards played are known by their places (trick and position), and
  who played a card is computed from its place; so the proof first shows that a
  card which does not end the round adds exactly one place, `Here`, and that
  earlier places keep card, lead and side (also when the trick is closed and
  moves from `table` to `takenInRound`). `InTurn`, the mover sits as many places
  after the leader as there are cards on the table, gives the new place its
  side. That a finished game makes no move comes from `InStep`, that a card is
  not in two hands from `ScenarioAssumption`. `CardsStayPut`
  (`CardsInOnePlace`) and `NobodyRevokes` (`NoRevoke`) follow.
* `GameImplementsKierki`: `GameSpec => ImplementsKierki`. The simulation rests on
  `InStep`, `RoundKept` and `Promised` (`PromisedAlways`): every TAKEN message
  of the round is of a full trick of different cards and names its taker, and
  `penaltiesRound` is the sum of what the messages charge (`Charged`). Needed
  for it are that the plays are the places in order, so a card adds one at the
  end (`PlaysNext`); that turn, hand and colour to follow, recomputed from the
  plays, are `nextMove`, the hand and the first card of the table (`TurnIs`,
  `HoldsHand`, `FollowsIs`); that the contract's winner is the taker
  (`WinnerIs`, where the cards of a trick being different matters, which comes
  from different hands and the deal); and that the price list, summed card by
  card, is what `whoTakes` counts (`PriceIs`).
* `BooksBalance`: `GameSpec => []LedgerBalances`, inductive on top of `InStep`
  and `RoundKept`: closing a trick moves its `penalty` from the worth of the
  unplayed cards and tricks to the charges (`WorthSplit`, `TrickCharged`), and
  the last trick of a round leaves no card (`TrickPaid`).
  Both need sums over sets of any size. The library's induction cannot be
  cited, so the facts about `SumFunctionOnSet` (`SumStep` to `SumSame`,
  `SumPlus`) are proved from a smallest counterexample (`Smallest`), and that
  its recursive function exists at all is proved by corrections, one size of
  set after the other (`SumsExist`).
* `ServerPlaysGame`: `Spec => GameSpec`, and `TablePlaysGame`:
  `TableSpec => GameSpec`. Every step of the whole server, with any clients and
  faults, either leaves the game's variables alone or is a legal move of the
  side to move. `ServerStaysInStep`, `ServerCanGoOn`, `ServerKeepsRounds`,
  `ServerKeepsPromise` and `ServerBalances` carry the results about the game
  over to the server, `TableKeepsPromise` and `TableKeepsGame` to the server with
  the repository's clients. Both rest on `CallbackProofs`: only `playerTricked`
  changes the game, and at most by one move.
* `ServerRuns`: `Spec => []Running`, for any clients and any faults.
  A step of a thread is first brought into one of five shapes, which forget the
  loop: nothing shared changes (`Local`), a message is handed to a callback
  (`Called`), the exit callback is asked (`Asked`), a timer runs out
  (`TimedOut`), a connection is accepted (`Accepted`). `Running` then has three
  parts besides types. `Threads` ties the tables to the program counters: only
  workers with an index given out have a role, every role but `SHUTDOWN` is of a
  worker in the map, and `SHUTDOWN`, the only role of those to be erased or
  joined, means a thread past its loop. `Seats` ties `activeSides` to
  `workerToSide`, roles and the count `playersConnected`; the count is proved to
  be the cardinality of the occupied sides, so the handlers' `++` and `--` need
  the facts about finite sets. `Inputs` says that a pending introduction names a
  side. `ServerTypeCorrect` (`TypeOK`) and `JoinsOnlyTheOver` (`JoinedIsOver`)
  follow.
* `SeatsCorrect`, `SeatsLive`, `NothingThrown`: `SeatsAgree`,
  `SeatedWorkerLives`, `NeverThrows`, for servers whose clients are the
  repository's (`Rude = {}`), with any departures and faults. They need the
  further invariant `Polite`: a worker with a side is `SERVING_ACTIVE`, and one
  that has said nothing has no side, so an introduction, which is the first
  message of such a client, is never one of a seated player. The condition
  cannot be dropped: the run `never_throws` shows a repeated introduction that
  breaks all three.
* `ServerAwake`: `Spec => [](Running /\ Awake)`, again for any clients and
  faults. `Awake` says of each thread (`Wakeful`) that work of any kind, a
  message queued, a kill order or a table completed while it waited, finds it
  woken or still before the point of its loop that looks for that work: the
  drain for messages, the look at the order for kills. The proof splits in two. What a
  step of the others may do to a thread is `Rouses`: whatever they add comes
  with a byte in the pipe, and nothing is taken back. What its own step may do
  is bounded by the place in the loop. `NoWakeUpLost` (`NobodySleepsOnWork`) and
  `ZombiesLinger` (`OnlyZombiesLinger`) are what the invariant says of a thread
  asleep in `poll`.
* `MovesOnlyByTheMover` (`OnlyTheMoverMoves`): `playerTricked` takes a
  card also from a worker in role `CLEANUP`, so this needs that a thread
  dismissed to that role with its connection still open has its kill order, is
  past its socket in this iteration, and obeys before it polls again.
* `MoverGetsAsked` (`MoverIsAsked`) and `MoverGetsReminded` (`MoverIsOnTimer`),
  for any clients, departures and faults. The first is not inductive: that a
  thread has nothing left to do says little about the one step that leaves it
  so. The invariant (`ServerPrompts`) follows the prompt from the callback to
  the client instead. `Prompted`: while all four seats are taken, the side to
  move has a worker which, while connected, has an answer to hand over, or the
  prompt in its queue, or the prompt in the batch it is sending with its timer
  still to be started, or has sent it and waits with the timer running.
  `Served` ties the batch and the timer to the place in the loop, `Gone` says
  that a closed connection is on its way to the exit callback, and `Streams`
  that what a client heard is a stream of letters. The condition of the second,
  that the thread polls with a timeout, comes from the loop: `TRICK` starts the
  timer in the step that sends it.
* `StreamsTellRound` (`StreamTellsRound`): what a seated client was sent, what
  its worker is sending and what is queued for it, read in this order, is one
  stream. The invariant (`Laid`, `EveryoneInformed`) says that after its last
  DEAL come the tricks taken since, each once and in order, and nothing that
  contradicts the table. A callback appends to the queue what the move adds to
  the round; a step of a thread moves messages along the stream; a worker that
  takes over a seat starts a new stream with the deal and all tricks so far.
* `PlayersKeepHands` (`HandKept`), `AutomaticNeverWrong` (`NeverWrong`),
  `AutomaticHasCards` (`AskedWithCards`) and `TableKeepsTypes` (`ClientTypeOK`),
  for any number of clients of either kind, any seats and any break-downs. Of a
  person `HandKept` holds until one types a card while the fate of another is
  unknown; what the rest is promised does not depend on it, so the invariant
  keeps those who hurry apart (`Adrift`: any hand, any cards on their
  way) and still carries everybody else through. A hand
  can be compared with the server's only when nothing is on its way, so the
  invariant (`TableKept`) says what is on its way instead. `InPlay` names the six
  positions of a player: still being told the round (`Newcomer`), in step
  (`Ready`), with a trick to hear that takes its last card (`Settling`), its card
  on the table (`CardDown`), its card on the way (`CardSent`), or refused
  (`CardRefused`), each with the shape of the queue in both directions. It
  speaks of the server only through `Truth(s)`, what the game is for side `s`,
  and of the client only through `Belief(w)`, so that what a message does to a
  player (the `Hear` lemmas) and what a move does to a queue (`TrickIsTold`,
  `CardGoesDown`, `SeatedHear`) are proved without the rest of the table. That the
  hand is right after a round comes from `RoundCards`, a fact about the game: a
  hand is what was dealt without the cards of the tricks and of the table.
* `ClientsEndTold` (`ExitTells`), under the same conditions. A client that ends
  has only its own record to tell by, so the invariant (`EndKept`) says what is
  still on its way: while the game is on nothing a player is sent ends it
  (`Plain`); when it is over the totals lie in the queue of every seated player
  with nothing but prompts behind them, or it has heard them, or it was seated
  afterwards and gets the last round's story (`ToldAll`). That the totals reach
  all four comes from `acceptCard`, which queues them for every side in the step
  that ends the game, before it marks the workers for their end; that a client
  does not stop at anything else comes from `TableKept`, by which it takes every
  message for what it is (`HearsWell`).

* `TotalsAreHeard` (`FinalScores`): the last message of every client that does not
  hang up is its final total. It is not true of every server, and each hypothesis
  stands for a way to break it: `Timeout < 0`, since a stranger that is timed out
  may still be seated while its kill order is under way; `Faults = {}`, since a
  failing send loses the totals with the connection; disjoint `Wants` and nobody
  rude, since a second client that asks for the same seat after the end is given
  it, and then a story without totals. `NoTotalOvertaken` is what is left when only the first
  two are assumed: every loyal client (`Loyal`) hears its total, whatever the others
  do. The invariant (`ServerFaithful`) follows the totals from the step that ends the game
  to the client: until then the client's thread is one nothing has told to go
  (`Playing`); after it, what the client is still to hear, the batch the thread
  is sending and, unless it obeys its kill order already, the queue, ends with
  the totals, prompts aside (`Leaving`, `ToHear`). That the drain before
  the last batch finds them comes from `deliver`: mail and order arrive in one step.

Out of the prover's reach, and TLC's alone: liveness under fairness
(`ServerEnds`, `PlayersFinish`) and anything about ENABLED. Every safety invariant
and every step property of the passing runs has a theorem. No module declares a RECURSIVE operator.

## 6. What the checks found

* `never_throws`: a seated player that introduces itself again is removed
  without giving up its side; the next message to that side throws out of a
  worker thread.
* `no_foreign_poll`: the flip that makes `poll` ignore the socket while a
  message is pending turns a closed descriptor, -1, into 1, standard output.
* `numbers_are_known`: the game's end sets `exiting` but `playerIntro` does not
  look at it. A connection accepted before the end, whose introduction is read
  after a killed worker has given up its side, completes the table again and has
  the side to move asked for the trick after the last one. `parseNetMsg` knows no
  such number; the client reads the first element of the empty list it makes of
  it. A player that has been told its totals can fail this way.
* `available_cards`: a person who answers a prompt and its repetition before
  learning what became of the first card has both in `lastCards`. The server
  accepts the first and refuses the second, and WRONG gives back the oldest
  (`player_console.cpp:64`): the card on the table can be typed again, and the
  refused one, which the server still holds, "is not in your hand". Nothing in
  `anyCmd` or `checkCardCb` makes the person wait. `HandKept` is what is left: it
  speaks of automatic players, which ignore a repeated prompt (`NeverWrong`), and
  of people who have not hurried so far.

Seen in the model and documented, not claimed against: after the end of the
game the process stays up if a zombie is left (its exit rule asks for four
connected players, which departures make impossible), if a connection was
accepted after `finish`, or if a thread met an internal error (it ends without
being erased). A thread killed with a card pending is such a zombie: with
`wantToToQuit` set, `socketAction` returns before it looks at the card.
`OnlyZombiesLinger` shows that a worker told to go that does not is always a
`CLEANUP` or `CLEANUP_UNKNOWN` one.

A DEAL sent on a reconnection carries the side to move (`server.cpp:281`), where
the first DEAL of a round carries the side that starts it, and where
`send_job.h:34` names the field `starting`. The players only print it.

A client that is seated when the game is already over hears no SCORE and TOTAL
and exits with 1 (the `Latecomer` of `ExitTells`).

Seen while reading, outside every model, and easy to test: an unknown option of
`kierki-client` is looped on for ever (`kierki-client.cpp:77`, the iterator is
not advanced); a missing side is printed but does not stop it; an empty line
typed on the console throws `out_of_range` (`player_console.cpp:76`), which `main` does not catch.

## 7. Inventory of what must hold, and where it is stated

* Rules: the taker is the highest of the colour led (`LoopsFindTaker`), the
  price is right in every mode at tricks 7 and 13 (`PenaltyAddsUp`), a legal
  card always exists (`MoverCanMove`).
* Game: `HandsInStep`, `CountersAgree`, `CardsInOnePlace`, `NoRevoke`,
  `LedgerBalances`, `ImplementsKierki`.
* Seats: count, map and roles agree (`SeatsAgree`), a seat is never left to a
  dead thread (`SeatedWorkerLives`), the game moves only by the mover
  (`OnlyTheMoverMoves`).
* Threads: no lost wake-up (`NobodySleepsOnWork`), joins do not block
  (`JoinedIsOver`), the end (`OnlyZombiesLinger`, `ServerEnds`, `FinalScores`).
* Clients: the local hand is the server's (`HandKept`; for people who hurry
  `AvailableCards`, which fails), prompts are answered once
  and with legal cards (`NeverWrong`), never from an empty hand
  (`AskedWithCards`); exit codes tell how it ended (`ExitTells`); everybody gets
  to the end (`PlayersFinish`).
* Text: what is read is what was written (`PromptsRead`, `ResultsRead`,
  `HandsArrive`), and only known numbers are written (`NumbersAreKnown`).
* Streams: what a client is told adds up to the round (`StreamTellsRound`), the
  mover has been asked (`MoverIsAsked`) and is asked again (`MoverIsOnTimer`).

## 8. Plan

Done, in this order: `GameRules`, `Game`, `Kierki`, `GameProps`; `IOWorkerMgr`,
`Server`, `IOWorker`, `ServerProps`; `GameProofs`; `Client`, `ClientServer`;
`Codec`; `CallbackProofs`, `ClientServerProofs`, `SeatProofs`;
`MessageProofs`, `StoryProofs`; the clients' hands and
their end in `ClientServerProofs`; `RulesProofs` and `CodecProofs`, last of all
the round trips of `Codec`.

Next, to model: descriptors, `handleQueue` going on after a failed send while a
new connection reuses the number.

### Not modelled

* Command lines: argument lists are read once, before any state exists.
* Logging, `Message`, what players print and `takenTricks`: output only.
* Address lookup, socket creation, `setsockopt`, signal set-up: they succeed or
  end the process at the start.
* Build files.
* The client's poll loop: it handles standard input in preference to the socket,
  so an end of file on standard input starves the socket for good
  (`client.cpp:95`). One look shows it and a model would only restate it.
