----------------------------- MODULE MessageProofs -----------------------------
(***************************************************************************)
(* The messages of the running server, for any clients and faults: what    *)
(* travels between the threads and to the clients is well formed, and the  *)
(* prompt of the side to move is never lost on the way, nor the timer that *)
(* repeats it.                                                             *)
(***************************************************************************)
EXTENDS SeatProofs

\* Queues, connections and clients hold nothing else.
Streams ==
    /\ jobs \in [Workers -> Seq(Letter)]
    /\ pout \in [Workers -> Seq(Letter)]
    /\ asked \in [Workers -> Seq(Nat)]
    /\ told \in [Workers -> Seq(Letter)]

\* What one handler adds to the queues.
Mailed(mail) ==
    /\ mail \in [Workers -> Seq(Letter)]
    /\ jobs' = [u \in Workers |-> IF u \in workers THEN jobs[u] \o mail[u] ELSE jobs[u]]

Grown == \E mail : Mailed(mail)

\* A prompt is among the messages.
Prompts(ms) == \E i \in DOMAIN ms : ms[i].type \in {"TRICK", "WRONG"}

-----------------------------------------------------------------------------
(* What the callbacks send.                                                *)

\* What is delivered is added to the queues.
LEMMA DeliverMails ==
    ASSUME NEW mail \in [Workers -> Seq(Letter)], NEW killed, NEW woken, deliver(mail, killed, woken)
    PROVE  Mailed(mail)
BY DEF deliver, Mailed

\* Post for sides,
LEMMA PostMails ==
    ASSUME NEW f \in [Sides -> Seq(Letter)], NEW killed, post(f, killed)
    PROVE  Mailed(ToWorkers(activeSides, f))
BY ToWorkersType, DeliverMails DEF post

\* for one worker,
LEMMA SendMails ==
    ASSUME NEW w, NEW msgs \in Seq(Letter), NEW killed, sendTo(w, msgs, killed)
    PROVE  Mailed(Mail(w, msgs))
<1>1. NoMail \in [Workers -> Seq(Letter)]
  <2>1. <<>> \in Seq(Letter)
    OBVIOUS
  <2>2. QED
    BY <2>1 DEF NoMail
<1>2. Mail(w, msgs) \in [Workers -> Seq(Letter)]
  BY <1>1 DEF Mail
<1>3. QED
  BY <1>2, DeliverMails DEF sendTo

\* kill orders without any message,
LEMMA KillMails ==
    ASSUME NEW killed, kill(killed)
    PROVE  Grown
<1>1. <<>> \in Seq(Letter)
  OBVIOUS
<1>2. QED
  BY <1>1, SendMails DEF kill, Grown

\* and none at all.
LEMMA QuietMails ==
    ASSUME Streams, UNCHANGED jobs
    PROVE  Grown
<1>1. NoMail \in [Workers -> Seq(Letter)]
  BY DEF NoMail
<1>2. \A u \in Workers : jobs[u] \o NoMail[u] = jobs[u]
  BY DEF Streams, NoMail
<1>3. jobs' = [u \in Workers |-> jobs[u]]
  BY DEF Streams
<1>4. Mailed(NoMail)
  BY <1>1, <1>2, <1>3 DEF Mailed
<1>5. QED
  BY <1>4 DEF Grown

\* Whatever a client's message makes the server send,
LEMMA CallMails ==
    ASSUME Running, Streams, NEW w \in Workers, NEW m, m.type = "IAM" => m.side \in Sides,
           NEW done \in BOOLEAN, callback(m, w, done)
    PROVE  Grown
<1>1. GameTypeOK /\ FlagTypes /\ trickNo \in 1 .. TricksPerRound + 1
  BY DEF Running, GameTypeOK
<1>2. CASE m.type = "IAM" /\ takeSide(m.side, w)
  <2>1. IntroPost(m.side) \in [Sides -> Seq(Letter)]
    BY <1>1, <1>2, IntroPostType DEF FlagTypes
  <2>2. ToWorkers(activeSides', IntroPost(m.side)) \in [Workers -> Seq(Letter)]
    BY <2>1, ToWorkersType
  <2>3. Mailed(ToWorkers(activeSides', IntroPost(m.side)))
    BY <1>2, <2>2, DeliverMails DEF takeSide
  <2>4. QED
    BY <2>3 DEF Grown
<1>3. CASE answerBusy(m.side, w)
  <2>1. BusyMsg({s \in Sides : activeSides[s] # NoWorker}) \in Letter
    BY LetterBusy
  <2>2. <<BusyMsg({s \in Sides : activeSides[s] # NoWorker})>> \in Seq(Letter)
    BY <2>1
  <2>3. QED
    BY <1>3, <2>2, SendMails DEF answerBusy, Grown
<1>4. CASE dismissRepeat(w) \/ refuseStranger(w) \/ (handleWrongMessage(w, done) /\ done)
  BY <1>4, KillMails DEF dismissRepeat, refuseStranger, handleWrongMessage
<1>5. CASE acceptCard(m.card, w)
  <2>1. [s \in Sides |-> AfterCard(s, m.card)] \in [Sides -> Seq(Letter)]
    BY <1>1, <1>5, AfterCardType
  <2>2. QED
    BY <1>5, <2>1, PostMails DEF acceptCard, Grown
<1>6. CASE rejectCard(m.trickNo, m.card, w)
  <2>1. <<WrongMsg(trickNo)>> \in Seq(Letter) /\ <<>> \in Seq(Letter)
    BY <1>1, LetterWrong
  <2>2. Post(SenderSide(w), <<WrongMsg(trickNo)>>) \in [Sides -> Seq(Letter)]
    BY <2>1 DEF Post, NoPost
  <2>3. QED
    BY <1>6, <2>2, PostMails DEF rejectCard, Grown
<1>7. CASE UNCHANGED queueVars
  BY <1>7, QuietMails DEF queueVars
<1>8. QED
  BY <1>2, <1>3, <1>4, <1>5, <1>6, <1>7 DEF callback, playerIntro, playerTricked, ignoreCard, handleWrongMessage

\* the exit of a thread,
LEMMA ExitMails ==
    ASSUME Streams, NEW w \in Workers, NEW e, NEW work, NEW quit, grandExitCallback(w, e, work, quit)
    PROVE  Grown
<1>1. CASE internalError \/ proxyLeaves(w, quit)
  BY <1>1, KillMails DEF internalError, proxyLeaves
<1>2. CASE playerLeaves(w, work, quit) \/ zombieLeaves(w, work, quit) \/ strangerLeaves(w, quit) \/ goneAlready(w, quit)
  BY <1>2, QuietMails DEF playerLeaves, zombieLeaves, strangerLeaves, goneAlready, sendNothing, queueVars
<1>3. QED
  BY <1>1, <1>2 DEF grandExitCallback

\* or a timer.
LEMMA TimeoutMails ==
    ASSUME Running, Streams, NEW w \in Workers, handleTimeout(w)
    PROVE  Grown
<1>1. <<TrickMsg(table, trickNo)>> \in Seq(Letter)
  <2>1. TrickMsg(table, trickNo) \in Letter
    BY LetterTrick, RulesAssumption DEF Running, GameTypeOK
  <2>2. QED
    BY <2>1
<1>2. ASSUME sendTo(w, <<TrickMsg(table, trickNo)>>, {})
      PROVE  Grown
  BY <1>1, <1>2, SendMails DEF Grown
<1>3. QED
  BY <1>2, KillMails, QuietMails DEF handleTimeout, sendNothing, queueVars

-----------------------------------------------------------------------------
(* Prompts.                                                                *)

\* A prompt stays one when more is said before it or after it.
LEMMA PromptsJoin ==
    ASSUME NEW s \in Seq(Letter), NEW t \in Seq(Letter), Prompts(s) \/ Prompts(t)
    PROVE  Prompts(s \o t)
<1>1. CASE Prompts(s)
  <2>1. PICK i \in DOMAIN s : s[i].type \in {"TRICK", "WRONG"}
    BY <1>1 DEF Prompts
  <2>2. i \in DOMAIN (s \o t) /\ (s \o t)[i] = s[i]
    OBVIOUS
  <2>3. QED
    BY <2>1, <2>2 DEF Prompts
<1>2. CASE Prompts(t)
  <2>1. PICK i \in DOMAIN t : t[i].type \in {"TRICK", "WRONG"}
    BY <1>2 DEF Prompts
  <2>2. Len(s) + i \in DOMAIN (s \o t) /\ (s \o t)[Len(s) + i] = t[i]
    OBVIOUS
  <2>3. QED
    BY <2>1, <2>2 DEF Prompts
<1>3. QED
  BY <1>1, <1>2

\* The first message goes out; a prompt among the rest is still to come.
LEMMA PromptsTail ==
    ASSUME NEW s \in Seq(Letter), s # <<>>, Prompts(s), Head(s).type \notin {"TRICK", "WRONG"}
    PROVE  Prompts(Tail(s))
<1>1. PICK i \in DOMAIN s : s[i].type \in {"TRICK", "WRONG"}
  BY DEF Prompts
<1>2. i # 1
  BY <1>1
<1>3. i - 1 \in DOMAIN Tail(s) /\ Tail(s)[i - 1] = s[i]
  BY <1>2
<1>4. QED
  BY <1>1, <1>3 DEF Prompts

\* What a handler sends leaves the prompts in the queues.
LEMMA GrownPrompts ==
    ASSUME Streams, Grown
    PROVE  /\ jobs' \in [Workers -> Seq(Letter)]
           /\ \A v \in Workers : Prompts(jobs[v]) => Prompts(jobs'[v])
<1>1. PICK mail : Mailed(mail)
  BY DEF Grown
<1>2. ASSUME NEW v \in Workers
      PROVE  jobs'[v] \in Seq(Letter) /\ (Prompts(jobs[v]) => Prompts(jobs'[v]))
  <2>1. jobs[v] \in Seq(Letter) /\ mail[v] \in Seq(Letter)
    BY <1>1 DEF Mailed, Streams
  <2>2. jobs'[v] = IF v \in workers THEN jobs[v] \o mail[v] ELSE jobs[v]
    BY <1>1 DEF Mailed
  <2>3. QED
    BY <2>1, <2>2, PromptsJoin, LettersJoin
<1>3. jobs' = [v \in Workers |-> jobs'[v]]
  BY <1>1 DEF Mailed
<1>4. QED
  BY <1>2, <1>3

\* A prompt that is sent to a worker on the tables arrives in its queue.
LEMMA MailPrompts ==
    ASSUME Streams, NEW mail, Mailed(mail), NEW v \in Workers, v \in workers, Prompts(mail[v])
    PROVE  Prompts(jobs'[v])
<1>1. jobs[v] \in Seq(Letter) /\ mail[v] \in Seq(Letter) /\ jobs'[v] = jobs[v] \o mail[v]
  BY DEF Mailed, Streams
<1>2. QED
  BY <1>1, PromptsJoin

\* A prompt alone.
LEMMA PromptAlone ==
    ASSUME NEW m, m.type \in {"TRICK", "WRONG"}
    PROVE  Prompts(<<m>>)
<1>1. 1 \in DOMAIN <<m>> /\ <<m>>[1] = m
  OBVIOUS
<1>2. QED
  BY <1>1 DEF Prompts

\* TRICK and WRONG are prompts.
LEMMA PromptKinds ==
    ASSUME NEW tab, NEW no
    PROVE  Prompts(<<TrickMsg(tab, no)>>) /\ Prompts(<<WrongMsg(no)>>)
BY PromptAlone DEF TrickMsg, WrongMsg

\* Unless it ends the game, a legal card makes the server prompt the side
\* that is to move next.
LEMMA AfterCardPrompts ==
    ASSUME GameTypeOK, NEW w, NEW card, acceptCard(card, w), ~GameOver'
    PROVE  Prompts(AfterCard(nextMove', card))
<1> DEFINE prompt == <<TrickMsg(table', trickNo')>>
<1>1. card \in Card /\ GameTypeOK'
  BY AcceptTypes
<1>2. prompt \in Seq(Letter) /\ Prompts(prompt)
  <2>1. table' \in Seq(Card) /\ trickNo' \in 1 .. TricksPerRound + 1
    BY <1>1 DEF GameTypeOK
  <2>2. TrickMsg(table', trickNo') \in Letter
    BY <2>1, LetterTrick
  <2>3. prompt \in Seq(Letter)
    BY <2>2
  <2>4. QED
    BY ONLY <2>3, PromptKinds
<1>3. CASE Len(table) + 1 < NSides
  <2>1. roundNumber' = roundNumber
    BY <1>3 DEF acceptCard, Play, playCard, addCard, closeTrick, closeRound, closeGame
  <2>2. ~(roundNumber' > roundNumber)
    BY <2>1 DEF GameTypeOK
  <2>3. AfterCard(nextMove', card) = prompt
    BY ONLY <1>3, <2>2, ~GameOver' DEF AfterCard
  <2>4. QED
    BY ONLY <1>2, <2>3
<1>4. CASE ~(Len(table) + 1 < NSides)
  <2>1. Len(table) + 1 = NSides
    BY <1>4 DEF acceptCard, Play, playCard, addCard, closeTrick, closeRound, closeGame
  <2>2. TakenMsg(card) \in Letter /\ ScoreMsg(RoundScore(card)) \in Letter /\ TotalMsg(NewTotals(card)) \in Letter
    BY <1>1, <2>1, TakeType, LetterTaken, LetterScore
  <2>3. DealMsg(roundMode', nextMove', hands'[nextMove']) \in Letter
    BY <1>1, LetterDeal DEF GameTypeOK
  <2>4. NewRound(nextMove', card) \in Seq(Letter)
    BY <2>2, <2>3, LettersJoin DEF NewRound, LastTold
  <2>5. <<TakenMsg(card)>> \in Seq(Letter)
    BY <2>2
  <2>6. AfterCard(nextMove', card) \in {NewRound(nextMove', card) \o prompt, <<TakenMsg(card)>> \o prompt}
    BY ONLY <1>4, ~GameOver' DEF AfterCard
  <2>7. HIDE DEF prompt
  <2>8. Prompts(NewRound(nextMove', card) \o prompt) /\ Prompts(<<TakenMsg(card)>> \o prompt)
    BY <1>2, <2>4, <2>5, PromptsJoin
  <2>9. QED
    BY <2>6, <2>8
<1>5. QED
  BY <1>3, <1>4

-----------------------------------------------------------------------------
(* Who is prompted.                                                        *)

\* A legal card: the worker of the side to move next.
LEMMA AcceptPrompts ==
    ASSUME Running, Streams, NEW w, NEW card, acceptCard(card, w), ~exiting',
           NEW v \in Workers, v \in workers, activeSides[nextMove'] = v
    PROVE  Prompts(jobs'[v])
<1> DEFINE f == [s \in Sides |-> AfterCard(s, card)]
           mail == ToWorkers(activeSides, f)
<1>1. ~GameOver'
  BY DEF acceptCard, finalize
<1>2. GameTypeOK /\ nextMove' \in Sides
  BY AcceptTypes DEF Running, GameTypeOK
<1>3. f \in [Sides -> Seq(Letter)]
  BY <1>2, AfterCardType
<1>4. Mailed(mail)
  BY <1>3, PostMails DEF acceptCard
<1>5. mail[v] = AfterCard(nextMove', card)
  <2>1. \A t \in Sides : activeSides[t] = v => t = nextMove'
    BY <1>2 DEF Running, Seats
  <2>2. mail[v] = f[nextMove']
    BY <1>2, <2>1, ToWorkersAt
  <2>3. QED
    BY <1>2, <2>2
<1>6. Prompts(mail[v])
  BY <1>1, <1>2, <1>5, AfterCardPrompts
<1>7. QED
  BY <1>4, <1>6, MailPrompts

\* The arrival that completes the table: the worker of the side to move.
LEMMA TakePrompts ==
    ASSUME Running, Streams, NEW w \in Workers, NEW side \in Sides, takeSide(side, w), ~Incomplete',
           NEW v \in Workers, v \in workers, activeSides'[nextMove] = v
    PROVE  Prompts(jobs'[v])
<1> DEFINE mail == ToWorkers(activeSides', IntroPost(side))
<1>1. GameTypeOK /\ FlagTypes /\ nextMove \in Sides
  BY DEF Running, GameTypeOK
<1>2. IntroPost(side) \in [Sides -> Seq(Letter)]
  BY <1>1, IntroPostType DEF FlagTypes
<1>3. Mailed(mail)
  BY <1>2, ToWorkersType, DeliverMails DEF takeSide
<1>4. mail[v] = IntroPost(side)[nextMove]
  <2>1. Seats'
    BY TakeSeats DEF Running
  <2>2. \A t \in Sides : activeSides'[t] = v => t = nextMove
    BY <1>1, <2>1 DEF Seats
  <2>3. QED
    BY <1>1, <2>2, ToWorkersAt
<1>5. Starts \/ Resumes
  <2>1. playersConnected # NSides
    BY OccupiedFinite DEF takeSide, Occupied, Running, Seats
  <2>2. playersConnected' = playersConnected + 1
    BY DEF takeSide
  <2>3. playersConnected + 1 = NSides
    BY <2>1, <2>2, CountType DEF Incomplete
  <2>4. QED
    BY <2>3 DEF Starts, Resumes
<1>6. PromptNow(nextMove) \in Seq(Letter) /\ Prompts(PromptNow(nextMove))
  <2>1. TrickMsg(table, trickNo) \in Letter
    BY <1>1, LetterTrick, RulesAssumption DEF GameTypeOK
  <2>2. <<TrickMsg(table, trickNo)>> \in Seq(Letter) /\ PromptNow(nextMove) = <<TrickMsg(table, trickNo)>>
    BY <2>1 DEF PromptNow
  <2>3. QED
    BY ONLY <2>2, PromptKinds
<1>7. Prompts(IntroPost(side)[nextMove])
  <2>1. CASE Starts
    <3>1. <<DealMsg(roundMode, nextMove, hands[nextMove])>> \in Seq(Letter)
      BY <1>1, LetterDeal DEF GameTypeOK
    <3>2. IntroPost(side)[nextMove] = <<DealMsg(roundMode, nextMove, hands[nextMove])>> \o PromptNow(nextMove)
      BY <1>1, <2>1 DEF IntroPost
    <3>3. QED
      BY <1>6, <3>1, <3>2, PromptsJoin
  <2>2. CASE ~Starts
    <3>1. Resumes /\ lastDeal # <<>>
      BY <1>5, <2>2 DEF Resumes
    <3>2. <<DealMsg(roundMode, nextMove, lastDeal[nextMove])>> \in Seq(Letter)
      BY <1>1, <3>1, LetterDeal DEF GameTypeOK, FlagTypes
    <3>3. takenInRound \in Seq(Letter)
      BY <1>1, LetterTaken DEF GameTypeOK
    <3>4. Story(nextMove) \in Seq(Letter) /\ <<>> \in Seq(Letter)
      BY <3>2, <3>3, LettersJoin DEF Story
    <3>5. \/ IntroPost(side)[nextMove] = Story(nextMove) \o PromptNow(nextMove)
          \/ IntroPost(side)[nextMove] = <<>> \o PromptNow(nextMove)
      BY <1>1, <2>2, <3>1 DEF IntroPost
    <3>6. QED
      BY <1>6, <3>4, <3>5, PromptsJoin
  <2>3. QED
    BY <2>1, <2>2
<1>8. QED
  BY <1>3, <1>4, <1>7, MailPrompts

\* A card that cannot be played: the player that sent it.
LEMMA RejectPrompts ==
    ASSUME Running, Streams, NEW w \in Workers, NEW no, NEW card, rejectCard(no, card, w),
           roles[w] = "SERVING_ACTIVE", w \in workers
    PROVE  Prompts(jobs'[w])
<1> DEFINE side == SenderSide(w)
           mail == ToWorkers(activeSides, Post(side, <<WrongMsg(trickNo)>>))
<1>1. side = workerToSide[w] /\ side \in Sides /\ activeSides[side] = w
  BY DEF SenderSide, Running, SeatTypes, Seats, Maybe
<1>2. <<WrongMsg(trickNo)>> \in Seq(Letter) /\ <<>> \in Seq(Letter)
  <2>1. WrongMsg(trickNo) \in Letter
    BY LetterWrong, RulesAssumption DEF Running, GameTypeOK
  <2>2. QED
    BY <2>1
<1>3. Post(side, <<WrongMsg(trickNo)>>) \in [Sides -> Seq(Letter)]
  BY <1>2 DEF Post, NoPost
<1>4. Mailed(mail)
  BY <1>3, PostMails DEF rejectCard
<1>5. mail[w] = <<WrongMsg(trickNo)>>
  <2>1. \A t \in Sides : activeSides[t] = w => t = side
    BY <1>1 DEF Running, Seats
  <2>2. mail[w] = Post(side, <<WrongMsg(trickNo)>>)[side]
    BY <1>1, <2>1, ToWorkersAt
  <2>3. QED
    BY <1>1, <2>2 DEF Post, NoPost
<1>6. QED
  BY <1>4, <1>5, MailPrompts, PromptKinds

\* A timer of the side to move that runs out: its worker.
LEMMA TimeoutPrompts ==
    ASSUME Running, Streams, NEW w \in Workers, handleTimeout(w), w \in workers,
           roles[w] = "SERVING_ACTIVE", nextMove = workerToSide[w], ~Incomplete, ~exiting
    PROVE  Prompts(jobs'[w])
<1>1. sendTo(w, <<TrickMsg(table, trickNo)>>, {})
  BY DEF handleTimeout
<1>2. <<TrickMsg(table, trickNo)>> \in Seq(Letter)
  <2>1. TrickMsg(table, trickNo) \in Letter
    BY LetterTrick, RulesAssumption DEF Running, GameTypeOK
  <2>2. QED
    BY <2>1
<1>3. Mailed(Mail(w, <<TrickMsg(table, trickNo)>>))
  BY <1>1, <1>2, SendMails
<1>4. Mail(w, <<TrickMsg(table, trickNo)>>)[w] = <<TrickMsg(table, trickNo)>>
  BY DEF Mail, NoMail
<1>5. QED
  BY <1>3, <1>4, MailPrompts, PromptKinds

-----------------------------------------------------------------------------
(* The prompt on its way.                                                  *)

\* The thread of w has to answer, to send or to queue a message that ends in
\* a prompt or in the answer to one.
Owed(w) ==
    \/ pin[w].type \in {"TRICK", "BAD"}
    \/ Prompts(pout[w])
    \/ Prompts(jobs[w])

\* A worker with a prompt on its way, or unanswered and, for a player, on a
\* timer whenever its thread waits.
Timely(w) == Owed(w) \/ (resp[w] /\ (pc[w] = "poll" => armed[w]))

Served(w) ==
    conn[w] = "open" =>
        /\ Owed(w) \/ asked[w] # <<>>
        /\ Timeout > 0 /\ roles[w] = "SERVING_ACTIVE" => Timely(w)

\* Some side is to move.
Dealt == ~Incomplete /\ lastDeal # <<>> /\ ~exiting

Prompted == Dealt => Served(activeSides[nextMove])

\* Who has been let go has no connection left, and the listener and those
\* who never got a seat have none.
Gone ==
    \A w \in Workers :
        /\ roles[w] = "SHUTDOWN" => conn[w] # "open"
        /\ roles[w] \in {"SERVING_PROXY", "CLEANUP_UNKNOWN"} => workerToSide[w] = NoSide

\* What a step of another thread leaves a worker.
Aside(v) ==
    /\ asked'[v] = asked[v] /\ armed'[v] = armed[v] /\ resp'[v] = resp[v]
    /\ Prompts(jobs[v]) => Prompts(jobs'[v])

\* What a step of w has to achieve, if it moves nobody to another seat.
Attends(w) ==
    /\ Streams'
    /\ \A v \in Workers \ {w} : Aside(v)
    /\ Dealt /\ Dealt' /\ activeSides[nextMove] = w /\ Served(w) => Served(w)'

\* The thread touches only what is its own.
LEMMA OwnAside ==
    ASSUME Running, Streams, NEW w \in Workers, NEW v \in Workers \ {w},
           UNCHANGED jobs \/ \E x : Set(jobs, w, x),
           UNCHANGED asked \/ \E x : Set(asked, w, x),
           UNCHANGED armed \/ \E x : Set(armed, w, x),
           UNCHANGED resp \/ \E x : Set(resp, w, x)
    PROVE  Aside(v)
<1>1. jobs'[v] = jobs[v] /\ asked'[v] = asked[v]
  BY DEF Set, Streams
<1>2. armed'[v] = armed[v] /\ resp'[v] = resp[v]
  BY DEF Set, Running, LoopTypes
<1>3. QED
  BY <1>1, <1>2 DEF Aside

\* What w has of its own.
LEMMA OwnStreams ==
    ASSUME Running, Streams, NEW w \in Workers
    PROVE  /\ w \in DOMAIN jobs /\ w \in DOMAIN pout /\ w \in DOMAIN asked /\ w \in DOMAIN told
           /\ w \in DOMAIN pin /\ w \in DOMAIN pc /\ w \in DOMAIN conn /\ w \in DOMAIN armed /\ w \in DOMAIN resp
           /\ jobs[w] \in Seq(Letter) /\ pout[w] \in Seq(Letter) /\ asked[w] \in Seq(Nat) /\ told[w] \in Seq(Letter)
BY DEF Streams, Running, LoopTypes, Inputs

\* The jobs become messages to send.
LEMMA DrainAttends ==
    ASSUME Running, Streams, NEW w \in Workers, takeJobs(w), UNCHANGED <<clientVars, armed, resp, pin, conn, roles>>,
           NEW x, x # "poll", Set(pc, w, x)
    PROVE  Attends(w)
<1>1. /\ pout'[w] = pout[w] \o jobs[w] /\ jobs'[w] = <<>> /\ pc'[w] = x
      /\ pout[w] \in Seq(Letter) /\ jobs[w] \in Seq(Letter)
  BY OwnStreams DEF takeJobs, Set
<1>2. Streams'
  <2>1. pout[w] \o jobs[w] \in Seq(Letter) /\ <<>> \in Seq(Letter)
    BY <1>1, LettersJoin
  <2>2. pout' \in [Workers -> Seq(Letter)] /\ jobs' \in [Workers -> Seq(Letter)]
    BY <2>1 DEF Streams, takeJobs, Set
  <2>3. QED
    BY <2>2 DEF Streams, clientVars
<1>3. \A v \in Workers \ {w} : Aside(v)
  BY OwnAside DEF takeJobs, clientVars
<1>4. Prompts(pout[w]) \/ Prompts(jobs[w]) => Prompts(pout'[w])
  BY <1>1, PromptsJoin
<1>5. Served(w) => Served(w)'
  BY <1>1, <1>4 DEF Served, Timely, Owed, clientVars
<1>6. QED
  BY <1>2, <1>3, <1>5 DEF Attends

\* One message reaches the client.
LEMMA SendAttends ==
    ASSUME Running, Streams, NEW w \in Workers, sendOne(w)
    PROVE  Attends(w)
<1> DEFINE m == Head(pout[w])
<1>1. /\ pout[w] \in Seq(Letter) /\ pout[w] # <<>> /\ m \in Letter /\ Tail(pout[w]) \in Seq(Letter)
      /\ pout'[w] = Tail(pout[w])
  BY OwnStreams DEF sendOne, MaySend, Set
<1>2. m.type \in {"TRICK", "WRONG"} => m.trickNo \in Nat
  BY <1>1, RulesAssumption DEF Letter, Messages
<1>3. asked' \in [Workers -> Seq(Nat)] /\ (asked[w] # <<>> \/ m.type \in {"TRICK", "WRONG"} => asked'[w] # <<>>)
  <2>1. m.type \in {"TRICK", "WRONG"} => Append(asked[w], m.trickNo) \in Seq(Nat) /\ Append(asked[w], m.trickNo) # <<>>
    <3>1. ASSUME NEW q \in Seq(Nat), NEW n \in Nat
          PROVE  Append(q, n) \in Seq(Nat) /\ Append(q, n) # <<>>
      <4>1. Append(q, n) \in Seq(Nat) /\ Len(Append(q, n)) = Len(q) + 1 /\ Len(q) \in Nat
        OBVIOUS
      <4>2. Len(Append(q, n)) # 0
        BY <4>1
      <4>3. QED
        BY <4>1, <4>2, EmptyLen
    <3>2. asked[w] \in Seq(Nat)
      BY OwnStreams
    <3>3. QED
      BY ONLY <1>2, <3>1, <3>2, Zenon
  <2>2. Set(asked, w, IF m.type \in {"TRICK", "WRONG"} THEN Append(asked[w], m.trickNo) ELSE asked[w])
    BY DEF sendOne, Hear
  <2>3. QED
    BY <2>1, <2>2 DEF Streams, Set
<1>4. told' \in [Workers -> Seq(Letter)]
  <2>1. <<m>> \in Seq(Letter) /\ Append(told[w], m) \in Seq(Letter) /\ told[w] \in Seq(Letter)
    BY <1>1, OwnStreams
  <2>2. PICK t \in Seq(Letter) : Set(told, w, t)
    <3>1. Set(told, w, CASE m.type = "DEAL" -> <<m>>
                         [] m.type \in {"TAKEN", "SCORE", "TOTAL", "BUSY"} -> Append(told[w], m)
                         [] OTHER -> told[w])
      BY DEF sendOne, Hear
    <3>2. (CASE m.type = "DEAL" -> <<m>>
             [] m.type \in {"TAKEN", "SCORE", "TOTAL", "BUSY"} -> Append(told[w], m)
             [] OTHER -> told[w]) \in {<<m>>, Append(told[w], m), told[w]}
      OBVIOUS
    <3>3. QED
      BY <2>1, <3>1, <3>2
  <2>3. QED
    BY <2>2 DEF Streams, Set
<1>5. Streams'
  <2>1. pout' \in [Workers -> Seq(Letter)] /\ UNCHANGED jobs
    BY <1>1 DEF Streams, sendOne, Set, sharedVars, queueVars
  <2>2. QED
    BY <1>3, <1>4, <2>1 DEF Streams
<1>6. \A v \in Workers \ {w} : Aside(v)
  BY OwnAside DEF sendOne, Hear, sharedVars, queueVars
<1>7. Prompts(pout[w]) => Prompts(pout'[w]) \/ m.type \in {"TRICK", "WRONG"}
  BY <1>1, PromptsTail
<1>8. /\ UNCHANGED <<jobs, pin, pc, conn, roles>> /\ resp'[w] /\ pc[w] # "poll"
  BY OwnStreams DEF sendOne, Set, sharedVars, queueVars, tableVars
<1>9. Served(w) => Served(w)'
  BY <1>3, <1>7, <1>8 DEF Served, Timely, Owed
<1>10. QED
  BY <1>5, <1>6, <1>9 DEF Attends

\* A step of the loop that queues nothing, if it does not wait with the timer
\* of an answered client off.
LEMMA QuietAttends ==
    ASSUME Running, Streams, NEW w \in Workers, UNCHANGED <<jobs, clientVars, resp, pin, roles>>,
           UNCHANGED armed \/ \E x : Set(armed, w, x),
           conn'[w] = "open" => conn[w] = "open",
           UNCHANGED pout \/ (conn'[w] # "open" /\ \E x \in Seq(Letter) : Set(pout, w, x)),
           conn'[w] = "open" /\ pc'[w] = "poll" /\ Timeout > 0 /\ resp[w] => armed'[w]
    PROVE  Attends(w)
<1>1. Streams'
  <2>1. pout' \in [Workers -> Seq(Letter)]
    BY DEF Streams, Set
  <2>2. QED
    BY <2>1 DEF Streams, clientVars
<1>2. \A v \in Workers \ {w} : Aside(v)
  BY OwnAside DEF clientVars
<1>3. Served(w) => Served(w)'
  BY DEF Served, Timely, Owed, clientVars
<1>4. QED
  BY <1>1, <1>2, <1>3 DEF Attends

\* The steps of the loop by themselves.
LEMMA LoopAttends ==
    ASSUME Running, Streams, NEW w \in Workers,
           \/ wakeByPipe(w) \/ drain(w) \/ sendOne(w) \/ queueDone(w) \/ obeyKill(w) \/ closeConn(w)
           \/ fault(w)
    PROVE  Attends(w)
<1> USE DEF sharedVars, queueVars, tableVars
<1>1. /\ w \in DOMAIN pc /\ w \in DOMAIN conn /\ w \in DOMAIN armed /\ w \in DOMAIN resp
      /\ pout[w] \in Seq(Letter)
  BY OwnStreams
<1>2. CASE wakeByPipe(w)
  <2>1. UNCHANGED <<jobs, clientVars, resp, pin, roles, pout, conn>> /\ Set(armed, w, FALSE) /\ pc'[w] = "socket"
    BY <1>1, <1>2 DEF wakeByPipe, Set
  <2>2. QED
    BY <2>1, QuietAttends
<1>3. CASE drain(w)
  <2>1. takeJobs(w) /\ UNCHANGED <<clientVars, armed, resp, pin, conn, roles>> /\ Set(pc, w, "send")
    BY <1>3 DEF drain
  <2>2. QED
    BY <2>1, DrainAttends
<1>4. CASE obeyKill(w)
  <2>1. takeJobs(w) /\ UNCHANGED <<clientVars, armed, resp, pin, conn, roles>> /\ Set(pc, w, "lastSend")
    BY <1>4 DEF obeyKill
  <2>2. QED
    BY <2>1, DrainAttends
<1>5. CASE queueDone(w)
  <2>1. UNCHANGED <<jobs, clientVars, resp, pin, roles, pout, conn, armed>>
    BY <1>5 DEF queueDone
  <2>2. pc'[w] = "poll" => ~NeedsTimer(w)
    BY <1>1, <1>5 DEF queueDone, Set, LoopOr
  <2>3. pc'[w] = "poll" /\ Timeout > 0 /\ resp[w] => armed'[w]
    BY <2>1, <2>2 DEF NeedsTimer
  <2>4. QED
    BY <2>1, <2>3, QuietAttends
<1>6. CASE closeConn(w)
  <2>1. UNCHANGED <<jobs, clientVars, resp, pin, roles, pout, armed>> /\ conn'[w] = "closed"
    BY <1>1, <1>6 DEF closeConn, Set
  <2>2. QED
    BY <2>1, QuietAttends
<1>7. CASE pollFails(w)
  <2>1. UNCHANGED <<jobs, clientVars, resp, pin, roles, pout>> /\ Set(armed, w, FALSE) /\ conn'[w] = "closed"
    BY <1>1, <1>7 DEF pollFails, Set
  <2>2. QED
    BY <2>1, QuietAttends
<1>8. CASE pipeFails(w)
  <2>1. UNCHANGED <<jobs, clientVars, resp, pin, roles, pout, conn, armed>> /\ pc'[w] = "final"
    BY <1>1, <1>8 DEF pipeFails, Set
  <2>2. QED
    BY <2>1, QuietAttends
<1>9. CASE sendFails(w)
  <2>1. UNCHANGED <<jobs, clientVars, resp, pin, roles, armed>> /\ conn'[w] = "closed"
    BY <1>1, <1>9 DEF sendFails, Set
  <2>2. Tail(pout[w]) \in Seq(Letter)
    BY <1>1, <1>9 DEF sendFails, MaySend
  <2>3. Set(pout, w, Tail(pout[w]))
    BY <1>9 DEF sendFails
  <2>4. QED
    BY <2>1, <2>2, <2>3, QuietAttends
<1>10. QED
  BY <1>2, <1>3, <1>4, <1>5, <1>6, <1>7, <1>8, <1>9, SendAttends DEF fault

\* A socket that has nothing, or the end, for its thread.
LEMMA SilentAttends ==
    ASSUME Running, Streams, NEW w \in Workers, noAction(w) \/ hangup(w) \/ acceptAction(w),
           UNCHANGED pout, UNCHANGED armed \/ Set(armed, w, FALSE)
    PROVE  /\ Streams'
           /\ \A v \in Workers \ {w} : Aside(v)
           /\ Served(w) /\ pc[w] # "none" => Served(w)'
<1> USE DEF sharedVars, queueVars, tableVars
<1>1. w \in DOMAIN pc /\ w \in DOMAIN conn /\ w \in DOMAIN roles
  BY OwnStreams DEF Running, TableTypes
<1>2. UNCHANGED <<jobs, clientVars, resp, pin>>
  BY DEF noAction, hangup, acceptAction, forwardConnection
<1>3. conn'[w] = "open" => conn[w] = "open"
  BY <1>1 DEF noAction, hangup, acceptAction, Set
<1>4. pc[w] # "none" => nextIx # w
  BY MgrAssumption DEF Running, Threads, TableTypes, Workers
<1>5. pc[w] # "none" => pc'[w] = "drain" /\ roles'[w] = roles[w]
  BY <1>1, <1>4 DEF noAction, hangup, acceptAction, forwardConnection, spawnNewWorker, setRole, Set
<1>6. \A v \in Workers \ {w} : Aside(v)
  BY <1>2, OwnAside DEF clientVars
<1>7. Served(w) /\ pc[w] # "none" => Served(w)'
  BY <1>2, <1>3, <1>5 DEF Served, Timely, Owed, clientVars
<1>8. QED
  BY <1>2, <1>6, <1>7 DEF Streams, clientVars

\* While every side is taken, each has a worker that was let in.
LEMMA EverySeat ==
    ASSUME Running, ~Incomplete, NEW s \in Sides
    PROVE  /\ activeSides[s] \in Workers /\ workerToSide[activeSides[s]] = s
           /\ roles[activeSides[s]] \notin {"none", "SERVING_UNKNOWN"} /\ pc[activeSides[s]] # "none"
<1>1. Cardinality(Occupied) = NSides
  BY OccupiedFinite, RulesAssumption DEF Incomplete, Running, Seats
<1>2. activeSides[s] \in Workers
  BY <1>1, OccupiedFinite DEF Occupied, Running, SeatTypes, Maybe
<1>3. workerToSide[activeSides[s]] = s
  BY <1>2 DEF Running, Seats
<1>4. QED
  BY <1>2, <1>3, NobodyThere DEF Running, Seats, Threads

\* A worker with a seat and a connection is on the tables.
LEMMA ServedIsThere ==
    ASSUME Running, Gone, NEW w \in Workers, workerToSide[w] # NoSide, conn[w] = "open"
    PROVE  w \in workers
BY DEF Running, Threads, Seats, Gone

\* What queues something and changes nothing else a client waits for.
LEMMA GrownAside ==
    ASSUME Running, Streams, Grown, NEW w \in Workers,
           UNCHANGED asked \/ \E x : Set(asked, w, x),
           UNCHANGED armed \/ \E x : Set(armed, w, x),
           UNCHANGED resp \/ \E x : Set(resp, w, x)
    PROVE  \A v \in Workers \ {w} : Aside(v)
BY GrownPrompts DEF Aside, Set, Streams, Running, LoopTypes

\* A timer that runs out prompts the player who is to move.
LEMMA TimerAttends ==
    ASSUME Running, Streams, Gone, NEW w \in Workers, timeOut(w) \/ arm(w)
    PROVE  Attends(w)
<1> USE DEF sharedVars, queueVars, tableVars
<1>1. CASE arm(w) /\ Set(armed, w, TRUE) /\ UNCHANGED sharedVars
  <2>1. UNCHANGED <<jobs, clientVars, resp, pin, roles, pout, conn>>
    BY <1>1 DEF arm
  <2>2. armed'[w]
    BY <1>1, OwnStreams DEF Set
  <2>3. QED
    BY <1>1, <2>1, <2>2, QuietAttends
<1>2. CASE handleTimeout(w) /\ (UNCHANGED armed \/ Set(armed, w, FALSE))
  <2>1. /\ UNCHANGED <<clientVars, pin, roles, pout, conn>>
        /\ UNCHANGED armed \/ Set(armed, w, FALSE)
        /\ UNCHANGED resp \/ Set(resp, w, FALSE)
    BY <1>2 DEF timeOut, arm, handleTimeout
  <2>2. Grown
    BY <1>2, TimeoutMails
  <2>3. Streams'
    BY <2>1, <2>2, GrownPrompts DEF Streams, clientVars
  <2>4. \A v \in Workers \ {w} : Aside(v)
    BY <2>1, <2>2, GrownAside DEF clientVars
  <2>5. ASSUME Dealt, activeSides[nextMove] = w, Served(w)
        PROVE  Served(w)'
    <3>1. workerToSide[w] = nextMove
      BY <2>5 DEF Running, GameTypeOK, Seats
    <3>2. roles[w] = "SERVING_ACTIVE" => w \in workers
      BY DEF Running, Threads
    <3>3. roles[w] = "SERVING_ACTIVE" => Prompts(jobs'[w])
      BY <1>2, <2>5, <3>1, <3>2, TimeoutPrompts DEF Dealt
    <3>4. Prompts(jobs[w]) => Prompts(jobs'[w])
      BY <2>2, GrownPrompts
    <3>5. QED
      BY <2>1, <2>5, <3>3, <3>4 DEF Served, Timely, Owed, clientVars
  <2>6. QED
    BY <2>3, <2>4, <2>5 DEF Attends
<1>3. QED
  BY <1>1, <1>2 DEF timeOut, arm

\* A thread asks to end only when its connection is gone, or the server
\* ends with it.
LEMMA ExitAttends ==
    ASSUME Running, Awake, Streams, NEW w \in Workers,
           (overflow(w) /\ UNCHANGED pout /\ (UNCHANGED armed \/ Set(armed, w, FALSE))) \/ askExit(w) \/ final(w)
    PROVE  /\ Attends(w)
           /\ conn'[w] # "open" \/ (exiting' /\ UNCHANGED roles)
<1>1. PICK work \in BOOLEAN, quit \in BOOLEAN : grandExitCallback(w, err[w], work, quit)
  BY DEF overflow, askExit, final, HasWork
<1>2. Grown
  BY <1>1, ExitMails
<1>3. UNCHANGED <<asked, told, pin, resp, pout>> /\ (UNCHANGED armed \/ Set(armed, w, FALSE))
  BY DEF overflow, askExit, final, clientVars
<1>4. Streams'
  BY <1>2, <1>3, GrownPrompts DEF Streams
<1>5. \A v \in Workers \ {w} : Aside(v)
  BY <1>2, <1>3, GrownAside
<1>6. conn'[w] # "open" \/ (exiting' /\ UNCHANGED roles)
  <2>1. CASE overflow(w)
    BY <2>1, OwnStreams DEF overflow, Set
  <2>2. CASE askExit(w)
    BY <2>2 DEF askExit, Awake, Wakeful
  <2>3. CASE final(w)
    <3>1. conn' = conn /\ (conn[w] # "open" \/ err[w])
      BY <2>3 DEF final, Awake, Wakeful
    <3>2. err[w] => exiting' /\ UNCHANGED roles
      BY <1>1 DEF grandExitCallback, internalError, finalize
    <3>3. QED
      BY <3>1, <3>2
  <2>4. QED
    BY <2>1, <2>2, <2>3
<1>7. Dealt' => Served(w)'
  BY <1>6 DEF Dealt, Served
<1>8. QED
  BY <1>4, <1>5, <1>6, <1>7 DEF Attends

\* Other threads leave a worker served.
LEMMA AsideServes ==
    ASSUME NEW v, Elsewhere(v), Aside(v), Served(v), pc[v] # "none"
    PROVE  Served(v)'
BY DEF Elsewhere, Aside, Served, Timely, Owed

\* The same of the table after a step.
LEMMA SeatedAll ==
    Running /\ ~Incomplete =>
        \A t \in Sides : activeSides[t] \in Workers /\ roles[activeSides[t]] \notin {"none", "SERVING_UNKNOWN"}
BY EverySeat

\* A complete table after a step.
LEMMA SeatedAfter ==
    (Running /\ ~Incomplete =>
        \A t \in Sides : activeSides[t] \in Workers /\ roles[activeSides[t]] \notin {"none", "SERVING_UNKNOWN"})'
BY SeatedAll, PTL

\* A message of a client, new or pending.
LEMMA MessageAttends ==
    ASSUME Running, Running', Awake, Streams, Gone, Prompted, NEW w \in Workers, Stays(w),
           pc[w] \in {"poll", "socket"}, conn[w] = "open",
           NEW m, m.type = "IAM" => m.side \in Sides, pin[w] = None \/ m = pin[w], process(w, m),
           UNCHANGED clientVars \/ Speak(w, m),
           UNCHANGED pout, UNCHANGED armed \/ Set(armed, w, FALSE)
    PROVE  Streams' /\ Prompted'
<1>1. PICK done \in BOOLEAN :
         /\ callback(m, w, done)
         /\ Set(pin, w, IF done THEN None ELSE m)
         /\ Set(conn, w, IF done /\ m.type = "BAD" THEN "quit" ELSE conn[w])
         /\ Set(resp, w, IF m.type = "BAD" /\ ~done THEN resp[w] ELSE FALSE)
  BY DEF process
<1>2. Grown
  BY <1>1, CallMails
<1>3. UNCHANGED told /\ \E q \in Seq(Nat) : Set(asked, w, q) \/ UNCHANGED asked
  <2>1. asked[w] \in Seq(Nat) /\ (asked[w] # <<>> => Tail(asked[w]) \in Seq(Nat))
    BY OwnStreams
  <2>2. QED
    BY <2>1 DEF Speak, clientVars
<1>4. Streams'
  BY <1>2, <1>3, GrownPrompts DEF Streams, Set
<1>5. \A v \in Workers \ {w} : Aside(v)
  BY <1>1, <1>2, <1>3, GrownAside
<1>6. SUFFICES ASSUME Dealt', NEW v, v = activeSides'[nextMove'], conn'[v] = "open"
               PROVE  Served(v)'
  BY <1>4 DEF Prompted, Served
<1>7. v \in Workers /\ roles'[v] \notin {"none", "SERVING_UNKNOWN"}
  BY <1>6, SeatedAfter DEF Dealt, Running, GameTypeOK
<1>8. v # w => Elsewhere(v) /\ pc[v] # "none"
  <2>1. v # w => Elsewhere(v)
    BY <1>7 DEF Stays
  <2>2. v # w => roles[v] # "none"
    BY <1>7, <2>1 DEF Elsewhere, Running, Threads
  <2>3. QED
    BY <1>7, <2>1, <2>2 DEF Running, Threads
<1>9. v \in workers
  <2>1. CASE v = w
    BY <2>1 DEF Running, Threads
  <2>2. CASE v # w
    BY <1>6, <1>7, <1>8, <2>2 DEF Elsewhere, Gone, Running, Threads
  <2>3. QED
    BY <2>1, <2>2
<1>10. Prompts(jobs'[v]) => Served(v)'
  BY DEF Served, Timely, Owed
<1>11. done /\ ~Incomplete'
  BY <1>1, <1>6, CallAnswers DEF Dealt
<1>12. CASE m.type = "IAM" /\ takeSide(m.side, w)
  <2>1. nextMove' = nextMove
    BY <1>12 DEF takeSide, gameVars
  <2>2. Prompts(jobs'[v])
    BY <1>6, <1>7, <1>9, <1>11, <1>12, <2>1, TakePrompts
  <2>3. QED
    BY <1>10, <2>2
<1>13. CASE acceptCard(m.card, w)
  <2>1. activeSides[nextMove'] = v /\ ~exiting'
    BY <1>6, <1>13 DEF acceptCard, seatVars, Dealt
  <2>2. Prompts(jobs'[v])
    BY <1>7, <1>9, <1>13, <2>1, AcceptPrompts
  <2>3. QED
    BY <1>10, <2>2
<1>14. ASSUME UNCHANGED <<gameVars, seatVars, lastDeal, exiting>>,
              \/ answerBusy(m.side, w) \/ (m.type = "IAM" /\ dismissRepeat(w))
              \/ rejectCard(m.trickNo, m.card, w) \/ refuseStranger(w) \/ ignoreCard(w)
              \/ m.type = "BAD"
       PROVE  Served(v)'
  <2>1. v = activeSides[nextMove] /\ Dealt
    BY <1>6, <1>14 DEF gameVars, seatVars, Dealt, Incomplete
  <2>2. Served(v)
    BY <2>1 DEF Prompted
  <2>3. CASE v # w
    BY <1>5, <1>7, <1>8, <2>2, <2>3, AsideServes
  <2>4. CASE v = w
    <3>1. workerToSide[w] # NoSide /\ roles[w] \notin {"none", "SERVING_UNKNOWN"}
      <4>1. nextMove \in Sides /\ ~Incomplete
        BY <2>1 DEF Dealt, Running, GameTypeOK
      <4>2. workerToSide[w] = nextMove /\ roles[w] \notin {"none", "SERVING_UNKNOWN"}
        BY <2>1, <2>4, <4>1, EverySeat
      <4>3. QED
        BY <4>1, <4>2, NobodyThere
    <3>2. roles[w] \notin {"CLEANUP", "CLEANUP_UNKNOWN", "SERVING_PROXY", "SHUTDOWN"}
      BY <3>1 DEF Gone, Awake, Wakeful, Obeying
    <3>3. m.type # "BAD"
      BY <1>1, <1>6, <1>11, <2>4, OwnStreams DEF Set
    <3>4. CASE m.type = "IAM" /\ dismissRepeat(w)
      <4>1. roles'[w] = "CLEANUP"
        BY <3>4 DEF dismissRepeat, setRole, Running, TableTypes
      <4>5. asked'[w] = asked[w]
        BY <3>4, OwnStreams DEF Set, Speak, clientVars
      <4>2. pin[w].type \notin {"TRICK", "BAD"}
        BY <3>4 DEF None
      <4>3. Prompts(jobs[w]) => Prompts(jobs'[w])
        BY <1>2, GrownPrompts
      <4>4. QED
        BY <2>2, <2>4, <4>1, <4>2, <4>3, <4>5 DEF Served, Timely, Owed
    <3>5. CASE rejectCard(m.trickNo, m.card, w)
      <4>1. roles[w] = "SERVING_ACTIVE"
        BY <3>2, <3>5 DEF rejectCard, IsPlayer
      <4>2. Prompts(jobs'[w])
        BY <1>9, <2>4, <3>5, <4>1, RejectPrompts
      <4>3. QED
        BY <1>10, <2>4, <4>2
    <3>6. QED
      BY <1>14, <3>1, <3>2, <3>3, <3>4, <3>5 DEF answerBusy, refuseStranger, ignoreCard
  <2>5. QED
    BY <2>3, <2>4
<1>15. QED
  <2>1. CASE m.type = "IAM"
    <3>1. playerIntro(m.side, w, done)
      BY <1>1, <2>1 DEF callback
    <3>2. takeSide(m.side, w) \/ answerBusy(m.side, w) \/ dismissRepeat(w)
      BY <1>11, <3>1 DEF playerIntro
    <3>3. QED
      BY <1>12, <1>14, <2>1, <3>2 DEF answerBusy, dismissRepeat
  <2>2. CASE m.type = "TRICK"
    <3>1. playerTricked(m.trickNo, m.card, w, done)
      BY <1>1, <2>2 DEF callback
    <3>2. acceptCard(m.card, w) \/ rejectCard(m.trickNo, m.card, w) \/ refuseStranger(w) \/ ignoreCard(w)
      BY <1>11, <3>1 DEF playerTricked
    <3>3. QED
      BY <1>13, <1>14, <3>2 DEF rejectCard, refuseStranger, ignoreCard, serverVars
  <2>3. CASE m.type = "BAD"
    <3>1. handleWrongMessage(w, done)
      BY <1>1, <2>3 DEF callback
    <3>2. UNCHANGED <<gameVars, seatVars, lastDeal, exiting>>
      BY <3>1 DEF handleWrongMessage, serverVars
    <3>3. QED
      BY <1>14, <2>3, <3>2
  <2>4. QED
    BY <1>1, <2>1, <2>2, <2>3 DEF callback

-----------------------------------------------------------------------------
(* Who has been let go.                                                    *)

\* A step changes no seat but that of its own worker.
OwnSeat(w) == \E x : UNCHANGED workerToSide \/ Set(workerToSide, w, x)

\* So only the worker's own connection, role and seat are in question.
LEMMA GoneStep ==
    ASSUME Running, Gone, NEW w \in Workers, Stays(w), OwnSeat(w),
           conn'[w] = "open" => roles'[w] # "SHUTDOWN",
           roles'[w] \in {"SERVING_PROXY", "CLEANUP_UNKNOWN"} => workerToSide'[w] = NoSide
    PROVE  Gone'
<1>1. ASSUME NEW v \in Workers \ {w}
      PROVE  /\ roles'[v] = "SHUTDOWN" => conn'[v] # "open"
             /\ roles'[v] \in {"SERVING_PROXY", "CLEANUP_UNKNOWN"} => workerToSide'[v] = NoSide
  <2>1. workerToSide'[v] = workerToSide[v]
    BY DEF OwnSeat, Set, Running, SeatTypes
  <2>2. Elsewhere(v)
    BY DEF Stays
  <2>3. QED
    BY <2>1, <2>2 DEF Elsewhere, Gone
<1>2. QED
  BY <1>1 DEF Gone

\* A step of the loop changes neither.
LEMMA GoneStays ==
    ASSUME Running, Gone, NEW w \in Workers, Stays(w), UNCHANGED <<roles, workerToSide>>,
           conn'[w] = "open" => conn[w] = "open"
    PROVE  Gone'
<1>1. OwnSeat(w)
  BY DEF OwnSeat
<1>2. QED
  BY <1>1, GoneStep DEF Gone

\* A message lets nobody go for good, and refuses only who has no seat.
LEMMA MessageGone ==
    ASSUME Running, Gone, NEW w \in Workers, Stays(w), conn[w] = "open", NEW m, process(w, m)
    PROVE  Gone'
<1>1. PICK done \in BOOLEAN : callback(m, w, done)
  BY DEF process
<1>2. w \in DOMAIN roles /\ w \in DOMAIN workerToSide
  BY DEF Running, TableTypes, SeatTypes
<1>3. roles[w] # "SHUTDOWN"
  BY DEF Gone
<1>4. roles'[w] # "SHUTDOWN"
  BY <1>1, <1>2, <1>3, CallTables DEF Keeps, setRole
<1>5. OwnSeat(w)
  BY <1>1 DEF OwnSeat, callback, playerIntro, takeSide, answerBusy, dismissRepeat, playerTricked, acceptCard, rejectCard,
              refuseStranger, ignoreCard, handleWrongMessage, Set, serverVars, seatVars
<1>6. roles'[w] \in {"SERVING_PROXY", "CLEANUP_UNKNOWN"} => workerToSide'[w] = NoSide
  <2>1. CASE takeSide(m.side, w)
    BY <1>2, <2>1 DEF takeSide, setRole
  <2>2. CASE answerBusy(m.side, w) \/ refuseStranger(w)
    BY <2>2 DEF answerBusy, refuseStranger, seatVars, Running, Seats
  <2>3. CASE dismissRepeat(w)
    BY <1>2, <2>3 DEF dismissRepeat, setRole
  <2>4. CASE UNCHANGED <<roles, workerToSide>>
    BY <2>4 DEF Gone
  <2>5. QED
    BY <1>1, <2>1, <2>2, <2>3, <2>4
       DEF callback, playerIntro, playerTricked, acceptCard, rejectCard, ignoreCard, handleWrongMessage,
           tableVars, serverVars, seatVars
<1>7. QED
  BY <1>4, <1>5, <1>6, GoneStep

\* Who is let go by the exit callback has no connection.
LEMMA ExitGone ==
    ASSUME Running, Awake, Streams, Gone, NEW w \in Workers, Stays(w),
           (overflow(w) /\ UNCHANGED pout /\ (UNCHANGED armed \/ Set(armed, w, FALSE))) \/ askExit(w) \/ final(w)
    PROVE  Gone'
<1>1. PICK work \in BOOLEAN, quit \in BOOLEAN : grandExitCallback(w, err[w], work, quit)
  BY DEF overflow, askExit, final, HasWork
<1>2. w \in DOMAIN roles /\ w \in DOMAIN workerToSide
  BY DEF Running, TableTypes, SeatTypes
<1>3. conn'[w] # "open" \/ UNCHANGED roles
  BY ExitAttends
<1>4. conn'[w] = "open" => conn[w] = "open"
  BY OwnStreams DEF overflow, askExit, final, Set
<1>5. conn'[w] = "open" => roles'[w] # "SHUTDOWN"
  BY <1>3, <1>4 DEF Gone
<1>6. OwnSeat(w) /\ (roles'[w] \in {"SERVING_PROXY", "CLEANUP_UNKNOWN"} => workerToSide'[w] = NoSide)
  <2>1. CASE playerLeaves(w, work, quit)
    BY <1>2, <2>1 DEF playerLeaves, freeSeat, OwnSeat, Set
  <2>2. ASSUME UNCHANGED workerToSide, roles'[w] = roles[w] \/ roles'[w] = "SHUTDOWN"
        PROVE  OwnSeat(w) /\ (roles'[w] \in {"SERVING_PROXY", "CLEANUP_UNKNOWN"} => workerToSide'[w] = NoSide)
    BY <2>2 DEF OwnSeat, Gone
  <2>3. CASE ~playerLeaves(w, work, quit)
    BY <1>1, <1>2, <2>2, <2>3 DEF grandExitCallback, internalError, zombieLeaves, strangerLeaves, proxyLeaves, goneAlready,
                             leave, setRole, seatVars
  <2>4. QED
    BY <2>1, <2>3
<1>7. QED
  BY <1>5, <1>6, GoneStep

\* A new connection has no seat.
LEMMA AcceptGone ==
    ASSUME Running, Gone, NEW w \in Workers, Stays(w), pc[w] # "none", acceptAction(w)
    PROVE  Gone'
<1>1. nextIx # w /\ w \in DOMAIN roles
  BY MgrAssumption DEF Running, Threads, TableTypes, Workers
<1>2. roles'[w] = roles[w] /\ UNCHANGED <<workerToSide, conn>>
  BY <1>1 DEF acceptAction, forwardConnection, spawnNewWorker, setRole, serverVars, seatVars
<1>3. OwnSeat(w)
  BY <1>2 DEF OwnSeat
<1>4. QED
  BY <1>2, <1>3, GoneStep DEF Gone

-----------------------------------------------------------------------------
(* Every step.                                                             *)

\* What a step other than a message does to game and table: the side to move
\* keeps its worker, unless nobody is to move.
Holds == Dealt' => Dealt /\ nextMove' = nextMove /\ activeSides'[nextMove'] = activeSides[nextMove]

\* The mover stays served if the step serves its own worker.
LEMMA StillPrompted ==
    ASSUME Running, Prompted, NEW w \in Workers, Stays(w), Attends(w), Holds
    PROVE  Prompted'
<1> SUFFICES ASSUME Dealt', NEW v, v = activeSides[nextMove]
             PROVE  Served(v)'
  BY DEF Prompted, Holds, Served, Timely, Owed
<1>1. Dealt /\ Served(v)
  BY DEF Holds, Prompted
<1>2. v \in Workers /\ pc[v] # "none"
  BY <1>1, EverySeat DEF Dealt, Running, GameTypeOK
<1>3. CASE v = w
  BY <1>1, <1>3 DEF Attends
<1>4. CASE v # w
  BY <1>1, <1>2, <1>4, AsideServes DEF Stays, Attends
<1>5. QED
  BY <1>3, <1>4

\* Steps that leave game and table alone,
LEMMA SameHolds ==
    ASSUME UNCHANGED <<gameVars, seatVars, lastDeal, exiting>>
    PROVE  Holds
BY DEF Holds, Dealt, Incomplete, gameVars, seatVars

\* and the exit callback, after which the table is incomplete if a player leaves.
LEMMA ExitHolds ==
    ASSUME Running, NEW w \in Workers, NEW e, NEW work, NEW quit, grandExitCallback(w, e, work, quit)
    PROVE  Holds
<1>1. CASE internalError \/ proxyLeaves(w, quit)
  BY <1>1 DEF internalError, proxyLeaves, finalize, Holds, Dealt
<1>2. CASE playerLeaves(w, work, quit)
  <2>1. playersConnected' = playersConnected - 1
    BY <1>2 DEF playerLeaves, freeSeat
  <2>2. Incomplete'
    BY <2>1, CountType DEF Incomplete
  <2>3. QED
    BY <2>2 DEF Holds, Dealt
<1>3. CASE /\ zombieLeaves(w, work, quit) \/ strangerLeaves(w, quit) \/ goneAlready(w, quit)
           /\ UNCHANGED <<gameVars, lastDeal>>
  BY <1>3, SameHolds DEF zombieLeaves, strangerLeaves, goneAlready
<1>4. QED
  BY <1>1, <1>2, <1>3 DEF grandExitCallback

\* The two together.
LEMMA AttendsPrompts ==
    ASSUME Running, Prompted, NEW w \in Workers, Stays(w), Attends(w), Holds, Gone'
    PROVE  Streams' /\ Gone' /\ Prompted'
BY StillPrompted DEF Attends

\* The steps of the loop and the faults.
LEMMA LoopPrompts ==
    ASSUME Running, Streams, Gone, Prompted, NEW w \in Workers, Stays(w),
           \/ wakeByPipe(w) \/ drain(w) \/ sendOne(w) \/ queueDone(w) \/ obeyKill(w) \/ closeConn(w)
           \/ fault(w)
    PROVE  Streams' /\ Gone' /\ Prompted'
<1>1. UNCHANGED <<gameVars, seatVars, lastDeal, exiting, roles, workerToSide>>
  BY DEF wakeByPipe, drain, sendOne, queueDone, obeyKill, closeConn, fault, pollFails, pipeFails, sendFails,
         sharedVars, serverVars, seatVars, tableVars
<1>2. conn'[w] = "open" => conn[w] = "open"
  BY OwnStreams DEF wakeByPipe, drain, sendOne, queueDone, obeyKill, closeConn, fault, pollFails, pipeFails, sendFails,
                    Set
<1>3. Gone'
  BY <1>1, <1>2, GoneStays
<1>4. Attends(w)
  BY LoopAttends
<1>5. QED
  BY <1>1, <1>3, <1>4, SameHolds, AttendsPrompts

\* The timer.
LEMMA TimerPrompts ==
    ASSUME Running, Streams, Gone, Prompted, NEW w \in Workers, Stays(w), timeOut(w) \/ arm(w)
    PROVE  Streams' /\ Gone' /\ Prompted'
<1>1. UNCHANGED <<gameVars, seatVars, lastDeal, exiting, roles, workerToSide, conn>>
  BY DEF timeOut, arm, handleTimeout, sharedVars, serverVars, seatVars, tableVars
<1>2. Gone'
  BY <1>1, GoneStays
<1>3. Attends(w)
  BY TimerAttends
<1>4. QED
  BY <1>1, <1>2, <1>3, SameHolds, AttendsPrompts

\* The exit callback.
LEMMA ExitPrompts ==
    ASSUME Running, Awake, Streams, Gone, Prompted, NEW w \in Workers, Stays(w),
           (overflow(w) /\ UNCHANGED pout /\ (UNCHANGED armed \/ Set(armed, w, FALSE))) \/ askExit(w) \/ final(w)
    PROVE  Streams' /\ Gone' /\ Prompted'
<1>1. \E work, quit : grandExitCallback(w, err[w], work, quit)
  BY DEF overflow, askExit, final
<1>2. Holds
  BY <1>1, ExitHolds
<1>3. Gone'
  BY ExitGone
<1>4. Attends(w)
  BY ExitAttends
<1>5. QED
  BY <1>2, <1>3, <1>4, AttendsPrompts

\* A socket without a message.
LEMMA SilentPrompts ==
    ASSUME Running, Streams, Gone, Prompted, NEW w \in Workers, Stays(w), pc[w] # "none",
           noAction(w) \/ hangup(w) \/ acceptAction(w), UNCHANGED pout, UNCHANGED armed \/ Set(armed, w, FALSE)
    PROVE  Streams' /\ Gone' /\ Prompted'
<1>1. UNCHANGED <<gameVars, seatVars, lastDeal, exiting>>
  BY DEF noAction, hangup, acceptAction, forwardConnection, sharedVars, serverVars
<1>2. Gone'
  <2>1. CASE noAction(w) \/ hangup(w)
    <3>1. UNCHANGED <<roles, workerToSide>>
      BY <2>1 DEF noAction, hangup, sharedVars, serverVars, seatVars, tableVars
    <3>2. conn'[w] = "open" => conn[w] = "open"
      BY <2>1, OwnStreams DEF noAction, hangup, Set
    <3>3. QED
      BY <3>1, <3>2, GoneStays
  <2>2. QED
    BY <2>1, AcceptGone
<1>3. Attends(w)
  BY SilentAttends DEF Attends
<1>4. QED
  BY <1>1, <1>2, <1>3, SameHolds, AttendsPrompts

\* What the socket has.
LEMMA SocketPrompts ==
    ASSUME Running, Running', Awake, Streams, Gone, Prompted, NEW w \in Workers, Stays(w),
           pc[w] \in {"poll", "socket"}, conn[w] = "open", pin[w] = None, socketReady(w),
           UNCHANGED pout, UNCHANGED armed \/ Set(armed, w, FALSE)
    PROVE  Streams' /\ Gone' /\ Prompted'
<1>1. CASE w # Proxy /\ receive(w)
  <2>1. PICK m \in Says(w) : Speak(w, m) /\ process(w, m)
    BY <1>1 DEF receive
  <2>2. m.type = "IAM" => m.side \in Sides
    BY <1>1, SaidSide
  <2>3. Streams' /\ Prompted'
    BY <2>1, <2>2, MessageAttends
  <2>4. Gone'
    BY <2>1, MessageGone
  <2>5. QED
    BY <2>3, <2>4
<1>2. CASE acceptAction(w) \/ partOfMessage(w) \/ hangup(w)
  BY <1>2, SilentPrompts DEF partOfMessage
<1>3. CASE overflow(w)
  BY <1>3, ExitPrompts
<1>4. QED
  BY <1>1, <1>2, <1>3 DEF socketReady

\* Whatever a thread does, a client or a fault makes it do.
LEMMA ThreadPrompts ==
    ASSUME Running, Running', Awake, Streams, Gone, Prompted, NEW w \in Workers,
           threadStep(w) \/ outside(w) \/ fault(w)
    PROVE  Streams' /\ Gone' /\ Prompted'
<1>1. Stays(w)
  BY StepStays
<1>2. CASE lookAtSocket(w)
  <2>1. pc[w] = "socket" /\ UNCHANGED <<pout, armed>>
    BY <1>2 DEF lookAtSocket
  <2>2. CASE noAction(w)
    BY <1>1, <2>1, <2>2, SilentPrompts
  <2>3. CASE conn[w] = "open" /\ pin[w] # None /\ process(w, pin[w]) /\ UNCHANGED clientVars
    <3>1. pin[w].type = "IAM" => pin[w].side \in Sides
      BY DEF Running, Inputs
    <3>2. PICK m : m = pin[w]
      OBVIOUS
    <3>3. process(w, m)
      BY <2>3, <3>2 DEF process
    <3>4. Streams' /\ Prompted'
      BY <1>1, <2>1, <2>3, <3>1, <3>2, <3>3, MessageAttends
    <3>5. Gone'
      BY <1>1, <2>3, <3>3, MessageGone
    <3>6. QED
      BY <3>4, <3>5
  <2>4. CASE conn[w] = "open" /\ pin[w] = None /\ socketReady(w)
    BY <1>1, <2>1, <2>4, SocketPrompts
  <2>5. QED
    BY <1>2, <2>2, <2>3, <2>4 DEF lookAtSocket
<1>3. CASE wakeBySocket(w)
  <2>1. pin[w] = None /\ conn[w] = "open"
    BY <1>3 DEF wakeBySocket, PolledFd, Socket, Awake, Wakeful, Obeying, Running, LoopTypes
  <2>2. QED
    BY <1>1, <1>3, <2>1, SocketPrompts DEF wakeBySocket
<1>4. CASE wakeByStdout(w)
  BY <1>1, <1>4, SilentPrompts DEF wakeByStdout
<1>5. QED
  BY <1>1, <1>2, <1>3, <1>4, LoopPrompts, TimerPrompts, ExitPrompts DEF threadStep, outside, fault

\* At the start no cards are dealt.
LEMMA InitPrompts == Init => Streams /\ Gone /\ Prompted
<1> SUFFICES ASSUME Init
             PROVE  Streams /\ Gone /\ Prompted
  OBVIOUS
<1>1. Streams
  <2>1. <<>> \in Seq(Letter) /\ <<>> \in Seq(Nat)
    OBVIOUS
  <2>2. QED
    BY <2>1 DEF Init, ServerInit, MgrInit, Streams
<1>2. Gone
  BY DEF Init, ServerInit, MgrInit, Gone
<1>3. ~Dealt
  BY DEF Init, ServerInit, Dealt
<1>4. QED
  BY <1>1, <1>2, <1>3 DEF Prompted

\* The cleaner takes queues only from workers that have been let go.
LEMMA CleanerPrompts ==
    ASSUME Running, Streams, Gone, Prompted, cleanerTakes \/ cleanerJoins
    PROVE  Streams' /\ Gone' /\ Prompted'
<1>1. UNCHANGED <<gameVars, serverVars, threadVars, clientVars, roles>>
  BY DEF cleanerTakes, takeFinished, cleanerJoins, joinFinished, tableVars
<1>2. \A v \in Workers : conn[v] = "open" => jobs'[v] = jobs[v]
  <2>1. \A v \in joining : v \in Workers => conn[v] # "open"
    BY DEF Running, Threads, Gone
  <2>2. QED
    BY <2>1 DEF cleanerTakes, takeFinished, cleanerJoins, joinFinished, queueVars
<1>3. Streams'
  <2>1. <<>> \in Seq(Letter)
    OBVIOUS
  <2>2. jobs' \in [Workers -> Seq(Letter)]
    BY <2>1 DEF cleanerTakes, takeFinished, cleanerJoins, joinFinished, queueVars, Streams
  <2>3. QED
    BY <1>1, <2>2 DEF Streams, threadVars, clientVars
<1>4. Gone'
  BY <1>1 DEF Gone, threadVars, serverVars, seatVars
<1>5. Prompted'
  <2> SUFFICES ASSUME Dealt', NEW v, v = activeSides[nextMove], conn[v] = "open"
               PROVE  Served(v)'
    BY <1>1 DEF Prompted, Served, serverVars, seatVars, gameVars, threadVars
  <2>1. Dealt /\ Served(v)
    BY <1>1 DEF Dealt, Incomplete, Prompted, serverVars, seatVars
  <2>2. v \in Workers
    BY <2>1, EverySeat DEF Dealt, Running, GameTypeOK
  <2>3. jobs'[v] = jobs[v]
    BY <1>2, <2>2
  <2>4. QED
    BY <1>1, <2>1, <2>3 DEF Served, Timely, Owed, threadVars, clientVars
<1>6. QED
  BY <1>3, <1>4, <1>5

\* It is inductive with Running and Awake.
LEMMA StepPrompts ==
    Running /\ Running' /\ Awake /\ Streams /\ Gone /\ Prompted /\ [Next]_vars => Streams' /\ Gone' /\ Prompted'
<1> SUFFICES ASSUME Running, Running', Awake, Streams, Gone, Prompted, [Next]_vars
             PROVE  Streams' /\ Gone' /\ Prompted'
  OBVIOUS
<1>1. CASE UNCHANGED vars
  BY <1>1 DEF vars, sharedVars, serverVars, seatVars, gameVars, tableVars, queueVars, threadVars, clientVars,
              Streams, Gone, Prompted, Dealt, Incomplete, Served, Timely, Owed
<1>2. QED
  BY <1>1, ThreadPrompts, CleanerPrompts DEF Next

\* In every state of the running server.
THEOREM ServerPrompts == Spec => [](Running /\ Awake /\ Streams /\ Gone /\ Prompted)
<1>1. Init => Running /\ Awake /\ Streams /\ Gone /\ Prompted
  BY InitRunning, InitAwake, InitPrompts
<1>2. Running /\ Awake /\ Streams /\ Gone /\ Prompted /\ [Next]_vars
      => (Running /\ Awake /\ Streams /\ Gone /\ Prompted)'
  BY StepRuns, StepAwake, StepPrompts
<1>3. QED
  BY <1>1, <1>2, PTL DEF Spec

\* The side to move is never left waiting for a prompt: whoever left, came
\* back, spoke out of turn or was dropped, while the table is complete its
\* client has been asked, will be asked, or has an answer on its way.
THEOREM MoverGetsAsked == Spec => []MoverIsAsked
<1>1. Running /\ Awake /\ Streams /\ Gone /\ Prompted => MoverIsAsked
  <2> SUFFICES ASSUME Running, Streams, Prompted, Dealt, NEW w, w = activeSides[nextMove],
                      conn[w] = "open", pin[w] = None, asked[w] = <<>>
               PROVE  Prompts(Coming(w))
    BY DEF MoverIsAsked, Dealt, Prompts
  <2>1. w \in Workers
    BY EverySeat DEF Dealt, Running, GameTypeOK
  <2>2. Owed(w)
    BY DEF Prompted, Served
  <2>3. Prompts(pout[w]) \/ Prompts(jobs[w])
    BY <2>2 DEF Owed, None
  <2>4. pout[w] \in Seq(Letter) /\ jobs[w] \in Seq(Letter)
    BY <2>1 DEF Streams
  <2>5. QED
    BY <2>3, <2>4, PromptsJoin DEF Coming
<1>2. QED
  BY <1>1, ServerPrompts, PTL

\* With a timeout, the thread of the side to move never sleeps without its
\* timer: a prompt that went out is repeated until it is answered.
THEOREM MoverGetsReminded ==
    ASSUME Timeout > 0
    PROVE  Spec => []MoverIsOnTimer
<1>1. Running /\ Awake /\ Streams /\ Gone /\ Prompted => MoverIsOnTimer
  <2> SUFFICES ASSUME Running, Awake, Streams, Gone, Prompted, Dealt,
                      NEW w, w = activeSides[nextMove], Asleep(w), conn[w] = "open"
               PROVE  armed[w]
    BY DEF MoverIsOnTimer, Dealt
  <2>1. /\ w \in Workers /\ workerToSide[w] # NoSide
        /\ roles[w] \notin {"none", "SERVING_UNKNOWN"}
    BY EverySeat, NobodyThere DEF Dealt, Running, GameTypeOK
  <2>2. roles[w] = "SERVING_ACTIVE"
    <3>1. roles[w] # "CLEANUP"
      BY <2>1 DEF Awake, Wakeful, Obeying, Asleep
    <3>2. QED
      BY <2>1, <3>1 DEF Gone, Running, TableTypes, Maybe, Status
  <2>3. pin[w] = None /\ pout[w] = <<>> /\ jobs[w] = <<>>
    BY <2>1, <2>2 DEF Awake, Wakeful, BeforeDrain, BeforeOrder, Asleep, Dealt
  <2>4. ~Owed(w)
    BY <2>3 DEF Owed, Prompts, None
  <2>5. QED
    BY <2>2, <2>4 DEF Prompted, Served, Timely, Asleep
<1>2. QED
  BY <1>1, ServerPrompts, PTL
=============================================================================
