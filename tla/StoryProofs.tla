------------------------------ MODULE StoryProofs ------------------------------
(***************************************************************************)
(* What the clients of the running server are told of a round adds up to   *)
(* their hand and its tricks, for any clients and faults.  And where calls *)
(* do not fail and nobody is timed out, the last thing a client hears is   *)
(* its final total.                                                        *)
(***************************************************************************)
EXTENDS MessageProofs

\* The messages that tell the round, and those that say nothing of it.
Facts == {"DEAL", "TAKEN"}
Chat(ms) == \A i \in DOMAIN ms : ms[i].type \notin Facts

\* How a stream tells a round: where it is dealt, and where each trick is.
TellsAs(ms, deal, at, mode, hand, tricks) ==
    /\ ms[deal].type = "DEAL" /\ ms[deal].mode = mode /\ ms[deal].cards = hand
    /\ \A i, j \in DOMAIN tricks : i < j => at[i] < at[j]
    /\ \A i \in DOMAIN tricks : ms[at[i]] = tricks[i]
    /\ \A k \in deal + 1 .. Len(ms) : ms[k].type \in Facts => \E i \in DOMAIN tricks : at[i] = k

\* Every seated client with a connection is told the round.
Informed(w) ==
    lastDeal # <<>> /\ conn[w] = "open" /\ workerToSide[w] # NoSide =>
        Tells(Stream(w), roundMode, lastDeal[workerToSide[w]], takenInRound)

EveryoneInformed == \A w \in Workers : Informed(w)

-----------------------------------------------------------------------------
(* Streams that tell a round.                                              *)

\* The places of a stream that is continued.
LEMMA Continued ==
    ASSUME NEW s \in Seq(Letter), NEW t \in Seq(Letter)
    PROVE  /\ s \o t \in Seq(Letter) /\ Len(s \o t) = Len(s) + Len(t)
           /\ \A i \in 1 .. Len(s) : (s \o t)[i] = s[i]
           /\ \A i \in 1 .. Len(t) : (s \o t)[Len(s) + i] = t[i]
OBVIOUS

\* Where the hand and the tricks are found, the round is told.
LEMMA TellsFrom ==
    ASSUME NEW ms, NEW mode, NEW hand, NEW tricks, NEW deal \in DOMAIN ms,
           NEW at \in [DOMAIN tricks -> deal + 1 .. Len(ms)], TellsAs(ms, deal, at, mode, hand, tricks)
    PROVE  Tells(ms, mode, hand, tricks)
BY DEF Tells, TellsAs, Facts

\* Chat may follow a story.
LEMMA TellsOn ==
    ASSUME NEW s \in Seq(Letter), NEW t \in Seq(Letter), Chat(t),
           NEW mode, NEW hand, NEW tricks, Tells(s, mode, hand, tricks)
    PROVE  Tells(s \o t, mode, hand, tricks)
<1>0. PICK deal \in DOMAIN s : \E at \in [DOMAIN tricks -> deal + 1 .. Len(s)] : TellsAs(s, deal, at, mode, hand, tricks)
  BY DEF Tells, TellsAs, Facts
<1>1. PICK at \in [DOMAIN tricks -> deal + 1 .. Len(s)] :
        /\ s[deal].type = "DEAL" /\ s[deal].mode = mode /\ s[deal].cards = hand
        /\ \A i, j \in DOMAIN tricks : i < j => at[i] < at[j]
        /\ \A i \in DOMAIN tricks : s[at[i]] = tricks[i]
        /\ \A k \in deal + 1 .. Len(s) : s[k].type \in Facts => \E i \in DOMAIN tricks : at[i] = k
  BY <1>0 DEF TellsAs
<1> DEFINE ms == s \o t
<1>2. deal \in 1 .. Len(s) /\ Len(s) \in Nat /\ Len(t) \in Nat /\ Len(ms) = Len(s) + Len(t)
  BY <1>1, Continued
<1>3. deal \in DOMAIN ms /\ ms[deal] = s[deal]
  BY <1>2, Continued
<1>4. at \in [DOMAIN tricks -> deal + 1 .. Len(ms)] /\ \A i \in DOMAIN tricks : ms[at[i]] = s[at[i]]
  BY <1>1, <1>2, Continued
<1>5. ASSUME NEW k \in deal + 1 .. Len(ms), ms[k].type \in Facts
      PROVE  \E i \in DOMAIN tricks : at[i] = k
  <2>1. CASE k <= Len(s)
    <3>1. k \in deal + 1 .. Len(s) /\ ms[k] = s[k]
      BY <1>2, <2>1, Continued
    <3>2. QED
      BY <1>1, <1>5, <3>1
  <2>2. CASE k > Len(s)
    <3> DEFINE j == k - Len(s)
    <3>1. j \in 1 .. Len(t) /\ k = Len(s) + j
      BY <1>2, <2>2
    <3>2. ms[k] = t[j]
      BY <3>1, Continued
    <3>3. QED
      BY <1>5, <3>1, <3>2, DOMAIN t = 1 .. Len(t) DEF Chat
  <2>3. QED
    BY <1>2, <2>1, <2>2
<1>6. TellsAs(ms, deal, at, mode, hand, tricks)
  BY <1>1, <1>3, <1>4, <1>5 DEF TellsAs
<1>7. QED
  BY <1>3, <1>4, <1>6, TellsFrom

\* A trick may follow as the last of the story.
LEMMA TellsTrick ==
    ASSUME NEW s \in Seq(Letter), NEW m \in Letter, m.type = "TAKEN",
           NEW mode, NEW hand, NEW tricks \in Seq(Messages), Tells(s, mode, hand, tricks)
    PROVE  Tells(s \o <<m>>, mode, hand, Append(tricks, m))
<1>0. PICK deal \in DOMAIN s : \E at \in [DOMAIN tricks -> deal + 1 .. Len(s)] : TellsAs(s, deal, at, mode, hand, tricks)
  BY DEF Tells, TellsAs, Facts
<1>1. PICK at \in [DOMAIN tricks -> deal + 1 .. Len(s)] :
        /\ s[deal].type = "DEAL" /\ s[deal].mode = mode /\ s[deal].cards = hand
        /\ \A i, j \in DOMAIN tricks : i < j => at[i] < at[j]
        /\ \A i \in DOMAIN tricks : s[at[i]] = tricks[i]
        /\ \A k \in deal + 1 .. Len(s) : s[k].type \in Facts => \E i \in DOMAIN tricks : at[i] = k
  BY <1>0 DEF TellsAs
<1> DEFINE ms == s \o <<m>>
           more == Append(tricks, m)
           n == Len(tricks) + 1
           till == [i \in DOMAIN more |-> IF i = n THEN Len(s) + 1 ELSE at[i]]
<1>2. deal \in 1 .. Len(s) /\ Len(s) \in Nat /\ Len(ms) = Len(s) + 1 /\ ms[Len(s) + 1] = m
  BY <1>1
<1>3. deal \in DOMAIN ms /\ ms[deal] = s[deal]
  BY <1>2
<1>4. /\ n \in Nat /\ DOMAIN tricks = 1 .. n - 1 /\ DOMAIN more = 1 .. n
      /\ more[n] = m /\ \A i \in 1 .. n - 1 : more[i] = tricks[i]
  OBVIOUS
<1>5. till \in [DOMAIN more -> deal + 1 .. Len(ms)]
  BY <1>1, <1>2, <1>4
<1>6. \A i, j \in DOMAIN more : i < j => till[i] < till[j]
  BY <1>1, <1>2, <1>4
<1>7. \A i \in DOMAIN more : ms[till[i]] = more[i]
  <2> HIDE DEF till, more
  <2>1. \A i \in 1 .. n - 1 : at[i] \in 1 .. Len(s) /\ ms[at[i]] = s[at[i]]
    <3>1. \A k \in 1 .. Len(s) : ms[k] = s[k]
      OBVIOUS
    <3>2. \A i \in 1 .. n - 1 : at[i] \in deal + 1 .. Len(s)
      BY ONLY <1>1, <1>4
    <3> HIDE DEF ms, n
    <3>3. \A i \in 1 .. n - 1 : at[i] \in 1 .. Len(s)
      BY ONLY <1>2, <3>2
    <3>4. QED
      BY ONLY <3>1, <3>3
  <2> USE DEF till, more
  <2>2. QED
    BY <1>1, <1>2, <1>4, <2>1
<1>8. ASSUME NEW k \in deal + 1 .. Len(ms), ms[k].type \in Facts
      PROVE  \E i \in DOMAIN more : till[i] = k
  <2>1. CASE k = Len(s) + 1
    BY <1>4, <2>1
  <2>2. CASE k # Len(s) + 1
    <3>1. k \in deal + 1 .. Len(s) /\ ms[k] = s[k]
      BY <1>2, <2>2
    <3>2. PICK i \in DOMAIN tricks : at[i] = k
      BY <1>1, <1>8, <3>1
    <3>3. i \in DOMAIN more /\ till[i] = k
      BY <1>4, <3>2
    <3>4. QED
      BY <3>3
  <2>3. QED
    BY <2>1, <2>2
<1>9. TellsAs(ms, deal, till, mode, hand, more)
  <2>1. \A k \in deal + 1 .. Len(ms) : ms[k].type \in Facts => \E i \in DOMAIN more : till[i] = k
    BY <1>8
  <2>2. ms[deal].type = "DEAL" /\ ms[deal].mode = mode /\ ms[deal].cards = hand
    BY <1>1, <1>3
  <2>3. QED
    BY ONLY <1>6, <1>7, <2>1, <2>2 DEF TellsAs
<1>10. Tells(ms, mode, hand, more)
  <2> HIDE DEF till, more, ms
  <2>1. QED
    BY ONLY <1>3, <1>5, <1>9, TellsFrom, Zenon
<1>11. QED
  BY <1>10

\* A hand and the tricks so far tell a round, whatever was said before.
LEMMA TellsAll ==
    ASSUME NEW s \in Seq(Letter), NEW m \in Letter, m.type = "DEAL", NEW tricks \in Seq(Messages)
    PROVE  Tells(s \o (<<m>> \o tricks), m.mode, m.cards, tricks)
<1> DEFINE rest == <<m>> \o tricks
           ms == s \o rest
           deal == Len(s) + 1
           at == [i \in DOMAIN tricks |-> deal + i]
<1>1. /\ rest \in Seq(Letter) /\ Len(rest) = Len(tricks) + 1 /\ rest[1] = m
      /\ \A i \in 1 .. Len(tricks) : rest[i + 1] = tricks[i]
  <2>1. tricks \in Seq(Letter) /\ <<m>> \in Seq(Letter)
    BY LetterTaken
  <2>2. QED
    BY <2>1
<1>2. /\ Len(s) \in Nat /\ Len(tricks) \in Nat /\ Len(ms) = Len(s) + 1 + Len(tricks)
      /\ DOMAIN ms = 1 .. Len(ms) /\ DOMAIN tricks = 1 .. Len(tricks)
  BY <1>1, Continued
<1>3. ms[deal] = m /\ \A i \in DOMAIN tricks : ms[deal + i] = tricks[i]
  <2>1. \A i \in 1 .. Len(rest) : ms[Len(s) + i] = rest[i]
    BY <1>1, Continued
  <2>2. \A i \in 1 .. Len(tricks) : i + 1 \in 1 .. Len(rest) /\ Len(s) + (i + 1) = deal + i
    BY <1>1, <1>2
  <2>3. 1 \in 1 .. Len(rest)
    BY <1>1, <1>2
  <2>4. QED
    BY <1>1, <1>2, <2>1, <2>2, <2>3
<1>4. deal \in DOMAIN ms /\ at \in [DOMAIN tricks -> deal + 1 .. Len(ms)]
  BY <1>2
<1>5. \A i, j \in DOMAIN tricks : i < j => at[i] < at[j]
  BY <1>2
<1>6. \A k \in deal + 1 .. Len(ms) : \E i \in DOMAIN tricks : at[i] = k
  <2> SUFFICES ASSUME NEW k \in deal + 1 .. Len(ms)
               PROVE  \E i \in DOMAIN tricks : at[i] = k
    OBVIOUS
  <2>1. k - deal \in DOMAIN tricks /\ at[k - deal] = k
    BY <1>2
  <2>2. QED
    BY <2>1
<1>7. \A i \in DOMAIN tricks : ms[at[i]] = tricks[i]
  BY <1>3
<1>8. ms[deal] = m
  BY <1>3
<1>9. Tells(ms, m.mode, m.cards, tricks)
  <2> HIDE DEF ms, at, deal
  <2>1. TellsAs(ms, deal, at, m.mode, m.cards, tricks)
    BY ONLY <1>5, <1>6, <1>7, <1>8, m.type = "DEAL" DEF TellsAs
  <2>2. QED
    BY ONLY <1>4, <2>1, TellsFrom, Zenon
<1>10. QED
  BY <1>9

\* A stream may lose chat, or whatever comes before a new hand.
LEMMA TellsStill ==
    ASSUME NEW ms \in Seq(Letter), NEW ns \in Seq(Letter), NEW f \in Nat, NEW q \in Nat,
           Len(ms) = Len(ns) + q, f <= Len(ns),
           \A i \in 1 .. f : ns[i] = ms[i],
           \A i \in f + 1 .. Len(ns) : ns[i] = ms[i + q],
           \/ \A i \in f + 1 .. f + q : ms[i].type \notin Facts
           \/ f = 0 /\ q + 1 <= Len(ms) /\ ms[q + 1].type = "DEAL",
           NEW mode, NEW hand, NEW tricks \in Seq(Messages), Tells(ms, mode, hand, tricks)
    PROVE  Tells(ns, mode, hand, tricks)
<1>1. PICK old \in DOMAIN ms : \E was \in [DOMAIN tricks -> old + 1 .. Len(ms)] : TellsAs(ms, old, was, mode, hand, tricks)
  BY DEF Tells, TellsAs, Facts
<1>2. PICK was \in [DOMAIN tricks -> old + 1 .. Len(ms)] :
        /\ ms[old].type = "DEAL" /\ ms[old].mode = mode /\ ms[old].cards = hand
        /\ \A i, j \in DOMAIN tricks : i < j => was[i] < was[j]
        /\ \A i \in DOMAIN tricks : ms[was[i]] = tricks[i]
        /\ \A k \in old + 1 .. Len(ms) : ms[k].type \in Facts => \E i \in DOMAIN tricks : was[i] = k
  BY <1>1 DEF TellsAs
<1>3. Len(ms) \in Nat /\ Len(ns) \in Nat /\ old \in 1 .. Len(ms) /\ DOMAIN ns = 1 .. Len(ns)
  BY <1>1
<1>4. \A i \in DOMAIN tricks : ms[was[i]].type = "TAKEN" /\ was[i] \in old + 1 .. Len(ms)
  <2>1. \A i \in DOMAIN tricks : tricks[i] \in Messages
    OBVIOUS
  <2>2. QED
    BY <1>2, <2>1 DEF Messages
<1>5. old \notin f + 1 .. f + q /\ \A i \in DOMAIN tricks : was[i] \notin f + 1 .. f + q
  <2>1. CASE \A i \in f + 1 .. f + q : ms[i].type \notin Facts
    BY <1>2, <1>4, <2>1 DEF Facts
  <2>2. CASE f = 0 /\ q + 1 <= Len(ms) /\ ms[q + 1].type = "DEAL"
    <3>1. old > q
      <4>1. SUFFICES ASSUME old <= q
                     PROVE  FALSE
        BY <1>3
      <4>2. q + 1 \in old + 1 .. Len(ms)
        BY <1>3, <2>2, <4>1
      <4>3. PICK i \in DOMAIN tricks : was[i] = q + 1
        BY <1>2, <2>2, <4>2 DEF Facts
      <4>4. QED
        BY <1>4, <2>2, <4>3
    <3>2. QED
      BY <1>3, <1>4, <2>2, <3>1
  <2>3. QED
    BY <2>1, <2>2
<1> DEFINE g(i) == IF i <= f THEN i ELSE i - q
           deal == g(old)
           at == [i \in DOMAIN tricks |-> g(was[i])]
<1>6. \A i \in 1 .. Len(ms) : i \notin f + 1 .. f + q => g(i) \in 1 .. Len(ns) /\ ns[g(i)] = ms[i]
  <2> SUFFICES ASSUME NEW i \in 1 .. Len(ms), i \notin f + 1 .. f + q
               PROVE  g(i) \in 1 .. Len(ns) /\ ns[g(i)] = ms[i]
    OBVIOUS
  <2>1. CASE i <= f
    BY <1>3, <2>1
  <2>2. CASE i > f
    <3>1. i - q \in f + 1 .. Len(ns) /\ (i - q) + q = i /\ g(i) = i - q
      BY <1>3, <2>2, SMTT(60)
    <3>2. ns[i - q] = ms[(i - q) + q]
      BY <3>1
    <3>3. QED
      BY <1>3, <3>1, <3>2
  <2>3. QED
    BY <1>3, <2>1, <2>2
<1>7. \A i, j \in 1 .. Len(ms) : i < j /\ i \notin f + 1 .. f + q /\ j \notin f + 1 .. f + q => g(i) < g(j)
  BY <1>3
<1>8. deal \in DOMAIN ns /\ ns[deal] = ms[old]
  BY <1>3, <1>5, <1>6
<1>9. \A i \in DOMAIN tricks : was[i] \in 1 .. Len(ms) /\ old < was[i] /\ was[i] \notin f + 1 .. f + q
  BY <1>3, <1>4, <1>5, SMTT(60)
<1>10. \A i \in DOMAIN tricks : deal < g(was[i]) /\ g(was[i]) \in 1 .. Len(ns) /\ ns[g(was[i])] = tricks[i]
  BY <1>2, <1>3, <1>5, <1>6, <1>7, <1>9
<1>11. at \in [DOMAIN tricks -> deal + 1 .. Len(ns)] /\ \A i \in DOMAIN tricks : ns[at[i]] = tricks[i]
  BY <1>3, <1>8, <1>10, SMTT(60)
<1>12. \A i, j \in DOMAIN tricks : i < j => at[i] < at[j]
  BY <1>2, <1>7, <1>9
<1>13. ASSUME NEW k \in deal + 1 .. Len(ns), ns[k].type \in Facts
       PROVE  \E i \in DOMAIN tricks : at[i] = k
  <2> DEFINE h == IF k <= f THEN k ELSE k + q
  <2>1. h \in old + 1 .. Len(ms) /\ ms[h] = ns[k] /\ g(h) = k
    BY <1>3, <1>5, <1>8, SMTT(60)
  <2>2. PICK i \in DOMAIN tricks : was[i] = h
    BY <1>2, <1>13, <2>1
  <2>3. QED
    BY <2>1, <2>2
<1>14. Tells(ns, mode, hand, tricks)
  <2>1. ns[deal].type = "DEAL" /\ ns[deal].mode = mode /\ ns[deal].cards = hand
    BY <1>2, <1>8
  <2>2. \A k \in deal + 1 .. Len(ns) : ns[k].type \in Facts => \E i \in DOMAIN tricks : at[i] = k
    BY <1>13
  <2> HIDE DEF at, deal
  <2>3. TellsAs(ns, deal, at, mode, hand, tricks)
    BY ONLY <1>11, <1>12, <2>1, <2>2 DEF TellsAs
  <2>4. QED
    BY ONLY <1>8, <1>11, <2>3, TellsFrom, Zenon
<1>15. QED
  BY <1>14

\* What the client hears moves from what is coming to what it was told: a
\* new hand makes it forget the rest, and prompts are not remembered.
LEMMA TellsHeard ==
    ASSUME NEW a \in Seq(Letter), NEW c \in Seq(Letter), c # <<>>,
           NEW mode, NEW hand, NEW tricks \in Seq(Messages), Tells(a \o c, mode, hand, tricks)
    PROVE  /\ Tells(Append(a, Head(c)) \o Tail(c), mode, hand, tricks)
           /\ Head(c).type = "DEAL" => Tells(<<Head(c)>> \o Tail(c), mode, hand, tricks)
           /\ Head(c).type \notin Facts => Tells(a \o Tail(c), mode, hand, tricks)
<1>1. /\ Len(a) \in Nat /\ Len(c) \in Nat /\ Len(c) # 0 /\ Head(c) = c[1] /\ Head(c) \in Letter
      /\ Tail(c) \in Seq(Letter) /\ Len(Tail(c)) = Len(c) - 1
      /\ \A i \in 1 .. Len(c) - 1 : Tail(c)[i] = c[i + 1]
  BY EmptyLen
<1> DEFINE ms == a \o c
<1>2. /\ ms \in Seq(Letter) /\ Len(ms) = Len(a) + Len(c)
      /\ \A i \in 1 .. Len(a) : ms[i] = a[i]
      /\ \A i \in 1 .. Len(c) : ms[Len(a) + i] = c[i]
  BY Continued
<1>3. \A i \in 1 .. Len(c) - 1 : ms[Len(a) + 1 + i] = Tail(c)[i]
  BY <1>1, <1>2
<1>4. Append(a, Head(c)) \o Tail(c) = ms
  <2>1. <<Head(c)>> \o Tail(c) = c
    BY <1>1
  <2>2. Append(a, Head(c)) = a \o <<Head(c)>>
    BY <1>1
  <2>3. QED
    BY <1>1, <2>1, <2>2
<1>5. ASSUME Head(c).type = "DEAL"
      PROVE  Tells(<<Head(c)>> \o Tail(c), mode, hand, tricks)
  <2> DEFINE ns == <<Head(c)>> \o Tail(c)
  <2>1. ns = c
    BY <1>1
  <2>2. \A i \in 1 .. Len(c) : c[i] = ms[i + Len(a)]
    BY <1>1, <1>2
  <2>3. Len(a) + 1 <= Len(ms) /\ ms[Len(a) + 1].type = "DEAL"
    BY <1>1, <1>2, <1>5
  <2>4. Tells(c, mode, hand, tricks)
    <3> HIDE DEF ms
    <3>1. /\ 0 \in Nat /\ Len(ms) = Len(c) + Len(a) /\ 0 <= Len(c)
          /\ \A i \in 1 .. 0 : c[i] = ms[i]
          /\ \A i \in 0 + 1 .. Len(c) : c[i] = ms[i + Len(a)]
      BY <1>1, <1>2, <2>2
    <3>2. Tells(ms, mode, hand, tricks)
      BY DEF ms
    <3>3. QED
      BY <1>1, <1>2, <2>3, <3>1, <3>2, TellsStill
  <2>5. QED
    BY <2>1, <2>4
<1>6. ASSUME Head(c).type \notin Facts
      PROVE  Tells(a \o Tail(c), mode, hand, tricks)
  <2> DEFINE ns == a \o Tail(c)
  <2>1. /\ ns \in Seq(Letter) /\ Len(ns) = Len(a) + (Len(c) - 1)
        /\ \A i \in 1 .. Len(a) : ns[i] = a[i]
        /\ \A i \in 1 .. Len(c) - 1 : ns[Len(a) + i] = Tail(c)[i]
    BY <1>1, Continued
  <2>2. \A i \in Len(a) + 1 .. Len(ns) : ns[i] = ms[i + 1]
    <3> SUFFICES ASSUME NEW i \in Len(a) + 1 .. Len(ns)
                 PROVE  ns[i] = ms[i + 1]
      OBVIOUS
    <3> DEFINE j == i - Len(a)
    <3>1. j \in 1 .. Len(c) - 1 /\ i = Len(a) + j /\ i + 1 = Len(a) + 1 + j
      BY <1>1, <2>1
    <3> HIDE DEF ms, ns, j
    <3>2. QED
      BY <1>3, <2>1, <3>1
  <2>3. \A i \in Len(a) + 1 .. Len(a) + 1 : ms[i].type \notin Facts
    BY <1>1, <1>2, <1>6
  <2>4. Tells(ns, mode, hand, tricks)
    <3>1. Tells(ms, mode, hand, tricks)
      OBVIOUS
    <3> HIDE DEF ms, ns
    <3>2. /\ 1 \in Nat /\ Len(ms) = Len(ns) + 1 /\ Len(a) <= Len(ns)
          /\ \A i \in 1 .. Len(a) : ns[i] = ms[i]
      BY <1>1, <1>2, <2>1
    <3>3. QED
      BY <1>1, <1>2, <2>1, <2>2, <2>3, <3>1, <3>2, TellsStill
  <2>5. QED
    BY <2>4
<1>7. QED
  BY <1>4, <1>5, <1>6

-----------------------------------------------------------------------------
(* What the handlers add to the streams.                                   *)

\* What one handler adds to the queues is chat.
ChatMailed == \E mail : Mailed(mail) /\ \A v \in Workers : Chat(mail[v])

\* Nothing at all is chat, and so is a message that tells nothing of the round.
LEMMA ChatAlone == Chat(<<>>) /\ \A m : m.type \notin Facts => Chat(<<m>>)
<1>1. ASSUME NEW m, m.type \notin Facts
      PROVE  Chat(<<m>>)
  BY <1>1 DEF Chat
<1>2. QED
  BY <1>1 DEF Chat

\* Kinds of messages that are chat.
LEMMA ChatKinds ==
    ASSUME NEW a, NEW b
    PROVE  /\ TrickMsg(a, b).type \notin Facts /\ WrongMsg(a).type \notin Facts
           /\ ScoreMsg(a).type \notin Facts /\ TotalMsg(a).type \notin Facts /\ BusyMsg(a).type \notin Facts
BY DEF TrickMsg, WrongMsg, ScoreMsg, TotalMsg, BusyMsg, Facts

\* Chat for one worker,
LEMMA SendChats ==
    ASSUME NEW w, NEW msgs \in Seq(Letter), Chat(msgs), NEW killed, sendTo(w, msgs, killed)
    PROVE  ChatMailed
<1>1. Mailed(Mail(w, msgs))
  BY SendMails
<1>2. \A v \in Workers : Mail(w, msgs)[v] \in {msgs, <<>>}
  BY DEF Mail, NoMail
<1>3. QED
  BY <1>1, <1>2, ChatAlone DEF ChatMailed

\* for one side,
LEMMA PostChats ==
    ASSUME NEW s, NEW msgs \in Seq(Letter), Chat(msgs), NEW killed, post(Post(s, msgs), killed)
    PROVE  ChatMailed
<1> DEFINE mail == ToWorkers(activeSides, Post(s, msgs))
<1>1. <<>> \in Seq(Letter)
  OBVIOUS
<1>2. Post(s, msgs) \in [Sides -> Seq(Letter)] /\ \A t \in Sides : Post(s, msgs)[t] \in {msgs, <<>>}
  BY <1>1 DEF Post, NoPost
<1>3. Mailed(mail)
  BY <1>2, PostMails
<1>4. \A v \in Workers : mail[v] \in {msgs, <<>>}
  BY <1>2 DEF ToWorkers
<1>5. QED
  BY <1>3, <1>4, ChatAlone DEF ChatMailed

\* kill orders alone,
LEMMA KillChats == ASSUME NEW killed, kill(killed) PROVE ChatMailed
<1>1. <<>> \in Seq(Letter)
  OBVIOUS
<1>2. QED
  BY <1>1, ChatAlone, SendChats DEF kill

\* or nothing.
LEMMA QuietChats == ASSUME Streams, UNCHANGED jobs PROVE ChatMailed
<1>1. NoMail \in [Workers -> Seq(Letter)] /\ \A v \in Workers : NoMail[v] = <<>>
  BY DEF NoMail
<1>2. \A u \in Workers : jobs[u] \o NoMail[u] = jobs[u]
  BY DEF Streams, NoMail
<1>3. jobs' = [u \in Workers |-> jobs[u]]
  BY DEF Streams
<1>4. Mailed(NoMail)
  BY <1>1, <1>2, <1>3 DEF Mailed
<1>5. QED
  BY <1>1, <1>4, ChatAlone DEF ChatMailed

\* A prompt is a letter and chat.
LEMMA PromptChats ==
    ASSUME GameTypeOK
    PROVE  /\ <<TrickMsg(table, trickNo)>> \in Seq(Letter) /\ Chat(<<TrickMsg(table, trickNo)>>)
           /\ <<WrongMsg(trickNo)>> \in Seq(Letter) /\ Chat(<<WrongMsg(trickNo)>>)
<1>1. table \in Seq(Card) /\ trickNo \in 1 .. TricksPerRound + 1
  BY DEF GameTypeOK
<1>2. TrickMsg(table, trickNo) \in Letter /\ WrongMsg(trickNo) \in Letter
  BY <1>1, LetterTrick, LetterWrong
<1>3. <<TrickMsg(table, trickNo)>> \in Seq(Letter) /\ <<WrongMsg(trickNo)>> \in Seq(Letter)
  BY <1>2
<1>4. QED
  BY <1>3, ChatKinds, ChatAlone

\* Messages of clients other than a legal card and an arrival bring chat,
LEMMA CallChats ==
    ASSUME Running, Streams, NEW w \in Workers, NEW m, NEW done \in BOOLEAN, callback(m, w, done)
    PROVE  \/ ChatMailed /\ UNCHANGED <<gameVars, seatVars, lastDeal>>
           \/ m.type = "TRICK" /\ ~Incomplete /\ acceptCard(m.card, w)
           \/ m.type = "IAM" /\ takeSide(m.side, w)
<1>1. CASE answerBusy(m.side, w)
  <2> DEFINE busy == BusyMsg({s \in Sides : activeSides[s] # NoWorker})
  <2>1. busy \in Letter /\ busy.type \notin Facts
    BY LetterBusy, ChatKinds
  <2>2. sendTo(w, <<busy>>, {}) /\ UNCHANGED <<gameVars, seatVars, lastDeal>>
    BY <1>1 DEF answerBusy
  <2> HIDE DEF busy
  <2>3. <<busy>> \in Seq(Letter) /\ Chat(<<busy>>)
    BY ONLY <2>1, ChatAlone
  <2>4. QED
    BY <2>2, <2>3, SendChats
<1>2. CASE dismissRepeat(w) \/ refuseStranger(w) \/ (handleWrongMessage(w, done) /\ done)
  BY <1>2, KillChats DEF dismissRepeat, refuseStranger, handleWrongMessage
<1>3. CASE rejectCard(m.trickNo, m.card, w)
  BY <1>3, PromptChats, PostChats DEF rejectCard, Running
<1>4. CASE UNCHANGED <<gameVars, serverVars, queueVars>>
  BY <1>4, QuietChats DEF queueVars, serverVars
<1>5. QED
  BY <1>1, <1>2, <1>3, <1>4 DEF callback, playerIntro, playerTricked, ignoreCard, handleWrongMessage

\* the exit of a thread brings nothing,
LEMMA ExitChats ==
    ASSUME Streams, NEW w \in Workers, NEW e, NEW work, NEW quit, grandExitCallback(w, e, work, quit)
    PROVE  ChatMailed /\ UNCHANGED <<gameVars, lastDeal>>
<1>1. ASSUME internalError \/ proxyLeaves(w, quit)
      PROVE  ChatMailed
  BY <1>1, KillChats DEF internalError, proxyLeaves
<1>2. ASSUME playerLeaves(w, work, quit) \/ zombieLeaves(w, work, quit) \/ strangerLeaves(w, quit) \/ goneAlready(w, quit)
      PROVE  ChatMailed
  BY <1>2, QuietChats DEF playerLeaves, zombieLeaves, strangerLeaves, goneAlready, sendNothing, queueVars
<1>3. ChatMailed
  BY <1>1, <1>2 DEF grandExitCallback
<1>4. QED
  BY <1>3 DEF grandExitCallback, internalError

\* and the timer a prompt.
LEMMA TimeoutChats ==
    ASSUME Running, Streams, NEW w \in Workers, handleTimeout(w)
    PROVE  ChatMailed
BY PromptChats, SendChats, KillChats, QuietChats DEF handleTimeout, sendNothing, queueVars, Running

-----------------------------------------------------------------------------
(* Every client stays informed.                                            *)

\* A stream is made of letters.
LEMMA StreamType == ASSUME Streams, NEW v \in Workers PROVE Stream(v) \in Seq(Letter)
<1>1. told[v] \in Seq(Letter) /\ pout[v] \in Seq(Letter) /\ jobs[v] \in Seq(Letter)
  BY DEF Streams
<1>2. QED
  BY <1>1, LettersJoin DEF Stream, Coming

\* What is added to the queue comes last.
LEMMA StreamGrows ==
    ASSUME Streams, NEW mail, Mailed(mail), UNCHANGED <<pout, told>>, NEW v \in Workers, v \in workers
    PROVE  Stream(v)' = Stream(v) \o mail[v]
<1>1. /\ told[v] \in Seq(Letter) /\ pout[v] \in Seq(Letter) /\ jobs[v] \in Seq(Letter) /\ mail[v] \in Seq(Letter)
      /\ jobs'[v] = jobs[v] \o mail[v]
  BY DEF Streams, Mailed
<1>2. Stream(v)' = told[v] \o (pout[v] \o (jobs[v] \o mail[v]))
  BY <1>1 DEF Stream, Coming
<1>3. jobs[v] \o mail[v] \in Seq(Letter) /\ pout[v] \o jobs[v] \in Seq(Letter)
  BY <1>1, LettersJoin
<1>4. pout[v] \o (jobs[v] \o mail[v]) = (pout[v] \o jobs[v]) \o mail[v]
  BY <1>1, Joined, ZenonT(60)
<1>5. told[v] \o ((pout[v] \o jobs[v]) \o mail[v]) = (told[v] \o (pout[v] \o jobs[v])) \o mail[v]
  BY <1>1, <1>3, Joined, ZenonT(60)
<1>6. Stream(v) = told[v] \o (pout[v] \o jobs[v])
  BY DEF Stream, Coming
<1>7. QED
  BY ONLY <1>2, <1>4, <1>5, <1>6

\* A handler that adds chat and gives nobody a seat leaves a client informed.
LEMMA MailInforms ==
    ASSUME Running, Streams, Gone, NEW v \in Workers, Informed(v), ChatMailed,
           UNCHANGED <<pout, told, lastDeal, roundMode, takenInRound>>,
           conn'[v] = "open" => conn[v] = "open",
           workerToSide'[v] \in {workerToSide[v], NoSide}
    PROVE  Informed(v)'
<1> SUFFICES ASSUME lastDeal # <<>>, conn[v] = "open", workerToSide[v] # NoSide, workerToSide'[v] = workerToSide[v]
             PROVE  Tells(Stream(v)', roundMode, lastDeal[workerToSide[v]], takenInRound)
  BY DEF Informed
<1>1. PICK mail : Mailed(mail) /\ \A u \in Workers : Chat(mail[u])
  BY DEF ChatMailed
<1>2. Stream(v)' = Stream(v) \o mail[v]
  BY <1>1, ServedIsThere, StreamGrows
<1>3. Stream(v) \in Seq(Letter) /\ mail[v] \in Seq(Letter) /\ Chat(mail[v])
  BY <1>1, StreamType DEF Mailed
<1>4. Tells(Stream(v), roundMode, lastDeal[workerToSide[v]], takenInRound)
  BY DEF Informed
<1>5. QED
  BY <1>2, <1>3, <1>4, TellsOn

\* Where the stream of a client stays what it is, or the connection ends, it
\* stays informed.
LEMMA SameInforms ==
    ASSUME NEW v \in Workers, Informed(v), UNCHANGED <<gameVars, lastDeal, workerToSide>>,
           conn'[v] = "open" => conn[v] = "open" /\ Stream(v)' = Stream(v)
    PROVE  Informed(v)'
BY DEF Informed, gameVars

\* What one client hears.
LEMMA SendInforms ==
    ASSUME Running, Streams, NEW w \in Workers, Informed(w), sendOne(w)
    PROVE  Informed(w)'
<1> SUFFICES ASSUME lastDeal # <<>>, conn[w] = "open", workerToSide[w] # NoSide
             PROVE  Tells(Stream(w)', roundMode, lastDeal[workerToSide[w]], takenInRound)
  BY DEF Informed, sendOne, sharedVars, serverVars, seatVars, gameVars
<1> DEFINE m == Head(pout[w])
           c == pout[w] \o jobs[w]
           hand == lastDeal[workerToSide[w]]
<1>1. /\ pout[w] \in Seq(Letter) /\ jobs[w] \in Seq(Letter) /\ told[w] \in Seq(Letter) /\ pout[w] # <<>>
      /\ w \in DOMAIN told /\ pout'[w] = Tail(pout[w]) /\ jobs'[w] = jobs[w]
  BY OwnStreams DEF sendOne, MaySend, Set, sharedVars, queueVars
<1>2. c \in Seq(Letter) /\ c # <<>> /\ Head(c) = m /\ Tail(c) = Tail(pout[w]) \o jobs[w] /\ m \in Letter
  BY <1>1, HeadTail
<1>3. Tells(told[w] \o c, roundMode, hand, takenInRound) /\ takenInRound \in Seq(Messages)
  BY DEF Informed, Stream, Coming, Running, GameTypeOK
<1>4. /\ Tells(Append(told[w], m) \o Tail(c), roundMode, hand, takenInRound)
      /\ m.type = "DEAL" => Tells(<<m>> \o Tail(c), roundMode, hand, takenInRound)
      /\ m.type \notin Facts => Tells(told[w] \o Tail(c), roundMode, hand, takenInRound)
  <2> HIDE DEF c, m
  <2>1. QED
    BY <1>1, <1>2, <1>3, TellsHeard
<1>5. Stream(w)' = told'[w] \o Tail(c)
  BY <1>1, <1>2 DEF Stream, Coming
<1>6. told'[w] = CASE m.type = "DEAL" -> <<m>>
                   [] m.type \in {"TAKEN", "SCORE", "TOTAL", "BUSY"} -> Append(told[w], m)
                   [] OTHER -> told[w]
  BY <1>1 DEF sendOne, Hear, Set
<1>7. \/ m.type = "DEAL" /\ told'[w] = <<m>>
      \/ told'[w] = Append(told[w], m)
      \/ m.type \notin Facts /\ told'[w] = told[w]
  BY ONLY <1>6 DEF Facts
<1>8. QED
  BY ONLY <1>4, <1>5, <1>7

\* The jobs become messages to send.
LEMMA DrainInforms ==
    ASSUME Running, Streams, NEW w \in Workers, Informed(w), takeJobs(w),
           UNCHANGED <<gameVars, lastDeal, workerToSide, conn, told>>
    PROVE  Informed(w)'
<1>1. /\ pout'[w] = pout[w] \o jobs[w] /\ jobs'[w] = <<>> /\ pout[w] \in Seq(Letter) /\ jobs[w] \in Seq(Letter)
  BY OwnStreams DEF takeJobs, Set
<1>2. pout'[w] \o jobs'[w] = pout[w] \o jobs[w]
  BY <1>1
<1>3. Stream(w)' = Stream(w)
  BY <1>2 DEF Stream, Coming
<1>4. QED
  BY <1>3, SameInforms

\* The loop of a thread tells its client what it has been given to tell.
LEMMA LoopInforms ==
    ASSUME Running, Streams, NEW w \in Workers, Informed(w),
           \/ wakeByPipe(w) \/ drain(w) \/ sendOne(w) \/ queueDone(w) \/ obeyKill(w) \/ closeConn(w)
           \/ fault(w)
    PROVE  Informed(w)'
<1> USE DEF sharedVars, serverVars, seatVars, queueVars, clientVars
<1>1. UNCHANGED <<gameVars, lastDeal, workerToSide>>
  BY DEF wakeByPipe, drain, sendOne, queueDone, obeyKill, closeConn, fault, pollFails, pipeFails, sendFails
<1>2. CASE drain(w) \/ obeyKill(w)
  BY <1>1, <1>2, DrainInforms DEF drain, obeyKill
<1>3. CASE sendOne(w)
  BY <1>3, SendInforms
<1>4. CASE closeConn(w) \/ pollFails(w) \/ sendFails(w)
  <2>1. conn'[w] # "open"
    BY <1>4, OwnStreams DEF closeConn, pollFails, sendFails, Set
  <2>2. QED
    BY <1>1, <2>1, SameInforms
<1>5. CASE wakeByPipe(w) \/ queueDone(w) \/ pipeFails(w)
  <2>1. UNCHANGED <<conn, told, pout, jobs>>
    BY <1>5 DEF wakeByPipe, queueDone, pipeFails
  <2>2. QED
    BY <1>1, <2>1, SameInforms DEF Stream, Coming
<1>6. QED
  BY <1>2, <1>3, <1>4, <1>5 DEF fault

\* The other clients do not notice.
LEMMA LoopElsewhere ==
    ASSUME Running, Streams, NEW w \in Workers, NEW v \in Workers \ {w}, Informed(v),
           \/ wakeByPipe(w) \/ drain(w) \/ sendOne(w) \/ queueDone(w) \/ obeyKill(w) \/ closeConn(w)
           \/ fault(w)
    PROVE  Informed(v)'
<1> USE DEF sharedVars, serverVars, seatVars, queueVars, clientVars
<1>1. UNCHANGED <<gameVars, lastDeal, workerToSide>>
  BY DEF wakeByPipe, drain, sendOne, queueDone, obeyKill, closeConn, fault, pollFails, pipeFails, sendFails
<1>2. /\ UNCHANGED conn \/ \E x : Set(conn, w, x)
      /\ UNCHANGED told \/ \E x : Set(told, w, x)
      /\ UNCHANGED pout \/ \E x : Set(pout, w, x)
      /\ UNCHANGED jobs \/ \E x : Set(jobs, w, x)
  BY DEF wakeByPipe, drain, sendOne, Hear, queueDone, obeyKill, takeJobs, closeConn, fault, pollFails, pipeFails, sendFails
<1>3. conn'[v] = conn[v] /\ told'[v] = told[v] /\ pout'[v] = pout[v] /\ jobs'[v] = jobs[v]
  BY <1>2, OwnStreams DEF Set
<1>4. Stream(v)' = Stream(v)
  BY <1>3 DEF Stream, Coming
<1>5. QED
  BY <1>1, <1>3, <1>4, SameInforms

-----------------------------------------------------------------------------
(* Cards and arrivals.                                                     *)

\* What the server tells after a card continues the story of the round, or
\* begins that of the next.
LEMMA CardTells ==
    ASSUME InStep, NEW w, NEW card, acceptCard(card, w), lastDeal # <<>>,
           NEW s \in Sides, NEW ms \in Seq(Letter), Tells(ms, roundMode, lastDeal[s], takenInRound)
    PROVE  Tells(ms \o AfterCard(s, card), roundMode', lastDeal'[s], takenInRound')
<1> DEFINE prompt == IF s = nextMove' THEN <<TrickMsg(table', trickNo')>> ELSE <<>>
           turn == TakenMsg(card)
           score == ScoreMsg(RoundScore(card))
           total == TotalMsg(NewTotals(card))
<1>1. card \in Card /\ GameTypeOK /\ GameTypeOK' /\ SenderSide(w) \in Sides
  BY AcceptTypes DEF InStep
<1>2. prompt \in Seq(Letter) /\ Chat(prompt)
  <2>1. table' \in Seq(Card) /\ trickNo' \in 1 .. TricksPerRound + 1
    BY <1>1 DEF GameTypeOK
  <2>2. TrickMsg(table', trickNo') \in Letter /\ TrickMsg(table', trickNo').type \notin Facts
    BY <2>1, LetterTrick, ChatKinds
  <2>3. <<TrickMsg(table', trickNo')>> \in Seq(Letter) /\ <<>> \in Seq(Letter)
    BY <2>2
  <2>4. Chat(<<TrickMsg(table', trickNo')>>) /\ Chat(<<>>)
    BY <2>2, ChatAlone
  <2>5. QED
    BY <2>3, <2>4
<1>3. takenInRound \in Seq(Messages)
  BY <1>1 DEF GameTypeOK
<1>4. lastDeal' = IF roundNumber' > roundNumber /\ ~GameOver' THEN hands' ELSE lastDeal
  BY DEF acceptCard
<1> DEFINE side == SenderSide(w)
<1>0. ~GameOver /\ card \in hands[side] /\ roundNumber \in Nat
  <2>1. Play(side, card) /\ card \in hands[side]
    BY <1>1 DEF acceptCard, Play, mayPlay, isMoveLegal, GameTypeOK
  <2>2. QED
    BY <1>1, <2>1, NobodyPlaysOn DEF GameTypeOK
<1> HIDE DEF side
<1>5. CASE addCard(side, card)
  <2>1. Len(table) + 1 < NSides /\ UNCHANGED <<roundNumber, roundMode, takenInRound>>
    BY <1>5 DEF addCard
  <2>2. ~(roundNumber' > roundNumber) /\ Len(table) + 1 # NSides
    BY <1>0, <1>1, <2>1, RulesAssumption DEF GameTypeOK
  <2>3. AfterCard(s, card) = prompt /\ lastDeal' = lastDeal
    BY ONLY <1>4, <2>1, <2>2 DEF AfterCard
  <2>4. QED
    BY <1>2, <2>1, <2>3, TellsOn
<1>6. ASSUME Len(table) + 1 = NSides
      PROVE  /\ turn \in Messages /\ turn.type = "TAKEN"
             /\ <<turn>> \in Seq(Letter) /\ ms \o <<turn>> \in Seq(Letter)
             /\ Tells(ms \o <<turn>>, roundMode, lastDeal[s], Append(takenInRound, turn))
             /\ <<score, total>> \in Seq(Letter) /\ Chat(<<score, total>>)
             /\ LastTold(card) = <<turn>> \o <<score, total>>
  <2>1. turn \in Messages /\ turn.type = "TAKEN" /\ RoundScore(card) \in [Sides -> Nat] /\ NewTotals(card) \in [Sides -> Nat]
    BY <1>1, <1>6, TakeType DEF Messages
  <2>2. turn \in Letter /\ score \in Letter /\ total \in Letter
    BY <2>1, LetterTaken, LetterScore
  <2>3. <<turn>> \in Seq(Letter) /\ ms \o <<turn>> \in Seq(Letter) /\ <<score, total>> \in Seq(Letter)
    BY <2>2
  <2>4. Chat(<<score, total>>)
    <3>1. score.type \notin Facts /\ total.type \notin Facts
      BY ChatKinds
    <3> HIDE DEF score, total
    <3>2. QED
      BY <3>1 DEF Chat
  <2>5. Tells(ms \o <<turn>>, roundMode, lastDeal[s], Append(takenInRound, turn))
    BY <1>3, <2>1, <2>2, TellsTrick
  <2>6. LastTold(card) = <<turn>> \o <<score, total>>
    BY DEF LastTold
  <2>7. QED
    BY <2>1, <2>3, <2>4, <2>5, <2>6
<1>7. CASE closeTrick(side, card)
  <2>1. /\ Len(table) + 1 = NSides /\ UNCHANGED <<roundNumber, roundMode>>
        /\ takenInRound' = Append(takenInRound, turn) /\ ~GameOver'
    BY <1>0, <1>7 DEF closeTrick, GameOver
  <2>2. ~(roundNumber' > roundNumber) /\ ~(Len(table) + 1 < NSides)
    BY <1>0, <2>1, RulesAssumption
  <2>3. AfterCard(s, card) = <<turn>> \o prompt /\ lastDeal' = lastDeal
    BY ONLY <1>4, <2>1, <2>2 DEF AfterCard
  <2>4. ms \o (<<turn>> \o prompt) = (ms \o <<turn>>) \o prompt
    <3> HIDE DEF prompt, turn
    <3>1. QED
      BY <1>2, <1>6, <2>1, Joined
  <2>5. Tells((ms \o <<turn>>) \o prompt, roundMode, lastDeal[s], Append(takenInRound, turn))
    <3> HIDE DEF prompt, turn
    <3>1. QED
      BY <1>2, <1>6, <2>1, TellsOn
  <2>6. QED
    BY <2>1, <2>3, <2>4, <2>5
<1>8. CASE closeGame(side, card)
  <2>1. /\ Len(table) + 1 = NSides /\ UNCHANGED roundMode
        /\ takenInRound' = Append(takenInRound, turn) /\ GameOver'
    BY <1>8 DEF closeGame, settleRound, GameOver
  <2>2. ~(Len(table) + 1 < NSides)
    BY <2>1, RulesAssumption
  <2>3. AfterCard(s, card) = LastTold(card) /\ lastDeal' = lastDeal
    BY ONLY <1>4, <2>1, <2>2 DEF AfterCard
  <2>4. ms \o (<<turn>> \o <<score, total>>) = (ms \o <<turn>>) \o <<score, total>>
    <3> HIDE DEF score, total, turn
    <3>1. QED
      BY <1>6, <2>1, Joined
  <2>5. Tells((ms \o <<turn>>) \o <<score, total>>, roundMode, lastDeal[s], Append(takenInRound, turn))
    <3> HIDE DEF score, total, turn
    <3>1. QED
      BY <1>6, <2>1, TellsOn
  <2>6. QED
    BY <1>6, <2>1, <2>3, <2>4, <2>5
<1>9. CASE closeRound(side, card)
  <2> DEFINE deal == DealMsg(roundMode', nextMove', hands'[s])
  <2>1. /\ Len(table) + 1 = NSides /\ roundNumber' = roundNumber + 1 /\ takenInRound' = <<>> /\ ~GameOver'
    <3>1. roundNumber' = roundNumber + 1 /\ roundNumber + 1 < Len(Scenario)
      BY <1>9 DEF closeRound, settleRound
    <3>2. QED
      BY <1>9, <3>1, ScenarioLength DEF closeRound, prepareRound, GameOver
  <2>2. ~(Len(table) + 1 < NSides) /\ roundNumber' > roundNumber
    BY <1>0, <2>1, RulesAssumption
  <2>3. AfterCard(s, card) = NewRound(s, card) \o prompt /\ lastDeal' = hands'
    BY ONLY <1>4, <2>1, <2>2 DEF AfterCard
  <2>4. deal \in Letter /\ deal.type = "DEAL" /\ deal.mode = roundMode' /\ deal.cards = hands'[s]
    BY <1>1, LetterDeal DEF GameTypeOK, DealMsg
  <2>5. NewRound(s, card) = LastTold(card) \o <<deal>> /\ LastTold(card) \in Seq(Letter) /\ <<deal>> \in Seq(Letter)
    <3>1. <<turn>> \o <<score, total>> \in Seq(Letter)
      <4> HIDE DEF turn, score, total
      <4>1. QED
        BY <1>6, <2>1, LettersJoin
    <3>2. NewRound(s, card) = LastTold(card) \o <<deal>>
      BY DEF NewRound
    <3> HIDE DEF deal
    <3>3. <<deal>> \in Seq(Letter)
      BY <2>4
    <3>4. QED
      BY <1>6, <2>1, <3>1, <3>2, <3>3
  <2>6. QED
    <3> DEFINE last == LastTold(card)
    <3>1. <<>> \in Seq(Messages) /\ <<deal>> \o <<>> = <<deal>>
      OBVIOUS
    <3> HIDE DEF deal, last, prompt
    <3>2. ms \o last \in Seq(Letter)
      BY <2>5, LettersJoin DEF last
    <3>3. Tells((ms \o last) \o (<<deal>> \o <<>>), deal.mode, deal.cards, <<>>)
      BY <2>4, <3>1, <3>2, TellsAll
    <3>4. (ms \o last) \o <<deal>> \in Seq(Letter)
      BY <2>5, <3>2, LettersJoin
    <3>5. Tells(((ms \o last) \o <<deal>>) \o prompt, deal.mode, deal.cards, <<>>)
      BY <1>2, <3>1, <3>3, <3>4, TellsOn
    <3>6. ((ms \o last) \o <<deal>>) \o prompt = ms \o ((last \o <<deal>>) \o prompt)
      <4>1. (ms \o last) \o <<deal>> = ms \o (last \o <<deal>>) /\ last \o <<deal>> \in Seq(Letter)
        BY <2>5, Joined, LettersJoin DEF last
      <4>2. (ms \o (last \o <<deal>>)) \o prompt = ms \o ((last \o <<deal>>) \o prompt)
        BY <1>2, <4>1, Joined
      <4>3. QED
        BY ONLY <4>1, <4>2
    <3>7. QED
      BY ONLY <2>1, <2>3, <2>4, <2>5, <3>5, <3>6 DEF last
<1>10. QED
  BY <1>5, <1>7, <1>8, <1>9 DEF acceptCard, Play, playCard, side

\* Every client at the table hears of the card.
LEMMA CardInforms ==
    ASSUME Running, InStep, Streams, Gone, NEW w \in Workers, NEW card, acceptCard(card, w), lastDeal # <<>>,
           UNCHANGED <<pout, told>>, NEW v \in Workers, Informed(v), conn'[v] = "open" => conn[v] = "open"
    PROVE  Informed(v)'
<1> DEFINE s == workerToSide[v]
           f == [t \in Sides |-> AfterCard(t, card)]
           mail == ToWorkers(activeSides, f)
<1>1. UNCHANGED seatVars
  BY DEF acceptCard
<1> SUFFICES ASSUME conn[v] = "open", s # NoSide
             PROVE  Tells(Stream(v)', roundMode', lastDeal'[s], takenInRound')
  BY <1>1 DEF Informed, seatVars
<1>2. s \in Sides /\ activeSides[s] = v /\ \A t \in Sides : activeSides[t] = v => t = s
  BY DEF Running, SeatTypes, Seats, Maybe
<1>3. f \in [Sides -> Seq(Letter)]
  BY AfterCardType DEF Running
<1>4. Mailed(mail)
  BY <1>3, PostMails DEF acceptCard
<1>5. mail[v] = AfterCard(s, card)
  <2>1. mail[v] = f[s]
    BY <1>2, ToWorkersAt
  <2>2. QED
    BY <1>2, <2>1
<1>6. Stream(v)' = Stream(v) \o AfterCard(s, card)
  BY <1>4, <1>5, ServedIsThere, StreamGrows
<1>7. Stream(v) \in Seq(Letter) /\ Tells(Stream(v), roundMode, lastDeal[s], takenInRound)
  BY StreamType DEF Informed
<1>8. GameTypeOK
  BY DEF Running
<1>9. QED
  BY <1>2, <1>6, <1>7, <1>8, CardTells

\* An arrival is told the round, all sides are when the game starts, and the
\* others at most hear a prompt.
LEMMA ArrivalTells ==
    ASSUME Running, Laid, NEW side \in Sides, NEW w, takeSide(side, w), lastDeal' # <<>>, NEW s \in Sides, NEW ms \in Seq(Letter),
           s = side \/ Starts \/ Tells(ms, roundMode, lastDeal[s], takenInRound)
    PROVE  Tells(ms \o IntroPost(side)[s], roundMode, lastDeal'[s], takenInRound)
<1> DEFINE start == DealMsg(roundMode, nextMove, hands[s])
           again == DealMsg(roundMode, nextMove, lastDeal[s])
           prompt == PromptNow(s)
<1>1. GameTypeOK /\ FlagTypes /\ takenInRound \in Seq(Messages)
  BY DEF Running, GameTypeOK
<1>2. prompt \in Seq(Letter) /\ Chat(prompt) /\ <<>> \in Seq(Letter) /\ Chat(<<>>)
  <2>1. <<>> \in Seq(Letter) /\ Chat(<<>>)
    BY ChatAlone
  <2>2. QED
    BY <1>1, <2>1, PromptChats DEF PromptNow
<1>3. ASSUME NEW m \in Letter, m.type = "DEAL", NEW p \in Seq(Letter), Chat(p)
      PROVE  Tells(ms \o ((<<m>> \o takenInRound) \o p), m.mode, m.cards, takenInRound)
  <2>1. takenInRound \in Seq(Letter)
    BY <1>1, LetterTaken
  <2>2. <<m>> \o takenInRound \in Seq(Letter)
    BY <2>1
  <2>3. Tells(ms \o (<<m>> \o takenInRound), m.mode, m.cards, takenInRound)
    BY <1>1, <1>3, TellsAll
  <2> DEFINE story == <<m>> \o takenInRound
  <2> HIDE DEF story
  <2>4. story \in Seq(Letter) /\ Tells(ms \o story, m.mode, m.cards, takenInRound)
    BY <2>2, <2>3 DEF story
  <2>5. ms \o story \in Seq(Letter)
    BY <2>4, LettersJoin
  <2>6. Tells((ms \o story) \o p, m.mode, m.cards, takenInRound)
    BY <1>3, <2>4, <2>5, TellsOn
  <2>7. ms \o (story \o p) = (ms \o story) \o p
    BY <1>3, <2>4, Joined
  <2>8. QED
    BY ONLY <2>6, <2>7 DEF story
<1>4. CASE Starts
  <2>1. takenInRound = <<>> /\ lastDeal' = hands
    BY <1>4 DEF Laid, Starts, takeSide
  <2>2. IntroPost(side)[s] = <<start>> \o prompt
    BY <1>4 DEF IntroPost
  <2>3. start \in Letter /\ start.type = "DEAL" /\ start.mode = roundMode /\ start.cards = hands[s]
    BY <1>1, LetterDeal DEF GameTypeOK, DealMsg
  <2>4. <<start>> \o takenInRound = <<start>>
    BY <2>1
  <2> HIDE DEF start, prompt
  <2>5. Tells(ms \o ((<<start>> \o takenInRound) \o prompt), start.mode, start.cards, takenInRound)
    BY <1>2, <1>3, <2>3
  <2>6. QED
    BY ONLY <2>1, <2>2, <2>3, <2>4, <2>5
<1>5. CASE ~Starts
  <2>1. lastDeal' = lastDeal /\ lastDeal # <<>>
    BY <1>5 DEF takeSide
  <2> DEFINE p == IF Resumes THEN prompt ELSE <<>>
  <2>2. p \in Seq(Letter) /\ Chat(p)
    BY <1>2
  <2>3. CASE s = side
    <3>1. IntroPost(side)[s] = (<<again>> \o takenInRound) \o p
      BY <1>5, <2>1, <2>3 DEF IntroPost, Story
    <3>2. again \in Letter /\ again.type = "DEAL" /\ again.mode = roundMode /\ again.cards = lastDeal[s]
      BY <1>1, <2>1, LetterDeal DEF GameTypeOK, FlagTypes, DealMsg
    <3> HIDE DEF again, p
    <3>3. Tells(ms \o ((<<again>> \o takenInRound) \o p), again.mode, again.cards, takenInRound)
      BY <1>3, <2>2, <3>2
    <3>4. QED
      BY ONLY <2>1, <3>1, <3>2, <3>3
  <2>4. CASE s # side
    <3>1. IntroPost(side)[s] = <<>> \o p
      BY <1>5, <2>1, <2>4 DEF IntroPost
    <3>2. Tells(ms, roundMode, lastDeal[s], takenInRound)
      BY <1>5, <2>4
    <3> HIDE DEF p
    <3>3. IntroPost(side)[s] = p
      BY <2>2, <3>1
    <3>4. Tells(ms \o p, roundMode, lastDeal[s], takenInRound)
      BY <2>2, <3>2, TellsOn
    <3>5. QED
      BY ONLY <2>1, <3>3, <3>4
  <2>5. QED
    BY <2>3, <2>4
<1>6. QED
  BY <1>4, <1>5

\* So every client is informed after an arrival.
LEMMA ArrivalInforms ==
    ASSUME Running, Streams, Gone, Gone', Running', Laid, NEW w \in Workers, NEW side \in Sides, takeSide(side, w),
           UNCHANGED <<pout, told>>, NEW v \in Workers, Informed(v), conn'[v] = "open" => conn[v] = "open"
    PROVE  Informed(v)'
<1> DEFINE s == workerToSide'[v]
           mail == ToWorkers(activeSides', IntroPost(side))
<1> SUFFICES ASSUME conn'[v] = "open", s # NoSide, lastDeal' # <<>>
             PROVE  Tells(Stream(v)', roundMode', lastDeal'[s], takenInRound')
  BY DEF Informed
<1>1. UNCHANGED <<gameVars, workers>>
  BY DEF takeSide
<1>2. s \in Sides /\ activeSides'[s] = v /\ \A t \in Sides : activeSides'[t] = v => t = s
  BY DEF Running, SeatTypes, Seats, Maybe
<1>3. GameTypeOK /\ FlagTypes
  BY DEF Running
<1>4. Mailed(mail)
  <2>1. mail \in [Workers -> Seq(Letter)]
    BY <1>3, IntroPostType, ToWorkersType DEF FlagTypes
  <2>2. QED
    BY <2>1, DeliverMails DEF takeSide
<1>5. mail[v] = IntroPost(side)[s]
  BY <1>2, ToWorkersAt
<1>6. v \in workers
  BY <1>1 DEF Running, Threads, Seats, Gone
<1>7. Stream(v)' = Stream(v) \o IntroPost(side)[s]
  BY <1>4, <1>5, <1>6, StreamGrows
<1>8. Stream(v) \in Seq(Letter)
  BY StreamType
<1>9. s = side \/ Starts \/ Tells(Stream(v), roundMode, lastDeal[s], takenInRound)
  <2> SUFFICES ASSUME s # side, ~Starts
               PROVE  Tells(Stream(v), roundMode, lastDeal[s], takenInRound)
    OBVIOUS
  <2>1. lastDeal # <<>>
    BY DEF takeSide
  <2>2. workerToSide[v] = s
    BY <1>2 DEF takeSide, Running, SeatTypes
  <2>3. QED
    BY <2>1, <2>2 DEF Informed
<1>10. Tells(Stream(v) \o IntroPost(side)[s], roundMode, lastDeal'[s], takenInRound)
  BY <1>2, <1>8, <1>9, ArrivalTells
<1>11. QED
  BY <1>1, <1>7, <1>10 DEF gameVars

-----------------------------------------------------------------------------
(* Every step.                                                             *)

\* A message of a client, new or pending.
LEMMA MessageInforms ==
    ASSUME Running, Running', InStep, Streams, Gone, Gone', Laid, EveryoneInformed, NEW w \in Workers, conn[w] = "open",
           NEW m, m.type = "IAM" => m.side \in Sides, process(w, m), UNCHANGED <<pout, told>>
    PROVE  Laid' /\ EveryoneInformed'
<1>1. PICK done \in BOOLEAN : callback(m, w, done) /\ Set(conn, w, IF done /\ m.type = "BAD" THEN "quit" ELSE conn[w])
  BY DEF process
<1>2. \A v \in Workers : conn'[v] = "open" => conn[v] = "open"
  BY <1>1, OwnStreams DEF Set
<1>3. CASE m.type = "IAM" /\ takeSide(m.side, w)
  <2>1. m.side \in Sides
    BY <1>3
  <2>2. Laid'
    BY <1>3, CountType, ArrivalLays DEF Running
  <2>3. ASSUME NEW v \in Workers
        PROVE  Informed(v)'
    BY <1>2, <1>3, <2>1, ArrivalInforms DEF EveryoneInformed
  <2>4. QED
    BY <2>2, <2>3 DEF EveryoneInformed
<1>4. CASE m.type = "TRICK" /\ ~Incomplete /\ acceptCard(m.card, w)
  <2>1. lastDeal # <<>>
    BY <1>4 DEF Laid
  <2>2. Laid'
    BY <1>4, <2>1, CardLays
  <2>3. ASSUME NEW v \in Workers
        PROVE  Informed(v)'
    BY <1>2, <1>4, <2>1, CardInforms DEF EveryoneInformed
  <2>4. QED
    BY <2>2, <2>3 DEF EveryoneInformed
<1>5. CASE ChatMailed /\ UNCHANGED <<gameVars, seatVars, lastDeal>>
  <2>1. Laid'
    BY <1>5, LaidStays DEF Incomplete, seatVars
  <2>2. ASSUME NEW v \in Workers
        PROVE  Informed(v)'
    BY <1>2, <1>5, MailInforms DEF EveryoneInformed, seatVars, gameVars
  <2>3. QED
    BY <2>1, <2>2 DEF EveryoneInformed
<1>6. QED
  BY <1>1, <1>3, <1>4, <1>5, CallChats

\* A thread that leaves takes a seat from itself only.
LEMMA ExitInforms ==
    ASSUME Running, Streams, Gone, Laid, EveryoneInformed, NEW w \in Workers,
           overflow(w) \/ askExit(w) \/ final(w), UNCHANGED pout
    PROVE  Laid' /\ EveryoneInformed'
<1>1. PICK work, quit : grandExitCallback(w, err[w], work, quit)
  BY DEF overflow, askExit, final
<1>2. ChatMailed /\ UNCHANGED <<gameVars, lastDeal>>
  BY <1>1, ExitChats
<1>3. UNCHANGED told /\ \A v \in Workers : conn'[v] = "open" => conn[v] = "open"
  BY OwnStreams DEF overflow, askExit, final, clientVars, Set
<1>4. /\ playersConnected' \in {playersConnected, playersConnected - 1}
      /\ \A v \in Workers : workerToSide'[v] \in {workerToSide[v], NoSide}
  <2>1. CASE playerLeaves(w, work, quit)
    BY <2>1 DEF playerLeaves, freeSeat, Running, SeatTypes
  <2>2. CASE ~playerLeaves(w, work, quit)
    BY <1>1, <2>2 DEF grandExitCallback, internalError, zombieLeaves, strangerLeaves, proxyLeaves, goneAlready, seatVars
  <2>3. QED
    BY <2>1, <2>2
<1>5. Incomplete => Incomplete'
  BY <1>4, CountType DEF Incomplete
<1>6. Laid'
  BY <1>2, <1>5, LaidStays
<1>7. ASSUME NEW v \in Workers
      PROVE  Informed(v)'
  BY <1>2, <1>3, <1>4, MailInforms DEF EveryoneInformed, gameVars
<1>8. QED
  BY <1>6, <1>7 DEF EveryoneInformed

\* A timer prompts at most.
LEMMA TimerInforms ==
    ASSUME Running, Streams, Gone, Laid, EveryoneInformed, NEW w \in Workers, timeOut(w) \/ arm(w)
    PROVE  Laid' /\ EveryoneInformed'
<1> USE DEF sharedVars, serverVars, seatVars, queueVars, clientVars
<1>1. UNCHANGED <<gameVars, lastDeal, playersConnected, workerToSide, pout, told, conn>>
  BY DEF timeOut, arm, handleTimeout
<1>2. ChatMailed
  BY TimeoutChats, QuietChats DEF timeOut, arm
<1>3. Laid'
  BY <1>1, LaidStays DEF Incomplete
<1>4. ASSUME NEW v \in Workers
      PROVE  Informed(v)'
  BY <1>1, <1>2, MailInforms DEF EveryoneInformed, gameVars
<1>5. QED
  BY <1>3, <1>4 DEF EveryoneInformed

\* A socket without a message tells nobody anything.
LEMMA SilentInforms ==
    ASSUME Running, Streams, Laid, EveryoneInformed, NEW w \in Workers,
           noAction(w) \/ hangup(w) \/ acceptAction(w), UNCHANGED pout
    PROVE  Laid' /\ EveryoneInformed'
<1> USE DEF sharedVars, serverVars, seatVars, queueVars, clientVars
<1>1. UNCHANGED <<gameVars, lastDeal, playersConnected, workerToSide, jobs, told>>
  BY DEF noAction, hangup, acceptAction, forwardConnection
<1>2. \A v \in Workers : conn'[v] = "open" => conn[v] = "open"
  BY OwnStreams DEF noAction, hangup, acceptAction, Set
<1>3. Laid'
  BY <1>1, LaidStays DEF Incomplete
<1>4. ASSUME NEW v \in Workers
      PROVE  Informed(v)'
  <2>1. Stream(v)' = Stream(v)
    BY <1>1 DEF Stream, Coming
  <2>2. QED
    BY <1>1, <1>2, <2>1, SameInforms DEF EveryoneInformed
<1>5. QED
  BY <1>3, <1>4 DEF EveryoneInformed

\* What the socket has.
LEMMA SocketInforms ==
    ASSUME Running, Running', InStep, Streams, Gone, Gone', Laid, EveryoneInformed, NEW w \in Workers,
           conn[w] = "open", socketReady(w), UNCHANGED pout
    PROVE  Laid' /\ EveryoneInformed'
<1>1. CASE w # Proxy /\ receive(w)
  <2>1. PICK m \in Says(w) : Speak(w, m) /\ process(w, m)
    BY <1>1 DEF receive
  <2>2. m.type = "IAM" => m.side \in Sides
    BY <1>1, SaidSide
  <2>3. UNCHANGED told
    BY <2>1 DEF Speak
  <2>4. QED
    BY <2>1, <2>2, <2>3, MessageInforms
<1>2. CASE acceptAction(w) \/ partOfMessage(w) \/ hangup(w)
  BY <1>2, SilentInforms DEF partOfMessage
<1>3. CASE overflow(w)
  BY <1>3, ExitInforms
<1>4. QED
  BY <1>1, <1>2, <1>3 DEF socketReady

\* Whatever a thread does, a client or a fault makes it do.
LEMMA ThreadInforms ==
    ASSUME Running, Running', Awake, InStep, Streams, Gone, Gone', Laid, EveryoneInformed, NEW w \in Workers,
           threadStep(w) \/ outside(w) \/ fault(w)
    PROVE  Laid' /\ EveryoneInformed'
<1>1. CASE lookAtSocket(w)
  <2>1. UNCHANGED pout
    BY <1>1 DEF lookAtSocket
  <2>2. CASE noAction(w)
    BY <2>1, <2>2, SilentInforms
  <2>3. CASE conn[w] = "open" /\ process(w, pin[w]) /\ UNCHANGED clientVars
    <3>1. pin[w].type = "IAM" => pin[w].side \in Sides
      BY DEF Running, Inputs
    <3>2. PICK m : m = pin[w]
      OBVIOUS
    <3>3. process(w, m)
      BY <2>3, <3>2 DEF process
    <3>4. QED
      BY <2>1, <2>3, <3>1, <3>2, <3>3, MessageInforms DEF clientVars
  <2>4. CASE conn[w] = "open" /\ socketReady(w)
    BY <2>1, <2>4, SocketInforms
  <2>5. QED
    BY <1>1, <2>2, <2>3, <2>4 DEF lookAtSocket
<1>2. CASE wakeBySocket(w)
  <2>1. conn[w] = "open"
    BY <1>2 DEF wakeBySocket, PolledFd, Socket, Awake, Wakeful, Obeying, Running, LoopTypes
  <2>2. QED
    BY <1>2, <2>1, SocketInforms DEF wakeBySocket
<1>3. CASE wakeByStdout(w)
  BY <1>3, SilentInforms DEF wakeByStdout
<1>4. CASE \/ wakeByPipe(w) \/ drain(w) \/ sendOne(w) \/ queueDone(w) \/ obeyKill(w) \/ closeConn(w)
           \/ fault(w)
  <2>1. UNCHANGED <<gameVars, lastDeal, playersConnected>>
    BY <1>4 DEF wakeByPipe, drain, sendOne, queueDone, obeyKill, closeConn, fault, pollFails, pipeFails, sendFails,
                sharedVars, serverVars, seatVars
  <2>2. Laid'
    BY <2>1, LaidStays DEF Incomplete
  <2>3. ASSUME NEW v \in Workers
        PROVE  Informed(v)'
    BY <1>4, LoopInforms, LoopElsewhere DEF EveryoneInformed
  <2>4. QED
    BY <2>2, <2>3 DEF EveryoneInformed
<1>5. CASE timeOut(w) \/ arm(w)
  BY <1>5, TimerInforms
<1>6. CASE askExit(w) \/ final(w)
  BY <1>6, ExitInforms DEF askExit, final
<1>7. QED
  BY <1>1, <1>2, <1>3, <1>4, <1>5, <1>6 DEF threadStep, outside

\* The cleaner takes the queues of workers without a connection.
LEMMA CleanerInforms ==
    ASSUME Running, Gone, Laid, EveryoneInformed, cleanerTakes \/ cleanerJoins
    PROVE  Laid' /\ EveryoneInformed'
<1>1. UNCHANGED <<gameVars, serverVars, threadVars, clientVars>>
  BY DEF cleanerTakes, cleanerJoins
<1>2. \A v \in Workers : conn[v] = "open" => jobs'[v] = jobs[v]
  <2>1. \A v \in joining : v \in Workers => conn[v] # "open"
    BY DEF Running, Threads, Gone
  <2>2. QED
    BY <2>1 DEF cleanerTakes, takeFinished, cleanerJoins, joinFinished, queueVars
<1>3. Laid'
  BY <1>1, LaidStays DEF Incomplete, serverVars, seatVars
<1>4. ASSUME NEW v \in Workers
      PROVE  Informed(v)'
  <2>1. conn'[v] = "open" => conn[v] = "open" /\ Stream(v)' = Stream(v)
    BY <1>1, <1>2 DEF Stream, Coming, threadVars, clientVars
  <2>2. QED
    BY <1>1, <2>1, SameInforms DEF EveryoneInformed, serverVars, seatVars
<1>5. QED
  BY <1>3, <1>4 DEF EveryoneInformed

\* At the start nobody has a seat and nothing is dealt.
LEMMA InitInforms == Init => Laid /\ EveryoneInformed
<1> SUFFICES ASSUME Init
             PROVE  Laid /\ EveryoneInformed
  OBVIOUS
<1>1. lastDeal = <<>> /\ playersConnected = 0 /\ GameInit
  BY DEF Init, ServerInit
<1>2. QED
  BY <1>1, RulesAssumption DEF Laid, Incomplete, GameInit, EveryoneInformed, Informed

\* With the rest it is inductive.
LEMMA StepInforms ==
    Running /\ Running' /\ Awake /\ InStep /\ Streams /\ Gone /\ Gone' /\ Laid /\ EveryoneInformed /\ [Next]_vars
      => Laid' /\ EveryoneInformed'
<1> SUFFICES ASSUME Running, Running', Awake, InStep, Streams, Gone, Gone', Laid, EveryoneInformed, [Next]_vars
             PROVE  Laid' /\ EveryoneInformed'
  OBVIOUS
<1>1. CASE UNCHANGED vars
  <2>1. UNCHANGED <<gameVars, lastDeal, playersConnected, workerToSide, conn, told, pout, jobs>>
    BY <1>1 DEF vars, sharedVars, serverVars, seatVars, queueVars, threadVars, clientVars
  <2>2. Laid'
    BY <2>1, LaidStays DEF Incomplete
  <2>3. ASSUME NEW v \in Workers
        PROVE  Informed(v)'
    BY <2>1, SameInforms DEF EveryoneInformed, Stream, Coming
  <2>4. QED
    BY <2>2, <2>3 DEF EveryoneInformed
<1>2. QED
  BY <1>1, ThreadInforms, CleanerInforms DEF Next

\* In every state the hand kept is that of the round, and everyone at the
\* table is informed.
THEOREM ServerInforms == Spec => [](Laid /\ EveryoneInformed)
<1> DEFINE Known == Running /\ Awake /\ Streams /\ Gone /\ Prompted
           Learnt == Laid /\ EveryoneInformed
<1>1. Spec => []Known
  BY ServerPrompts
<1>2. Spec => []InStep
  BY ServerPlaysGame, StaysInStep, PTL
<1>3. Init => Learnt
  BY InitInforms
<1>4. Known /\ Known' /\ InStep /\ Learnt /\ [Next]_vars => Learnt'
  BY StepInforms
<1>5. Spec => []Learnt
  <2> HIDE DEF Known, Learnt
  <2>1. QED
    BY <1>1, <1>2, <1>3, <1>4, PTL DEF Spec
<1>6. QED
  BY <1>5

\* Whoever sits at the table, has been there or has come back, with whatever
\* was lost, repeated or said out of turn: what its client was told, what is
\* on its way and what is queued is its hand and every trick of the round, in
\* order, and no other.
THEOREM StreamsTellRound == Spec => []StreamTellsRound
<1>1. Running /\ Laid /\ EveryoneInformed => StreamTellsRound
  <2> SUFFICES ASSUME Running, Laid, EveryoneInformed, lastDeal # <<>>,
                      NEW s \in Sides, activeSides[s] # NoWorker, conn[activeSides[s]] = "open"
               PROVE  Tells(Stream(activeSides[s]), roundMode, Deal.hands[s], takenInRound)
    BY DEF StreamTellsRound
  <2> DEFINE w == activeSides[s]
  <2>1. w \in Workers /\ workerToSide[w] = s /\ s # NoSide
    BY NobodyThere DEF Running, SeatTypes, Seats, Maybe
  <2>2. Informed(w)
    BY <2>1 DEF EveryoneInformed
  <2>3. lastDeal = Deal.hands
    BY DEF Laid
  <2>4. QED
    BY <2>1, <2>2, <2>3 DEF Informed
<1>2. QED
  BY <1>1, ServerRuns, ServerInforms, PTL

-----------------------------------------------------------------------------
(* The end of the game.                                                    *)

\* What a client need not hear: the prompts are not for its table.
Asking == {"TRICK", "WRONG"}
Useful == {"DEAL", "TAKEN", "SCORE", "TOTAL"}
Only(ms, kinds) == \A i \in DOMAIN ms : ms[i].type \in kinds

\* The last thing said, prompts aside.
Closing(ms, last) ==
    \E i \in DOMAIN ms : ms[i] = last /\ \A k \in i + 1 .. Len(ms) : ms[k].type \in Asking

\* Messages are of some kinds if all their parts are,
LEMMA OnlyJoin ==
    ASSUME NEW kinds, NEW a \in Seq(Letter), NEW b \in Seq(Letter)
    PROVE  Only(a \o b, kinds) <=> Only(a, kinds) /\ Only(b, kinds)
<1>1. /\ Len(a) \in Nat /\ Len(b) \in Nat /\ Len(a \o b) = Len(a) + Len(b)
      /\ DOMAIN a = 1 .. Len(a) /\ DOMAIN b = 1 .. Len(b) /\ DOMAIN (a \o b) = 1 .. Len(a \o b)
  OBVIOUS
<1>2. /\ \A i \in DOMAIN a : (a \o b)[i] = a[i]
      /\ \A i \in DOMAIN b : (a \o b)[Len(a) + i] = b[i]
  OBVIOUS
<1>3. \A i \in DOMAIN (a \o b) : i \in DOMAIN a \/ i - Len(a) \in DOMAIN b
  BY <1>1
<1>4. ASSUME Only(a, kinds), Only(b, kinds), NEW i \in DOMAIN (a \o b)
      PROVE  (a \o b)[i].type \in kinds
  <2>1. CASE i \in DOMAIN a
    BY <1>2, <1>4, <2>1 DEF Only
  <2>2. CASE i - Len(a) \in DOMAIN b
    <3>1. (a \o b)[Len(a) + (i - Len(a))] = b[i - Len(a)]
      BY <1>2, <2>2
    <3>2. Len(a) + (i - Len(a)) = i
      BY <1>1
    <3>3. QED
      BY <1>4, <2>2, <3>1, <3>2 DEF Only
  <2>3. QED
    BY <1>3, <1>4, <2>1, <2>2
<1>5. ASSUME Only(a \o b, kinds)
      PROVE  Only(a, kinds) /\ Only(b, kinds)
  <2>1. \A i \in DOMAIN a : i \in DOMAIN (a \o b)
    BY <1>1
  <2>2. \A i \in DOMAIN b : Len(a) + i \in DOMAIN (a \o b)
    BY <1>1
  <2>3. QED
    BY <1>2, <1>5, <2>1, <2>2 DEF Only
<1>6. QED
  BY <1>4, <1>5 DEF Only

\* none at all or one.
LEMMA OnlyOne ==
    ASSUME NEW kinds
    PROVE  Only(<<>>, kinds) /\ \A m : Only(<<m>>, kinds) <=> m.type \in kinds
<1>1. Only(<<>>, kinds)
  BY DEF Only
<1>2. \A m : DOMAIN <<m>> = {1} /\ <<m>>[1] = m
  OBVIOUS
<1>3. QED
  BY <1>1, <1>2, Zenon DEF Only

\* The last thing said is said in the second part, or in the first when only
\* prompts follow.
LEMMA ClosingJoin ==
    ASSUME NEW last, NEW a \in Seq(Letter), NEW b \in Seq(Letter)
    PROVE  Closing(a \o b, last) <=> Closing(b, last) \/ (Closing(a, last) /\ Only(b, Asking))
<1>1. /\ Len(a) \in Nat /\ Len(b) \in Nat /\ Len(a \o b) = Len(a) + Len(b)
      /\ DOMAIN a = 1 .. Len(a) /\ DOMAIN b = 1 .. Len(b) /\ DOMAIN (a \o b) = 1 .. Len(a \o b)
  OBVIOUS
<1>2. /\ \A i \in 1 .. Len(a) : (a \o b)[i] = a[i]
      /\ \A i \in 1 .. Len(b) : (a \o b)[Len(a) + i] = b[i]
  OBVIOUS
<1>3. ASSUME Closing(b, last)
      PROVE  Closing(a \o b, last)
  <2>1. PICK i \in 1 .. Len(b) : b[i] = last /\ \A k \in i + 1 .. Len(b) : b[k].type \in Asking
    BY <1>1, <1>3 DEF Closing
  <2>2. Len(a) + i \in DOMAIN (a \o b) /\ (a \o b)[Len(a) + i] = last
    BY <1>1, <1>2, <2>1
  <2>3. ASSUME NEW k \in Len(a) + i + 1 .. Len(a \o b)
        PROVE  (a \o b)[k].type \in Asking
    <3>1. k - Len(a) \in i + 1 .. Len(b) /\ k - Len(a) \in 1 .. Len(b) /\ Len(a) + (k - Len(a)) = k
      BY <1>1, <2>1
    <3>2. QED
      BY <1>2, <2>1, <3>1
  <2>4. QED
    BY <2>2, <2>3 DEF Closing
<1>4. ASSUME Closing(a, last), Only(b, Asking)
      PROVE  Closing(a \o b, last)
  <2>1. PICK i \in 1 .. Len(a) : a[i] = last /\ \A k \in i + 1 .. Len(a) : a[k].type \in Asking
    BY <1>1, <1>4 DEF Closing
  <2>2. i \in DOMAIN (a \o b) /\ (a \o b)[i] = last
    BY <1>1, <1>2, <2>1
  <2>3. ASSUME NEW k \in i + 1 .. Len(a \o b)
        PROVE  (a \o b)[k].type \in Asking
    <3>1. CASE k <= Len(a)
      BY <1>1, <1>2, <2>1, <3>1
    <3>2. CASE k > Len(a)
      <4>1. k - Len(a) \in 1 .. Len(b) /\ Len(a) + (k - Len(a)) = k
        BY <1>1, <3>2
      <4>2. QED
        BY <1>1, <1>2, <1>4, <4>1 DEF Only
    <3>3. QED
      BY <1>1, <3>1, <3>2
  <2>4. QED
    BY <2>2, <2>3 DEF Closing
<1>5. ASSUME Closing(a \o b, last)
      PROVE  Closing(b, last) \/ (Closing(a, last) /\ Only(b, Asking))
  <2>1. PICK i \in 1 .. Len(a \o b) : (a \o b)[i] = last /\ \A k \in i + 1 .. Len(a \o b) : (a \o b)[k].type \in Asking
    BY <1>1, <1>5 DEF Closing
  <2>2. CASE i <= Len(a)
    <3>1. i \in 1 .. Len(a) /\ a[i] = last
      BY <1>1, <1>2, <2>1, <2>2
    <3>2. \A k \in i + 1 .. Len(a) : a[k].type \in Asking
      BY <1>1, <1>2, <2>1, <2>2
    <3>3. \A k \in 1 .. Len(b) : b[k].type \in Asking
      <4>1. \A k \in 1 .. Len(b) : Len(a) + k \in i + 1 .. Len(a \o b)
        BY <1>1, <2>2
      <4>2. QED
        BY <1>2, <2>1, <4>1
    <3>4. QED
      BY <1>1, <3>1, <3>2, <3>3 DEF Closing, Only
  <2>3. CASE i > Len(a)
    <3>1. i - Len(a) \in 1 .. Len(b) /\ Len(a) + (i - Len(a)) = i
      BY <1>1, <2>3
    <3>2. b[i - Len(a)] = last
      BY <1>2, <2>1, <3>1
    <3>3. ASSUME NEW k \in (i - Len(a)) + 1 .. Len(b)
          PROVE  b[k].type \in Asking
      <4>1. k \in 1 .. Len(b) /\ Len(a) + k \in i + 1 .. Len(a \o b)
        BY <1>1, <3>1
      <4>2. QED
        BY <1>2, <2>1, <4>1
    <3>4. QED
      BY <1>1, <3>1, <3>2, <3>3 DEF Closing
  <2>4. QED
    BY <1>1, <2>2, <2>3
<1>6. QED
  BY <1>3, <1>4, <1>5

\* A single message closes only itself.
LEMMA ClosingOne ==
    ASSUME NEW last
    PROVE  Closing(<<last>>, last) /\ \A m : Closing(<<m>>, last) => m = last
<1>1. \A m : DOMAIN <<m>> = {1} /\ <<m>>[1] = m /\ Len(<<m>>) = 1
  OBVIOUS
<1>2. 1 + 1 .. 1 = {}
  OBVIOUS
<1>3. QED
  BY <1>1, <1>2, Zenon DEF Closing

-----------------------------------------------------------------------------
(* What the callbacks queue for a client.                                  *)

\* What one handler adds to the queue of a worker.
Posted(u, kinds) == \E mail : Mailed(mail) /\ Only(mail[u], kinds)

\* Less is less.
LEMMA PostedMore ==
    ASSUME NEW u, NEW kinds, NEW more, kinds \subseteq more, Posted(u, kinds)
    PROVE  Posted(u, more)
BY DEF Posted, Only

\* A message for one worker,
LEMMA SendPosts ==
    ASSUME NEW kinds, NEW u \in Workers, NEW w, NEW msgs \in Seq(Letter), Only(msgs, kinds) \/ w # u,
           NEW killed, sendTo(w, msgs, killed)
    PROVE  Posted(u, kinds)
<1>1. Mailed(Mail(w, msgs))
  BY SendMails
<1>2. Mail(w, msgs)[u] = <<>> \/ (w = u /\ Mail(w, msgs)[u] = msgs)
  BY DEF Mail, NoMail
<1>3. QED
  BY <1>1, <1>2, OnlyOne DEF Posted

\* for one side,
LEMMA PostPosts ==
    ASSUME NEW kinds, NEW u \in Workers, NEW s, NEW msgs \in Seq(Letter), Only(msgs, kinds),
           NEW killed, post(Post(s, msgs), killed)
    PROVE  Posted(u, kinds)
<1> DEFINE mail == ToWorkers(activeSides, Post(s, msgs))
<1>1. <<>> \in Seq(Letter)
  OBVIOUS
<1>2. Post(s, msgs) \in [Sides -> Seq(Letter)] /\ \A t \in Sides : Post(s, msgs)[t] \in {msgs, <<>>}
  BY <1>1 DEF Post, NoPost
<1>3. Mailed(mail)
  BY <1>2, PostMails
<1>4. mail[u] \in {msgs, <<>>}
  BY <1>2 DEF ToWorkers
<1>5. QED
  BY <1>3, <1>4, OnlyOne DEF Posted

\* none,
LEMMA KillPosts == ASSUME NEW kinds, NEW u \in Workers, NEW killed, kill(killed) PROVE Posted(u, kinds)
<1>1. <<>> \in Seq(Letter) /\ Only(<<>>, kinds)
  BY OnlyOne
<1>2. QED
  BY <1>1, SendPosts DEF kill

\* and no post at all.
LEMMA QuietPosts == ASSUME Streams, NEW kinds, NEW u \in Workers, UNCHANGED jobs PROVE Posted(u, kinds)
<1>1. NoMail \in [Workers -> Seq(Letter)] /\ NoMail[u] = <<>>
  BY DEF NoMail
<1>2. \A v \in Workers : jobs[v] \o NoMail[v] = jobs[v]
  BY DEF Streams, NoMail
<1>3. jobs' = [v \in Workers |-> jobs[v]]
  BY DEF Streams
<1>4. Mailed(NoMail)
  BY <1>1, <1>2, <1>3 DEF Mailed
<1>5. QED
  BY <1>1, <1>4, OnlyOne DEF Posted

\* The letters by kind.
LEMMA LetterKinds ==
    ASSUME NEW a, NEW b, NEW c
    PROVE  /\ TrickMsg(a, b).type \in Asking /\ WrongMsg(a).type \in Asking
           /\ ScoreMsg(a).type \in Useful /\ TotalMsg(a).type \in Useful /\ DealMsg(a, b, c).type \in Useful
           /\ \A m \in Messages : m.type \in Useful
BY DEF TrickMsg, WrongMsg, ScoreMsg, TotalMsg, DealMsg, Messages, Asking, Useful

\* A legal card is told in useful letters and prompts.
LEMMA AfterCardKinds ==
    ASSUME GameTypeOK, NEW w, NEW card, acceptCard(card, w), NEW s \in Sides
    PROVE  Only(AfterCard(s, card), Useful \cup Asking)
<1> DEFINE prompt == IF s = nextMove' THEN <<TrickMsg(table', trickNo')>> ELSE <<>>
           K == Useful \cup Asking
<1>1. card \in Card /\ GameTypeOK'
  BY AcceptTypes
<1>2. prompt \in Seq(Letter) /\ Only(prompt, K)
  <2>1. table' \in Seq(Card) /\ trickNo' \in 1 .. TricksPerRound + 1
    BY <1>1 DEF GameTypeOK
  <2>2. TrickMsg(table', trickNo') \in Letter /\ TrickMsg(table', trickNo').type \in K
    BY <2>1, LetterTrick, LetterKinds
  <2>3. <<TrickMsg(table', trickNo')>> \in Seq(Letter) /\ <<>> \in Seq(Letter)
    BY <2>2
  <2>4. Only(<<TrickMsg(table', trickNo')>>, K) /\ Only(<<>>, K)
    BY <2>2, OnlyOne
  <2>5. QED
    BY <2>3, <2>4
<1>3. CASE Len(table) + 1 < NSides
  <2>1. Len(table) + 1 # NSides /\ ~(roundNumber' > roundNumber)
    BY <1>3 DEF acceptCard, Play, playCard, addCard, closeTrick, closeRound, closeGame, GameTypeOK
  <2>2. AfterCard(s, card) = prompt
    BY ONLY <1>3, <2>1 DEF AfterCard
  <2>3. QED
    BY ONLY <1>2, <2>2
<1>4. CASE ~(Len(table) + 1 < NSides)
  <2>1. Len(table) + 1 = NSides
    BY <1>4 DEF acceptCard, Play, playCard, addCard, closeTrick, closeRound, closeGame
  <2> DEFINE turn == TakenMsg(card)
             score == ScoreMsg(RoundScore(card))
             total == TotalMsg(NewTotals(card))
             deal == DealMsg(roundMode', nextMove', hands'[s])
  <2>2. /\ turn \in Letter /\ score \in Letter /\ total \in Letter
        /\ turn.type \in K /\ score.type \in K /\ total.type \in K
    BY <1>1, <2>1, TakeType, LetterTaken, LetterScore, LetterKinds
  <2>3. deal \in Letter /\ deal.type \in K
    BY <1>1, LetterDeal, LetterKinds DEF GameTypeOK
  <2>4. AfterCard(s, card) \in {<<turn, score, total>>, (<<turn, score, total>> \o <<deal>>) \o prompt, <<turn>> \o prompt}
    BY ONLY <1>4, <2>1 DEF AfterCard, LastTold, NewRound
  <2> HIDE DEF turn, score, total, deal, prompt, K
  <2>5. <<turn, score, total>> \in Seq(Letter) /\ <<turn>> \in Seq(Letter) /\ <<deal>> \in Seq(Letter)
    BY <2>2, <2>3
  <2>6. Only(<<turn, score, total>>, K) /\ Only(<<turn>>, K) /\ Only(<<deal>>, K)
    <3>1. Only(<<turn, score, total>>, K)
      BY <2>2 DEF Only
    <3>2. QED
      BY <2>2, <2>3, <3>1, OnlyOne
  <2>7. <<turn, score, total>> \o <<deal>> \in Seq(Letter) /\ Only(<<turn, score, total>> \o <<deal>>, K)
    BY ONLY <2>5, <2>6, OnlyJoin, LettersJoin
  <2>8. Only((<<turn, score, total>> \o <<deal>>) \o prompt, K) /\ Only(<<turn>> \o prompt, K)
    BY ONLY <1>2, <2>5, <2>6, <2>7, OnlyJoin
  <2>9. Only(AfterCard(s, card), K)
    BY ONLY <2>4, <2>6, <2>8
  <2>10. QED
    BY <2>9 DEF K
<1>5. QED
  BY <1>3, <1>4

\* The last card of the game is told to every side with the totals at the
\* end.
LEMMA LastCardTells ==
    ASSUME InStep, NEW w, NEW card, acceptCard(card, w), GameOver', NEW s \in Sides
    PROVE  Closing(AfterCard(s, card), TotalMsg(penalties'))
<1> DEFINE side == SenderSide(w)
<1>1. card \in Card /\ GameTypeOK /\ GameTypeOK' /\ side \in Sides
  BY AcceptTypes DEF InStep
<1>2. Play(side, card) /\ card \in hands[side]
  BY <1>1 DEF acceptCard, Play, mayPlay, isMoveLegal, GameTypeOK
<1>3. ~GameOver /\ roundNumber \in Nat /\ Len(Scenario) \in Nat
  BY <1>1, <1>2, NobodyPlaysOn, ScenarioLength DEF GameTypeOK
<1>4. closeGame(side, card)
  <2>1. ~addCard(side, card) /\ ~closeTrick(side, card)
    BY <1>3 DEF addCard, closeTrick, GameOver
  <2>2. ~closeRound(side, card)
    BY <1>3 DEF closeRound, settleRound, GameOver
  <2>3. QED
    BY <1>2, <2>1, <2>2 DEF Play, playCard
<1>5. Len(table) + 1 = NSides /\ penalties' = NewTotals(card)
  BY <1>4 DEF closeGame, settleRound
<1>6. ~(Len(table) + 1 < NSides)
  BY <1>5, RulesAssumption
<1>7. AfterCard(s, card) = LastTold(card)
  BY ONLY <1>5, <1>6, GameOver' DEF AfterCard
<1> DEFINE turn == TakenMsg(card)
           score == ScoreMsg(RoundScore(card))
           total == TotalMsg(NewTotals(card))
<1>8. LastTold(card) = <<turn, score, total>>
  BY DEF LastTold
<1>9. Closing(<<turn, score, total>>, total)
  <2> HIDE DEF turn, score, total
  <2>1. DOMAIN <<turn, score, total>> = 1 .. 3 /\ <<turn, score, total>>[3] = total /\ Len(<<turn, score, total>>) = 3
    OBVIOUS
  <2>2. QED
    BY <2>1 DEF Closing
<1>10. QED
  BY <1>5, <1>7, <1>8, <1>9

\* An arrival is told useful letters and prompts, and others only prompts
\* unless the game starts.
LEMMA IntroKinds ==
    ASSUME GameTypeOK, lastDeal = <<>> \/ lastDeal \in [Sides -> SUBSET Card], NEW side, NEW s \in Sides
    PROVE  /\ Only(IntroPost(side)[s], Useful \cup Asking)
           /\ s # side /\ ~Starts => Only(IntroPost(side)[s], Asking)
<1> DEFINE K == Useful \cup Asking
           deal == DealMsg(roundMode, nextMove, hands[s])
           again == DealMsg(roundMode, nextMove, lastDeal[s])
           turn == TrickMsg(table, trickNo)
<1>1. turn \in Letter /\ turn.type \in Asking
  <2>1. table \in Seq(Card) /\ trickNo \in 1 .. TricksPerRound + 1
    BY DEF GameTypeOK
  <2>2. QED
    BY <2>1, LetterTrick, LetterKinds
<1>2. PromptNow(s) \in Seq(Letter) /\ Only(PromptNow(s), Asking) /\ Only(PromptNow(s), K)
  <2>1. PromptNow(s) \in {<<turn>>, <<>>}
    BY DEF PromptNow
  <2> HIDE DEF turn
  <2>2. <<turn>> \in Seq(Letter) /\ <<>> \in Seq(Letter)
    BY <1>1
  <2>3. Only(<<turn>>, Asking) /\ Only(<<turn>>, K) /\ Only(<<>>, Asking) /\ Only(<<>>, K)
    BY <1>1, OnlyOne
  <2>4. QED
    BY ONLY <2>1, <2>2, <2>3
<1>3. <<deal>> \in Seq(Letter) /\ Only(<<deal>>, K)
  <2>1. deal \in Letter /\ deal.type \in K
    BY LetterDeal, LetterKinds DEF GameTypeOK
  <2> HIDE DEF deal, K
  <2>2. <<deal>> \in Seq(Letter)
    BY <2>1
  <2>3. Only(<<deal>>, K)
    BY <2>1, OnlyOne
  <2>4. QED
    BY <2>2, <2>3
<1>4. lastDeal # <<>> => Story(s) \in Seq(Letter) /\ Only(Story(s), K)
  <2> SUFFICES ASSUME lastDeal # <<>>
               PROVE  Story(s) \in Seq(Letter) /\ Only(Story(s), K)
    OBVIOUS
  <2>1. again \in Letter /\ again.type \in K
    BY LetterDeal, LetterKinds DEF GameTypeOK
  <2>2. takenInRound \in Seq(Messages) /\ takenInRound \in Seq(Letter)
    BY LetterTaken DEF GameTypeOK
  <2>3. Only(takenInRound, K)
    BY <2>2, LetterKinds DEF Only
  <2>4. Story(s) = <<again>> \o takenInRound
    BY DEF Story
  <2> HIDE DEF again, K
  <2>5. <<again>> \in Seq(Letter) /\ Only(<<again>>, K)
    BY <2>1, OnlyOne
  <2>6. QED
    BY ONLY <2>2, <2>3, <2>4, <2>5, OnlyJoin, LettersJoin
<1>5. <<>> \in Seq(Letter) /\ Only(<<>>, K) /\ Only(<<>>, Asking)
  BY OnlyOne
<1>6. CASE Starts
  <2>1. IntroPost(side)[s] = <<deal>> \o PromptNow(s)
    BY <1>6 DEF IntroPost
  <2> HIDE DEF deal, K
  <2>2. Only(<<deal>> \o PromptNow(s), K)
    BY ONLY <1>2, <1>3, OnlyJoin
  <2>3. QED
    BY <1>6, <2>1, <2>2 DEF K
<1>7. CASE ~Starts
  <2> DEFINE first == IF s = side /\ lastDeal # <<>> THEN Story(s) ELSE <<>>
             then == IF Resumes THEN PromptNow(s) ELSE <<>>
  <2>1. IntroPost(side)[s] = first \o then
    BY <1>7 DEF IntroPost
  <2>2. first \in Seq(Letter) /\ Only(first, K) /\ (s # side => Only(first, Asking))
    BY <1>4, <1>5
  <2>3. then \in Seq(Letter) /\ Only(then, K) /\ Only(then, Asking)
    BY <1>2, <1>5
  <2> HIDE DEF first, then, K
  <2>4. Only(IntroPost(side)[s], K) /\ (s # side => Only(IntroPost(side)[s], Asking))
    BY ONLY <2>1, <2>2, <2>3, OnlyJoin
  <2>5. QED
    BY <2>4 DEF K
<1>8. QED
  BY <1>6, <1>7

-----------------------------------------------------------------------------
(* Clients that stay.                                                      *)

\* A client of the repository that does not hang up and wants sides that
\* nobody else asks for.
Loyal(u) ==
    /\ u \in Handlers \ (Rude \cup Leavers)
    /\ \A w \in Handlers \ {u} : Wants[w] \cap Wants[u] = {}

\* Where a thread is that nothing has told to go.
Going == {"poll", "socket", "drain", "send"}

\* Nothing fails and no timer runs; the server ends when the game does, and
\* who sits at the table has asked for the seat.
Calm ==
    /\ \A w \in Workers :
         /\ ~err[w] /\ ~armed[w] /\ pc[w] \notin {"failed", "quitting", "arm", "lastArm"}
         /\ roles[w] = "SERVING_PROXY" => w = Proxy
         /\ workerToSide[w] # NoSide => w \in Handlers /\ workerToSide[w] \in Wants[w]
         /\ pin[w].type = "IAM" => w \in Handlers /\ pin[w].side \in Wants[w]
    /\ exiting <=> GameOver
    /\ pin[Proxy] = None /\ zombieWorkerToSide[Proxy] = NoSide
    /\ ~GameOver => ~killFlag[Proxy] /\ conn[Proxy] = "open" /\ pc[Proxy] \in Going

\* While the game lasts such a client is not told to go.
Playing(u) ==
    /\ conn[u] = "open" /\ ~killFlag[u] /\ pc[u] \in Going \cup {"none"}
    /\ zombieWorkerToSide[u] = NoSide
    /\ roles[u] \in {"none", "SERVING_UNKNOWN", "SERVING_ACTIVE"}
    /\ spoken[u] # 0 => roles[u] = "SERVING_ACTIVE"

\* What it will have heard when its connection is closed.
ToHear(u) ==
    CASE conn[u] = "closed" -> told[u]
      [] conn[u] # "closed" /\ pc[u] = "lastSend" -> told[u] \o pout[u]
      [] OTHER -> Stream(u)

\* Afterwards it is on its way out, with the totals.
Leaving(u) ==
    /\ roles[u] \notin {"none", "SERVING_UNKNOWN"} /\ conn[u] # "quit"
    /\ conn[u] = "closed" \/ (roles[u] = "SERVING_ACTIVE" /\ zombieWorkerToSide[u] = NoSide)
    /\ Closing(ToHear(u), TotalMsg(penalties))

Heard(u) ==
    /\ spoken[u] = 0 => roles[u] # "SERVING_ACTIVE" /\ zombieWorkerToSide[u] = NoSide /\ pin[u] = None
    /\ pin[u] = None \/ pin[u].type = "TRICK"
    /\ Only(Stream(u), Useful \cup Asking) /\ Only(told[u], Useful)
    /\ ~GameOver => Playing(u)
    /\ GameOver /\ spoken[u] # 0 => Leaving(u)
    /\ GameOver /\ spoken[u] = 0 => Wants[u] = {}

\* What a handler does to such a client.
Treats(u) ==
    /\ Posted(u, Useful \cup Asking)
    /\ GameOver => GameOver' /\ penalties' = penalties /\ Posted(u, Asking)
    /\ killFlag'[u] => killFlag[u] \/ GameOver'
    /\ ~GameOver /\ GameOver' =>
         /\ ~Incomplete
         /\ roles[u] = "SERVING_ACTIVE" => \E mail : Mailed(mail) /\ Closing(mail[u], TotalMsg(penalties'))

\* An arrival,
LEMMA TakeTreats ==
    ASSUME Running, Streams, Laid, NEW u \in Workers, NEW w \in Workers, NEW side \in Sides, takeSide(side, w),
           w = u => ~GameOver
    PROVE  Posted(u, Useful \cup Asking) /\ (GameOver => Posted(u, Asking))
<1> DEFINE at == [activeSides EXCEPT ![side] = w]
           mail == ToWorkers(at, IntroPost(side))
<1>1. GameTypeOK /\ (lastDeal = <<>> \/ lastDeal \in [Sides -> SUBSET Card])
  BY DEF Running, FlagTypes
<1>2. Mailed(mail)
  <2>1. IntroPost(side) \in [Sides -> Seq(Letter)]
    BY <1>1, IntroPostType
  <2>2. mail \in [Workers -> Seq(Letter)]
    BY <2>1, ToWorkersType
  <2>3. QED
    BY <2>2, DeliverMails DEF takeSide
<1>3. mail[u] = <<>> \/ \E s \in Sides : at[s] = u /\ mail[u] = IntroPost(side)[s]
  BY DEF ToWorkers
<1>4. Only(mail[u], Useful \cup Asking)
  BY <1>1, <1>3, IntroKinds, OnlyOne
<1>5. GameOver => Only(mail[u], Asking)
  <2> SUFFICES ASSUME GameOver
               PROVE  Only(mail[u], Asking)
    OBVIOUS
  <2>1. ~Starts
    BY ScenarioLength DEF Starts, Laid, GameOver
  <2>2. \A s \in Sides : at[s] = u => s # side
    BY DEF Running, SeatTypes
  <2>3. QED
    BY <1>1, <1>3, <2>1, <2>2, IntroKinds, OnlyOne
<1>6. QED
  BY <1>2, <1>4, <1>5 DEF Posted

\* and a card.
LEMMA CardTreats ==
    ASSUME Running, InStep, Streams, NEW u \in Workers, NEW w \in Workers, NEW card, acceptCard(card, w)
    PROVE  /\ ~GameOver
           /\ Posted(u, Useful \cup Asking)
           /\ GameOver' /\ roles[u] = "SERVING_ACTIVE" =>
                \E mail : Mailed(mail) /\ Closing(mail[u], TotalMsg(penalties'))
<1> DEFINE f == [s \in Sides |-> AfterCard(s, card)]
           mail == ToWorkers(activeSides, f)
<1>1. ~GameOver
  <2>1. SenderSide(w) \in Sides
    BY AcceptTypes DEF InStep
  <2>2. card \in hands[SenderSide(w)] /\ Play(SenderSide(w), card)
    BY <2>1 DEF acceptCard, Play, mayPlay, isMoveLegal, InStep, GameTypeOK
  <2>3. QED
    BY <2>1, <2>2, NobodyPlaysOn
<1>2. f \in [Sides -> Seq(Letter)]
  BY AfterCardType DEF InStep
<1>3. Mailed(mail)
  BY <1>2, PostMails DEF acceptCard
<1>4. Only(mail[u], Useful \cup Asking)
  <2>1. mail[u] = <<>> \/ \E s \in Sides : mail[u] = AfterCard(s, card)
    BY DEF ToWorkers
  <2>2. QED
    BY <2>1, AfterCardKinds, OnlyOne DEF InStep
<1>5. ASSUME GameOver', roles[u] = "SERVING_ACTIVE"
      PROVE  Closing(mail[u], TotalMsg(penalties'))
  <2>1. PICK s \in Sides : workerToSide[u] = s
    BY <1>5 DEF Running, Seats, SeatTypes, Maybe
  <2>2. activeSides[s] = u /\ \A t \in Sides : activeSides[t] = u => t = s
    BY <2>1 DEF Running, Seats
  <2>3. mail[u] = AfterCard(s, card)
    BY <2>2, ToWorkersAt
  <2>4. QED
    BY <1>5, <2>3, LastCardTells
<1>6. QED
  BY <1>1, <1>3, <1>4, <1>5 DEF Posted

\* What a client sends, new or pending, is an introduction it wants to make;
\* of the client itself it makes sense when it comes.
Fit(w, m) == m.type = "IAM" => w \in Handlers /\ m.side \in Wants[w]
Timed(u, m) ==
    \/ m.type = "TRICK" /\ roles[u] # "SERVING_UNKNOWN"
    \/ m.type = "IAM" /\ roles[u] = "SERVING_UNKNOWN" /\ ~GameOver

\* A seat such a client wants is its own.
LEMMA OwnSeats ==
    ASSUME Running, Calm, NEW u, Loyal(u), NEW s \in Wants[u], s \in Sides, activeSides[s] # NoWorker
    PROVE  activeSides[s] = u /\ workerToSide[u] = s
<1>1. activeSides[s] \in Workers /\ workerToSide[activeSides[s]] = s /\ s # NoSide
  BY NobodyThere DEF Running, SeatTypes, Seats, Maybe
<1>2. activeSides[s] \in Handlers /\ s \in Wants[activeSides[s]]
  BY <1>1 DEF Calm
<1>3. QED
  BY <1>1, <1>2 DEF Loyal

\* The callbacks for messages treat it well.
LEMMA CallTreats ==
    ASSUME Running, InStep, Streams, Laid, Calm, NEW u, Loyal(u),
           NEW w \in Workers, NEW m, NEW done \in BOOLEAN, callback(m, w, done),
           Fit(w, m), w = u => Timed(u, m)
    PROVE  /\ Treats(u) /\ UNCHANGED zombieWorkerToSide
           /\ w = u => roles'[u] = IF m.type = "IAM" THEN "SERVING_ACTIVE" ELSE roles[u]
<1> DEFINE K == Useful \cup Asking
<1>0. u \in Workers /\ Wants[u] \subseteq Sides /\ Asking \subseteq K /\ u \in DOMAIN roles
  BY LoopAssumption DEF Loyal, Handlers, Running, TableTypes
<1>1. CASE m.type = "IAM" /\ takeSide(m.side, w)
  <2>1. m.side \in Sides /\ (w = u => ~GameOver)
    BY <1>1, LoopAssumption DEF Fit, Timed
  <2>2. Posted(u, K) /\ (GameOver => Posted(u, Asking))
    BY <1>0, <1>1, <2>1, TakeTreats
  <2>3. UNCHANGED <<gameVars, zombieWorkerToSide>> /\ setRole(w, "SERVING_ACTIVE")
    BY <1>1 DEF takeSide
  <2>4. killFlag'[u] => killFlag[u]
    BY <1>0, <1>1 DEF takeSide, deliver
  <2>5. QED
    BY <1>0, <1>1, <2>2, <2>3, <2>4 DEF Treats, GameOver, gameVars, setRole
<1>2. CASE m.type = "TRICK" /\ ~Incomplete /\ acceptCard(m.card, w)
  <2>1. /\ ~GameOver /\ Posted(u, K)
        /\ GameOver' /\ roles[u] = "SERVING_ACTIVE" => \E mail : Mailed(mail) /\ Closing(mail[u], TotalMsg(penalties'))
    BY <1>0, <1>2, CardTreats
  <2>2. UNCHANGED <<zombieWorkerToSide, roles>>
    BY <1>2 DEF acceptCard, seatVars
  <2>3. killFlag'[u] => killFlag[u] \/ GameOver'
    BY <1>0, <1>2 DEF acceptCard, post, deliver
  <2>4. QED
    BY <1>2, <2>1, <2>2, <2>3 DEF Treats
<1>3. CASE m.type = "IAM" /\ answerBusy(m.side, w)
  <2> DEFINE busy == BusyMsg({s \in Sides : activeSides[s] # NoWorker})
  <2>1. w # u
    <3> SUFFICES ASSUME w = u
                 PROVE  FALSE
      OBVIOUS
    <3>1. m.side \in Wants[u] /\ m.side \in Sides /\ activeSides[m.side] # NoWorker /\ roles[u] = "SERVING_UNKNOWN"
      BY <1>0, <1>3 DEF Fit, answerBusy
    <3>2. workerToSide[u] = m.side
      BY <3>1, OwnSeats
    <3>3. QED
      BY <1>0, <3>1, <3>2, NobodyThere DEF Running, Seats
  <2>2. <<busy>> \in Seq(Letter)
    <3>1. busy \in Letter
      BY LetterBusy
    <3> HIDE DEF busy
    <3>2. QED
      BY <3>1
  <2>3. sendTo(w, <<busy>>, {})
    BY <1>3 DEF answerBusy
  <2>4. Posted(u, Asking)
    BY <1>0, <2>1, <2>2, <2>3, SendPosts
  <2>5. killFlag'[u] => killFlag[u]
    BY <1>0, <2>3 DEF sendTo, deliver
  <2>6. UNCHANGED <<gameVars, seatVars>>
    BY <1>3 DEF answerBusy
  <2>7. QED
    BY <1>0, <2>1, <2>4, <2>5, <2>6, PostedMore DEF Treats, GameOver, gameVars, seatVars
<1>4. CASE (m.type = "IAM" /\ dismissRepeat(w)) \/ (m.type = "TRICK" /\ refuseStranger(w))
           \/ (m.type = "BAD" /\ done /\ handleWrongMessage(w, done))
  <2>1. w # u /\ kill({w}) /\ UNCHANGED <<gameVars, seatVars>>
    BY <1>4 DEF dismissRepeat, refuseStranger, handleWrongMessage, Timed
  <2>2. Posted(u, Asking)
    BY <1>0, <2>1, KillPosts
  <2>3. killFlag'[u] => killFlag[u]
    BY <1>0, <2>1 DEF kill, sendTo, deliver
  <2>4. QED
    BY <1>0, <2>1, <2>2, <2>3, PostedMore DEF Treats, GameOver, gameVars, seatVars
<1>5. CASE m.type = "TRICK" /\ rejectCard(m.trickNo, m.card, w)
  <2>1. <<WrongMsg(trickNo)>> \in Seq(Letter) /\ Only(<<WrongMsg(trickNo)>>, Asking)
    BY PromptChats, LetterKinds, OnlyOne DEF Running
  <2>2. Posted(u, Asking)
    BY <1>0, <1>5, <2>1, PostPosts DEF rejectCard
  <2>3. killFlag'[u] => killFlag[u]
    BY <1>0, <1>5 DEF rejectCard, post, deliver
  <2>4. UNCHANGED <<gameVars, seatVars, roles>>
    BY <1>5 DEF rejectCard, tableVars
  <2>5. QED
    BY <1>0, <1>5, <2>2, <2>3, <2>4, PostedMore DEF Treats, GameOver, gameVars, seatVars
<1>6. CASE UNCHANGED <<gameVars, serverVars, tableVars, queueVars>> /\ (m.type # "IAM" \/ roles[w] # "SERVING_UNKNOWN")
  <2>1. Posted(u, Asking)
    BY <1>0, <1>6, QuietPosts DEF queueVars
  <2>2. w = u => m.type = "TRICK"
    BY <1>6 DEF Timed
  <2>3. QED
    BY <1>0, <1>6, <2>1, <2>2, PostedMore DEF Treats, GameOver, gameVars, seatVars, serverVars, tableVars, queueVars
<1>7. QED
  BY <1>1, <1>2, <1>3, <1>4, <1>5, <1>6 DEF callback, playerIntro, playerTricked, ignoreCard, handleWrongMessage

\* Other workers are killed by the last card alone, which ends the server as
\* well.
LEMMA CallEnds ==
    ASSUME Running, InStep, Streams, Calm, NEW w \in Workers, NEW m, NEW done \in BOOLEAN, callback(m, w, done)
    PROVE  /\ exiting' <=> GameOver'
           /\ GameOver => GameOver'
           /\ \A v \in Workers \ {w} : killFlag'[v] => killFlag[v] \/ GameOver'
<1>1. CASE acceptCard(m.card, w)
  <2>1. ~GameOver
    BY <1>1, CardTreats
  <2>2. exiting' <=> GameOver'
    BY <1>1, <2>1 DEF acceptCard, finalize, Calm
  <2>3. \A v \in Workers : killFlag'[v] => killFlag[v] \/ GameOver'
    BY <1>1 DEF acceptCard, post, deliver
  <2>4. QED
    BY <2>1, <2>2, <2>3
<1>2. ASSUME UNCHANGED <<gameVars, exiting>>, \A v \in Workers \ {w} : killFlag'[v] => killFlag[v]
      PROVE  /\ exiting' <=> GameOver'
             /\ GameOver => GameOver'
             /\ \A v \in Workers \ {w} : killFlag'[v] => killFlag[v] \/ GameOver'
  BY <1>2 DEF Calm, GameOver, gameVars
<1>3. CASE takeSide(m.side, w)
  BY <1>2, <1>3 DEF takeSide, deliver
<1>4. CASE answerBusy(m.side, w)
  BY <1>2, <1>4 DEF answerBusy, sendTo, deliver
<1>5. CASE dismissRepeat(w) \/ refuseStranger(w) \/ (handleWrongMessage(w, done) /\ done)
  <2>1. kill({w}) /\ UNCHANGED <<gameVars, exiting>>
    BY <1>5 DEF dismissRepeat, refuseStranger, handleWrongMessage
  <2>2. QED
    BY <1>2, <2>1 DEF kill, sendTo, deliver
<1>6. CASE rejectCard(m.trickNo, m.card, w)
  BY <1>2, <1>6 DEF rejectCard, post, deliver
<1>7. CASE UNCHANGED <<gameVars, serverVars, queueVars>>
  BY <1>2, <1>7 DEF serverVars, queueVars
<1>8. QED
  BY <1>1, <1>3, <1>4, <1>5, <1>6, <1>7 DEF callback, playerIntro, playerTricked, ignoreCard, handleWrongMessage

\* The exit callback sends nothing; it ends nothing that has not ended with
\* the game.
LEMMA ExitTreats ==
    ASSUME Running, Streams, Calm, NEW w \in Workers, w = Proxy => GameOver,
           NEW work, NEW quit, grandExitCallback(w, err[w], work, quit)
    PROVE  /\ exiting' <=> GameOver'
           /\ UNCHANGED <<gameVars, killFlag>>
           /\ \A u \in Workers : Treats(u)
           /\ \A u \in Workers \ {w} : zombieWorkerToSide'[u] = zombieWorkerToSide[u]
           /\ roles[w] # "SERVING_ACTIVE" => UNCHANGED zombieWorkerToSide
           /\ roles'[w] # roles[w] => roles'[w] \in {"CLEANUP", "SHUTDOWN"}
<1>1. ~err[w] /\ (exiting <=> GameOver)
  BY DEF Calm
<1>2. CASE proxyLeaves(w, quit)
  <2>1. w = Proxy /\ GameOver /\ exiting
    BY <1>1, <1>2 DEF proxyLeaves, Calm
  <2>2. ToStop \ {w} = {}
    BY <2>1 DEF ToStop
  <2>3. kill({}) /\ exiting' = TRUE /\ UNCHANGED <<gameVars, zombieWorkerToSide>>
    BY <1>2, <2>2 DEF proxyLeaves, finalize, seatVars, grandExitCallback, internalError, playerLeaves, zombieLeaves,
                      strangerLeaves, goneAlready
  <2>4. UNCHANGED killFlag
    BY <2>3 DEF kill, sendTo, deliver, Running, QueueTypes
  <2>5. roles'[w] # roles[w] => roles'[w] = "SHUTDOWN"
    BY <1>2 DEF proxyLeaves, leave, setRole, Running, TableTypes
  <2>6. ASSUME NEW u \in Workers
        PROVE  Treats(u)
    BY <2>1, <2>3, <2>4, KillPosts DEF Treats, GameOver, gameVars
  <2>7. QED
    BY <2>1, <2>3, <2>4, <2>5, <2>6 DEF GameOver, gameVars
<1>3. CASE playerLeaves(w, work, quit) \/ zombieLeaves(w, work, quit) \/ strangerLeaves(w, quit) \/ goneAlready(w, quit)
  <2>1. sendNothing /\ UNCHANGED <<exiting, gameVars, jobs, killFlag>>
    BY <1>1, <1>3 DEF playerLeaves, zombieLeaves, strangerLeaves, goneAlready, sendNothing, queueVars, grandExitCallback
  <2>2. \A u \in Workers \ {w} : zombieWorkerToSide'[u] = zombieWorkerToSide[u]
    BY <1>3 DEF playerLeaves, freeSeat, zombieLeaves, strangerLeaves, goneAlready, seatVars, Running, SeatTypes
  <2>3. roles[w] # "SERVING_ACTIVE" => UNCHANGED zombieWorkerToSide
    BY <1>3 DEF playerLeaves, zombieLeaves, strangerLeaves, goneAlready, seatVars
  <2>4. roles'[w] # roles[w] => roles'[w] \in {"CLEANUP", "SHUTDOWN"}
    BY <1>3 DEF playerLeaves, zombieLeaves, strangerLeaves, goneAlready, leaveOrLinger, leave, setRole, Running, TableTypes
  <2>5. ASSUME NEW u \in Workers
        PROVE  Treats(u)
    BY <2>1, QuietPosts DEF Treats, GameOver, gameVars
  <2>6. QED
    BY <1>1, <2>1, <2>2, <2>3, <2>4, <2>5 DEF GameOver, gameVars
<1>4. QED
  BY <1>1, <1>2, <1>3 DEF grandExitCallback

-----------------------------------------------------------------------------
(* The four kinds of steps without faults and timers.                      *)

Reliable == Timeout < 0 /\ Faults = {}

\* A message of its client, new or pending, reaches a thread,
Spoke(w) ==
    /\ pc[w] \in {"poll", "socket"} /\ conn[w] = "open"
    /\ UNCHANGED <<pout, told, err, cleanerVars>>
    /\ UNCHANGED armed \/ Set(armed, w, FALSE)
    /\ \E m :
         /\ process(w, m)
         /\ \/ m = pin[w] /\ m # None /\ UNCHANGED spoken
            \/ m \in Says(w) /\ w # Proxy /\ Set(spoken, w, spoken[w] + 1)

\* or nothing, an end or a new connection does,
Idle(w) ==
    /\ pc[w] \in {"poll", "socket"}
    /\ noAction(w) \/ (w # Proxy /\ hangup(w)) \/ (w = Proxy /\ acceptAction(w))
    /\ UNCHANGED <<pout, err, cleanerVars>>
    /\ UNCHANGED armed \/ Set(armed, w, FALSE)

\* or it asks to end,
Quits(w) ==
    \/ w # Proxy /\ overflow(w) /\ UNCHANGED <<pout, err, cleanerVars>> /\ (UNCHANGED armed \/ Set(armed, w, FALSE))
    \/ askExit(w)
    \/ final(w)

\* or goes on by itself.
Goes(w) == wakeByPipe(w) \/ drain(w) \/ sendOne(w) \/ queueDone(w) \/ obeyKill(w) \/ closeConn(w)

\* There are no others.
LEMMA SocketKinds ==
    ASSUME Running, NEW w \in Workers, socketReady(w), pc[w] \in {"poll", "socket"}, conn[w] = "open",
           UNCHANGED <<pout, err, cleanerVars>>, UNCHANGED armed \/ Set(armed, w, FALSE)
    PROVE  Spoke(w) \/ Idle(w) \/ Quits(w)
<1>1. CASE w # Proxy /\ receive(w)
  BY <1>1 DEF receive, Speak, Spoke
<1>2. CASE w # Proxy /\ (partOfMessage(w) \/ hangup(w))
  BY <1>2 DEF partOfMessage, Idle
<1>3. CASE w # Proxy /\ overflow(w)
  BY <1>3 DEF Quits
<1>4. CASE w = Proxy /\ acceptAction(w)
  BY <1>4 DEF Idle
<1>5. QED
  BY <1>1, <1>2, <1>3, <1>4 DEF socketReady

\* What the server and its clients do is one of the four.
LEMMA StepKinds ==
    ASSUME Running, Awake, Calm, Reliable, NEW w \in Workers, threadStep(w) \/ outside(w) \/ fault(w)
    PROVE  Spoke(w) \/ Idle(w) \/ Quits(w) \/ Goes(w)
<1>1. CASE lookAtSocket(w)
  <2>1. pc[w] \in {"poll", "socket"} /\ UNCHANGED <<cleanerVars, pout, err, armed>>
    BY <1>1 DEF lookAtSocket
  <2>2. CASE noAction(w)
    BY <2>1, <2>2 DEF Idle
  <2>3. CASE conn[w] = "open" /\ pin[w] # None /\ process(w, pin[w]) /\ UNCHANGED clientVars
    <3>1. UNCHANGED <<told, spoken>>
      BY <2>3 DEF clientVars
    <3>2. PICK m : m = pin[w]
      OBVIOUS
    <3>3. process(w, m)
      BY <2>3, <3>2 DEF process
    <3>4. QED
      BY <2>1, <2>3, <3>1, <3>2, <3>3 DEF Spoke
  <2>4. CASE conn[w] = "open" /\ socketReady(w)
    BY <2>1, <2>4, SocketKinds
  <2>5. QED
    BY <1>1, <2>2, <2>3, <2>4 DEF lookAtSocket
<1>2. CASE wakeBySocket(w)
  <2>1. conn[w] = "open"
    BY <1>2 DEF wakeBySocket, PolledFd, Socket, Awake, Wakeful, Obeying, Running, LoopTypes
  <2>2. QED
    BY <1>2, <2>1, SocketKinds DEF wakeBySocket
<1>3. CASE wakeByStdout(w)
  BY <1>3 DEF wakeByStdout, Idle
<1>4. CASE timeOut(w) \/ arm(w) \/ fault(w)
  BY <1>4 DEF timeOut, arm, fault, pollFails, pipeFails, sendFails, Calm, Reliable
<1>5. QED
  BY <1>1, <1>2, <1>3, <1>4 DEF threadStep, outside, Quits, Goes

\* Who has spoken has spoken once more at most.
Counted == spoken \in [Workers -> Nat]

\* Clients only are counted.
LEMMA KindsCount ==
    ASSUME NEW w \in Workers, Spoke(w) \/ Idle(w) \/ Quits(w) \/ Goes(w)
    PROVE  UNCHANGED spoken \/ Set(spoken, w, spoken[w] + 1)
BY DEF Spoke, Idle, noAction, hangup, acceptAction, Quits, overflow, askExit, final, Goes, wakeByPipe, drain, sendOne, Hear,
       queueDone, obeyKill, closeConn, clientVars

-----------------------------------------------------------------------------
(* The calm of the server.                                                 *)

\* What the threads say is fit.
LEMMA SaysFit ==
    ASSUME Calm, NEW w \in Workers, w # Proxy, NEW m \in Says(w)
    PROVE  Fit(w, m)
<1>1. w \in Handlers
  BY DEF Handlers
<1>2. ASSUME m \in KierkiSays(w)
      PROVE  Fit(w, m)
  BY <1>1, <1>2 DEF KierkiSays, Iam, TrickC, Fit
<1>3. ASSUME m \in AnyoneSays(w)
      PROVE  Fit(w, m)
  BY <1>1, <1>3 DEF AnyoneSays, Iam, TrickC, Bad, Fit
<1>4. QED
  BY <1>2, <1>3 DEF Says

\* Nobody but the thread notices its own state.
LEMMA SpokeCalm ==
    ASSUME Running, InStep, Streams, Calm, NEW w \in Workers, Spoke(w)
    PROVE  Calm'
<1>1. PICK m : process(w, m) /\ ((m = pin[w] /\ m # None) \/ (m \in Says(w) /\ w # Proxy))
  BY DEF Spoke
<1>2. PICK done \in BOOLEAN :
        /\ callback(m, w, done)
        /\ Set(pin, w, IF done THEN None ELSE m)
        /\ Set(conn, w, IF done /\ m.type = "BAD" THEN "quit" ELSE conn[w])
        /\ Set(pc, w, "drain")
  BY <1>1 DEF process
<1>3. w # Proxy /\ Fit(w, m)
  BY <1>1, SaysFit DEF Calm, Fit
<1>4. (exiting' <=> GameOver') /\ (GameOver => GameOver') /\ (killFlag'[Proxy] => killFlag[Proxy] \/ GameOver')
  <2>1. Proxy \in Workers \ {w}
    BY <1>3, MgrAssumption DEF Workers, Proxy
  <2>2. QED
    BY <1>2, <2>1, CallEnds
<1>5. /\ UNCHANGED zombieWorkerToSide
      /\ workerToSide' = workerToSide \/ (m.type = "IAM" /\ Set(workerToSide, w, m.side))
      /\ roles' = roles \/ \E r \in {"CLEANUP", "CLEANUP_UNKNOWN", "SERVING_ACTIVE"} : setRole(w, r)
  BY <1>2 DEF callback, playerIntro, takeSide, answerBusy, dismissRepeat, playerTricked, acceptCard, rejectCard,
              refuseStranger, ignoreCard, handleWrongMessage, Set, seatVars, serverVars, tableVars
<1>6. ASSUME NEW v \in Workers
      PROVE  /\ ~err'[v] /\ ~armed'[v] /\ pc'[v] \notin {"failed", "quitting", "arm", "lastArm"}
             /\ roles'[v] = "SERVING_PROXY" => v = Proxy
             /\ workerToSide'[v] # NoSide => v \in Handlers /\ workerToSide'[v] \in Wants[v]
             /\ pin'[v].type = "IAM" => v \in Handlers /\ pin'[v].side \in Wants[v]
  <2>1. ~err'[v] /\ ~armed'[v] /\ pc'[v] \notin {"failed", "quitting", "arm", "lastArm"}
    BY <1>2 DEF Spoke, Calm, Set, Running, LoopTypes
  <2>2. roles'[v] = "SERVING_PROXY" => v = Proxy
    BY <1>5 DEF Calm, setRole, Running, TableTypes
  <2>3. workerToSide'[v] # NoSide => v \in Handlers /\ workerToSide'[v] \in Wants[v]
    BY <1>3, <1>5 DEF Calm, Set, Fit, Running, SeatTypes
  <2>4. pin'[v].type = "IAM" => v \in Handlers /\ pin'[v].side \in Wants[v]
    BY <1>2, <1>3 DEF Calm, Set, Fit, Running, Inputs, None
  <2>5. QED
    BY <2>1, <2>2, <2>3, <2>4
<1>7. pin'[Proxy] = pin[Proxy] /\ conn'[Proxy] = conn[Proxy] /\ pc'[Proxy] = pc[Proxy]
  BY <1>2, <1>3 DEF Set, Running, Inputs, LoopTypes
<1>8. QED
  BY <1>4, <1>5, <1>6, <1>7 DEF Calm

\* Idle threads disturb nobody,
LEMMA IdleCalm ==
    ASSUME Running, Calm, NEW w \in Workers, Idle(w)
    PROVE  Calm'
<1>1. /\ UNCHANGED <<gameVars, serverVars, killFlag, pin>>
      /\ UNCHANGED roles \/ setRole(nextIx, "SERVING_UNKNOWN")
      /\ UNCHANGED conn \/ (w # Proxy /\ Set(conn, w, "closed"))
      /\ Set(pc, w, "drain") \/ pc' = [pc EXCEPT ![w] = "drain", ![nextIx] = "poll"]
  BY DEF Idle, noAction, hangup, acceptAction, forwardConnection, spawnNewWorker, sharedVars, queueVars, tableVars
<1>2. UNCHANGED <<exiting, zombieWorkerToSide, workerToSide, roundNumber>>
  BY <1>1 DEF serverVars, seatVars, gameVars
<1>3. ASSUME NEW v \in Workers
      PROVE  /\ ~err'[v] /\ ~armed'[v] /\ pc'[v] \notin {"failed", "quitting", "arm", "lastArm"}
             /\ roles'[v] = "SERVING_PROXY" => v = Proxy
             /\ pc[v] \in Going => pc'[v] \in Going
             /\ v = Proxy => conn'[v] = conn[v]
  BY <1>1 DEF Idle, Calm, Set, setRole, Going, Running, LoopTypes, TableTypes
<1>4. Proxy \in Workers
  BY MgrAssumption DEF Workers, Proxy
<1>5. QED
  BY <1>1, <1>2, <1>3, <1>4 DEF Calm, GameOver

\* nor do those that ask to end,
LEMMA QuitsCalm ==
    ASSUME Running, Streams, Calm, Timeout < 0, NEW w \in Workers, Quits(w)
    PROVE  Calm'
<1>1. PICK work, quit : grandExitCallback(w, err[w], work, quit)
  BY DEF Quits, overflow, askExit, final
<1>2. w = Proxy => GameOver
  BY DEF Quits, askExit, final, Calm, Going
<1>3. /\ exiting' <=> GameOver'
      /\ UNCHANGED <<gameVars, killFlag>>
      /\ \A u \in Workers \ {w} : zombieWorkerToSide'[u] = zombieWorkerToSide[u]
      /\ roles[w] # "SERVING_ACTIVE" => UNCHANGED zombieWorkerToSide
  BY <1>1, <1>2, ExitTreats
<1>4. UNCHANGED roles \/ \E r \in {"CLEANUP", "SHUTDOWN"} : setRole(w, r)
  BY <1>1 DEF grandExitCallback, internalError, playerLeaves, zombieLeaves, strangerLeaves, proxyLeaves, goneAlready,
              leaveOrLinger, leave
<1>5. UNCHANGED workerToSide \/ workerToSide' = [workerToSide EXCEPT ![w] = NoSide]
  BY <1>1 DEF grandExitCallback, internalError, playerLeaves, zombieLeaves, strangerLeaves, proxyLeaves, goneAlready,
              freeSeat, seatVars
<1>6. /\ UNCHANGED <<pin, err>> /\ (UNCHANGED armed \/ Set(armed, w, FALSE))
      /\ UNCHANGED conn \/ (w # Proxy /\ Set(conn, w, "closed"))
      /\ \E x \in {"final", "drain", "poll", "ended"} : Set(pc, w, x)
  <2>1. ~NeedsTimer(w)
    BY LoopAssumption DEF NeedsTimer
  <2>2. CASE overflow(w) /\ w # Proxy /\ UNCHANGED err /\ (UNCHANGED armed \/ Set(armed, w, FALSE))
    BY <2>2 DEF overflow
  <2>3. CASE askExit(w)
    BY <2>1, <2>3 DEF askExit, Refused, LoopOr, Calm
  <2>4. CASE final(w)
    BY <2>4 DEF final
  <2>5. QED
    BY <2>2, <2>3, <2>4 DEF Quits
<1>7. Proxy \in Workers /\ workerToSide[Proxy] = NoSide
  BY MgrAssumption DEF Workers, Proxy, Calm, Handlers
<1>8. roles[Proxy] # "SERVING_ACTIVE"
  BY <1>7 DEF Running, Seats
<1>9. zombieWorkerToSide'[Proxy] = zombieWorkerToSide[Proxy]
  BY <1>3, <1>7, <1>8
<1>10. ASSUME NEW v \in Workers
       PROVE  /\ ~err'[v] /\ ~armed'[v] /\ pc'[v] \notin {"failed", "quitting", "arm", "lastArm"}
              /\ roles'[v] = "SERVING_PROXY" => v = Proxy
              /\ workerToSide'[v] # NoSide => workerToSide'[v] = workerToSide[v]
              /\ v # w => pc'[v] = pc[v] /\ conn'[v] = conn[v]
  <2>1. ~err'[v] /\ ~armed'[v] /\ pc'[v] \notin {"failed", "quitting", "arm", "lastArm"} /\ (v # w => pc'[v] = pc[v] /\ conn'[v] = conn[v])
    BY <1>6 DEF Calm, Set, Running, LoopTypes
  <2>2. roles'[v] = "SERVING_PROXY" => v = Proxy
    BY <1>4 DEF Calm, setRole, Running, TableTypes
  <2>3. workerToSide'[v] # NoSide => workerToSide'[v] = workerToSide[v]
    BY <1>5 DEF Running, SeatTypes
  <2>4. QED
    BY <2>1, <2>2, <2>3
<1>11. QED
  BY <1>2, <1>3, <1>6, <1>7, <1>9, <1>10 DEF Calm, GameOver, gameVars

\* nor those that go on.
LEMMA GoesCalm ==
    ASSUME Running, Calm, Timeout < 0, NEW w \in Workers, Goes(w)
    PROVE  Calm'
<1>1. UNCHANGED <<gameVars, serverVars, roles, killFlag, pin, err>>
  BY DEF Goes, wakeByPipe, drain, sendOne, queueDone, obeyKill, closeConn, sharedVars, tableVars, queueVars
<1>2. UNCHANGED armed \/ Set(armed, w, FALSE)
  <2>1. (Timeout >= 0) = FALSE
    BY LoopAssumption
  <2>2. QED
    BY <2>1 DEF Goes, wakeByPipe, drain, sendOne, queueDone, obeyKill, closeConn
<1>3. ~NeedsTimer(w)
  BY LoopAssumption DEF NeedsTimer
<1>4. ASSUME NEW v \in Workers
      PROVE  /\ ~err'[v] /\ ~armed'[v] /\ pc'[v] \notin {"failed", "quitting", "arm", "lastArm"}
             /\ ~killFlag[v] /\ conn[v] = "open" /\ pc[v] \in Going => conn'[v] = "open" /\ pc'[v] \in Going
  <2>1. ~err'[v] /\ ~armed'[v]
    BY <1>1, <1>2 DEF Calm, Set, Running, LoopTypes
  <2>2. pc[v] \notin {"failed", "quitting", "arm", "lastArm"} /\ v \in DOMAIN pc /\ v \in DOMAIN conn
    BY DEF Calm, Running, LoopTypes
  <2>3. CASE wakeByPipe(w) \/ drain(w)
    BY <2>1, <2>2, <2>3 DEF wakeByPipe, drain, Set, Going
  <2>4. CASE sendOne(w)
    BY <2>1, <2>2, <2>4 DEF sendOne
  <2>5. CASE queueDone(w)
    BY <1>3, <2>1, <2>2, <2>5 DEF queueDone, LoopOr, Set, Going
  <2>6. CASE obeyKill(w) \/ closeConn(w)
    BY <2>1, <2>2, <2>6 DEF obeyKill, closeConn, Set, Going
  <2>7. QED
    BY <2>3, <2>4, <2>5, <2>6 DEF Goes
<1>5. Proxy \in Workers
  BY MgrAssumption DEF Workers, Proxy
<1>6. QED
  BY <1>1, <1>4, <1>5 DEF Calm, GameOver, gameVars, serverVars, seatVars

\* Whoever else moves, the calm remains.
LEMMA SameCalm ==
    ASSUME Calm, UNCHANGED <<gameVars, serverVars, roles, killFlag, threadVars>>
    PROVE  Calm'
BY DEF Calm, GameOver, gameVars, serverVars, seatVars, threadVars

-----------------------------------------------------------------------------
(* What the client hears.                                                  *)

\* What is posted comes last in the stream.
LEMMA PostStream ==
    ASSUME Streams, UNCHANGED <<pout, told>>, NEW u \in Workers, NEW kinds, Posted(u, kinds)
    PROVE  \E ms \in Seq(Letter) : Stream(u)' = Stream(u) \o ms /\ Only(ms, kinds)
<1>1. PICK mail : Mailed(mail) /\ Only(mail[u], kinds)
  BY DEF Posted
<1>2. CASE u \in workers
  <2>1. Stream(u)' = Stream(u) \o mail[u]
    BY <1>1, <1>2, StreamGrows
  <2>2. mail[u] \in Seq(Letter)
    BY <1>1 DEF Mailed
  <2>3. QED
    BY <1>1, <2>1, <2>2
<1>3. CASE u \notin workers
  <2>1. jobs'[u] = jobs[u]
    BY <1>1, <1>3 DEF Mailed
  <2>2. Stream(u)' = Stream(u) /\ Stream(u) \in Seq(Letter)
    BY <2>1, StreamType DEF Stream, Coming
  <2>3. Stream(u)' = Stream(u) \o <<>> /\ <<>> \in Seq(Letter)
    BY <2>2
  <2>4. QED
    BY <2>3, OnlyOne
<1>4. QED
  BY <1>2, <1>3

\* After a handler the client of u has heard, or will hear, no less than it
\* should.
LEMMA HearsOn ==
    ASSUME Running, Streams, NEW u \in Workers, Heard(u), Treats(u), UNCHANGED <<pout, told>>, conn'[u] = conn[u]
    PROVE  /\ Only(Stream(u)', Useful \cup Asking) /\ Only(told'[u], Useful)
           /\ GameOver /\ spoken[u] # 0 /\ (pc'[u] = pc[u] \/ (pc[u] # "lastSend" /\ pc'[u] # "lastSend"))
                => Closing(ToHear(u)', TotalMsg(penalties'))
           /\ ~GameOver /\ GameOver' /\ spoken[u] # 0 /\ pc'[u] # "lastSend" => Closing(ToHear(u)', TotalMsg(penalties'))
<1>0. Stream(u) \in Seq(Letter)
  BY StreamType
<1>1. Only(Stream(u)', Useful \cup Asking)
  <2>1. PICK ms \in Seq(Letter) : Stream(u)' = Stream(u) \o ms /\ Only(ms, Useful \cup Asking)
    BY PostStream DEF Treats
  <2>2. Only(Stream(u), Useful \cup Asking)
    BY DEF Heard
  <2>3. Only(Stream(u) \o ms, Useful \cup Asking)
    BY ONLY <1>0, <2>1, <2>2, OnlyJoin
  <2>4. QED
    BY <2>1, <2>3
<1>2. ASSUME GameOver, spoken[u] # 0, pc'[u] = pc[u] \/ (pc[u] # "lastSend" /\ pc'[u] # "lastSend")
      PROVE  Closing(ToHear(u)', TotalMsg(penalties'))
  <2> DEFINE last == TotalMsg(penalties)
  <2>1. penalties' = penalties /\ Closing(ToHear(u), last) /\ Posted(u, Asking)
    BY <1>2 DEF Heard, Leaving, Treats
  <2>2. CASE conn[u] = "closed" \/ pc[u] = "lastSend"
    BY <1>2, <2>1, <2>2 DEF ToHear
  <2>3. CASE conn[u] # "closed" /\ pc[u] # "lastSend"
    <3>1. ToHear(u) = Stream(u) /\ ToHear(u)' = Stream(u)'
      BY <1>2, <2>3 DEF ToHear
    <3>2. PICK ms \in Seq(Letter) : Stream(u)' = Stream(u) \o ms /\ Only(ms, Asking)
      BY <2>1, PostStream
    <3>3. Closing(Stream(u), last)
      BY <2>1, <3>1
    <3> HIDE DEF last
    <3>4. Closing(Stream(u) \o ms, last)
      BY ONLY <1>0, <3>2, <3>3, ClosingJoin
    <3>5. QED
      BY <2>1, <3>1, <3>2, <3>4 DEF last
  <2>4. QED
    BY <2>2, <2>3
<1>3. ASSUME ~GameOver, GameOver', spoken[u] # 0, pc'[u] # "lastSend"
      PROVE  Closing(ToHear(u)', TotalMsg(penalties'))
  <2>1. roles[u] = "SERVING_ACTIVE" /\ conn[u] = "open"
    BY <1>3 DEF Heard, Playing
  <2>2. PICK mail : Mailed(mail) /\ Closing(mail[u], TotalMsg(penalties'))
    BY <1>3, <2>1 DEF Treats
  <2>3. u \in workers
    BY <2>1 DEF Running, Threads
  <2>4. Stream(u)' = Stream(u) \o mail[u] /\ mail[u] \in Seq(Letter)
    BY <2>2, <2>3, StreamGrows DEF Mailed
  <2>5. Closing(Stream(u) \o mail[u], TotalMsg(penalties'))
    BY ONLY <1>0, <2>2, <2>4, ClosingJoin
  <2>6. ToHear(u)' = Stream(u)'
    BY <1>3, <2>1 DEF ToHear
  <2>7. QED
    BY <2>4, <2>5, <2>6
<1>4. QED
  BY <1>1, <1>2, <1>3 DEF Heard

\* The callback of another thread.
LEMMA OtherHears ==
    ASSUME Running, Streams, Calm, NEW u \in Workers, Loyal(u), Heard(u), Elsewhere(u), Treats(u),
           UNCHANGED <<pout, told>>, spoken'[u] = spoken[u], zombieWorkerToSide'[u] = zombieWorkerToSide[u]
    PROVE  Heard(u)'
<1>1. /\ pin'[u] = pin[u] /\ conn'[u] = conn[u]
      /\ \/ pc'[u] = pc[u] /\ roles'[u] = roles[u]
         \/ pc[u] = "none" /\ roles[u] = "none" /\ pc'[u] = "poll" /\ roles'[u] = "SERVING_UNKNOWN"
  BY DEF Elsewhere, Running, Threads
<1>2. pc'[u] = pc[u] \/ (pc[u] # "lastSend" /\ pc'[u] # "lastSend")
  BY <1>1
<1>3. ~GameOver' => Playing(u)'
  BY <1>1 DEF Treats, Heard, Playing, Going
<1>4. GameOver' /\ spoken[u] # 0 => Leaving(u)'
  <2>1. CASE GameOver /\ spoken[u] # 0
    BY <1>1, <1>2, <2>1, HearsOn DEF Heard, Leaving
  <2>2. CASE ~GameOver /\ GameOver' /\ spoken[u] # 0
    <3>1. Playing(u)
      BY <2>2 DEF Heard
    <3>2. pc'[u] # "lastSend"
      BY <1>1, <3>1 DEF Playing, Going
    <3>3. QED
      BY <1>1, <2>2, <3>1, <3>2, HearsOn DEF Playing, Leaving
  <2>3. QED
    BY <2>1, <2>2
<1>5. GameOver' /\ spoken[u] = 0 => Wants[u] = {}
  <2> SUFFICES ASSUME ~GameOver, GameOver', spoken[u] = 0, NEW s \in Wants[u]
               PROVE  FALSE
    BY DEF Heard
  <2>1. s \in Sides
    BY LoopAssumption DEF Loyal
  <2>2. ~Incomplete
    BY DEF Treats
  <2>3. activeSides[s] # NoWorker /\ roles[activeSides[s]] \notin {"none", "SERVING_UNKNOWN"}
    BY <2>1, <2>2, EverySeat, NobodyThere
  <2>4. activeSides[s] = u
    BY <2>1, <2>3, OwnSeats
  <2>5. QED
    BY <2>3, <2>4 DEF Heard, Playing
<1>6. QED
  BY <1>1, <1>3, <1>4, <1>5, HearsOn DEF Heard

\* The callback for a message of its own.
LEMMA OwnHears ==
    ASSUME Running, InStep, Streams, Laid, Calm, Counted, NEW u \in Workers, Loyal(u), Heard(u), Spoke(u)
    PROVE  Heard(u)'
<1>1. PICK m : process(u, m) /\ ((m = pin[u] /\ m # None /\ UNCHANGED spoken) \/ (m \in Says(u) /\ Set(spoken, u, spoken[u] + 1)))
  BY DEF Spoke
<1>2. PICK done \in BOOLEAN :
        /\ callback(m, u, done)
        /\ Set(pin, u, IF done THEN None ELSE m)
        /\ Set(conn, u, IF done /\ m.type = "BAD" THEN "quit" ELSE conn[u])
        /\ Set(pc, u, "drain")
  BY <1>1 DEF process
<1>3. u # Proxy /\ u \notin Rude /\ pc[u] \in {"poll", "socket"} /\ conn[u] = "open" /\ UNCHANGED <<pout, told>>
  BY DEF Loyal, Handlers, Spoke
<1>4. roles[u] # "none"
  BY <1>3 DEF Running, Threads
<1>5. m.type \in {"IAM", "TRICK"} /\ Timed(u, m) /\ Fit(u, m) /\ (m.type = "IAM" <=> spoken[u] = 0) /\ spoken'[u] # 0
  <2>1. spoken[u] # 0 => roles[u] # "SERVING_UNKNOWN"
    BY DEF Heard, Playing, Leaving
  <2>2. CASE m = pin[u] /\ m # None /\ UNCHANGED spoken
    <3>1. m.type = "TRICK" /\ spoken[u] # 0
      BY <2>2 DEF Heard
    <3>2. QED
      BY <2>1, <2>2, <3>1 DEF Timed, Fit
  <2>3. CASE m \in Says(u) /\ Set(spoken, u, spoken[u] + 1)
    <3>1. spoken'[u] # 0
      BY <2>3 DEF Set, Counted
    <3>2. m \in KierkiSays(u) /\ Fit(u, m)
      BY <1>3, <2>3, SaysFit DEF Says
    <3>3. CASE spoken[u] = 0
      <4>1. m.type = "IAM" /\ Wants[u] # {}
        BY <3>2, <3>3 DEF KierkiSays, Iam
      <4>2. ~GameOver /\ roles[u] = "SERVING_UNKNOWN"
        BY <1>4, <3>3, <4>1 DEF Heard, Playing
      <4>3. QED
        BY <3>1, <3>2, <3>3, <4>1, <4>2 DEF Timed
    <3>4. CASE spoken[u] # 0
      <4>1. m.type = "TRICK"
        BY <3>2, <3>4 DEF KierkiSays, TrickC
      <4>2. QED
        BY <2>1, <3>1, <3>2, <3>4, <4>1 DEF Timed
    <3>5. QED
      BY <3>3, <3>4
  <2>4. QED
    BY <1>1, <2>2, <2>3
<1>6. Treats(u) /\ UNCHANGED zombieWorkerToSide /\ roles'[u] = IF m.type = "IAM" THEN "SERVING_ACTIVE" ELSE roles[u]
  BY <1>2, <1>5, CallTreats
<1>7. m.type = "IAM" => UNCHANGED gameVars /\ done
  <2> SUFFICES ASSUME m.type = "IAM"
               PROVE  UNCHANGED gameVars /\ done
    OBVIOUS
  <2>1. playerIntro(m.side, u, done)
    BY <1>2 DEF callback
  <2>2. roles[u] = "SERVING_UNKNOWN"
    BY <1>5 DEF Timed
  <2>3. QED
    BY <2>1, <2>2, IntroKeepsGame DEF playerIntro
<1>8. pin'[u] = None \/ pin'[u].type = "TRICK"
  BY <1>2, <1>5, <1>7 DEF Set, Running, Inputs
<1>9. conn'[u] = "open" /\ conn'[u] = conn[u] /\ pc'[u] = "drain" /\ pc[u] # "lastSend"
  BY <1>2, <1>3, <1>5 DEF Set, Running, LoopTypes
<1>10. m.type = "IAM" => ~GameOver /\ ~GameOver'
  BY <1>5, <1>7 DEF Timed, GameOver, gameVars
<1>11. (GameOver => GameOver') /\ (killFlag'[u] => killFlag[u] \/ GameOver')
  BY <1>6 DEF Treats
<1>12. ~GameOver' => Playing(u)'
  BY <1>5, <1>6, <1>9, <1>11 DEF Heard, Playing, Going
<1>13. GameOver' => Leaving(u)'
  <2> SUFFICES ASSUME GameOver'
               PROVE  Leaving(u)'
    OBVIOUS
  <2>1. m.type = "TRICK" /\ spoken[u] # 0 /\ roles'[u] = roles[u]
    BY <1>5, <1>6, <1>10
  <2>2. roles[u] = "SERVING_ACTIVE" /\ zombieWorkerToSide[u] = NoSide
    BY <1>3, <2>1 DEF Heard, Playing, Leaving
  <2>3. Closing(ToHear(u)', TotalMsg(penalties'))
    BY <1>3, <1>6, <1>9, <2>1, HearsOn
  <2>4. QED
    BY <1>6, <1>9, <2>1, <2>2, <2>3 DEF Leaving
<1>14. Only(Stream(u)', Useful \cup Asking) /\ Only(told'[u], Useful)
  BY <1>3, <1>6, <1>9, HearsOn
<1>15. QED
  BY <1>5, <1>8, <1>12, <1>13, <1>14 DEF Heard

\* Where a client neither loses nor gains anything by a step.
LEMMA SameHeard ==
    ASSUME Running, NEW u \in Workers, Heard(u), UNCHANGED gameVars,
           told'[u] = told[u], conn'[u] = conn[u], pin'[u] = pin[u], spoken'[u] = spoken[u], killFlag'[u] = killFlag[u],
           Stream(u)' = Stream(u) \/ (conn[u] # "open" /\ Only(Stream(u)', Useful \cup Asking)),
           zombieWorkerToSide'[u] = zombieWorkerToSide[u] \/ (conn[u] # "open" /\ spoken[u] # 0),
           \/ pc'[u] = pc[u] /\ roles'[u] = roles[u] /\ pout'[u] = pout[u]
           \/ pc[u] \in Going /\ pc'[u] \in Going /\ roles'[u] = roles[u]
           \/ pc[u] = "none" /\ roles[u] = "none" /\ pc'[u] = "poll" /\ roles'[u] = "SERVING_UNKNOWN"
           \/ conn[u] # "open" /\ roles'[u] \in {roles[u], "CLEANUP", "SHUTDOWN"}
    PROVE  Heard(u)'
<1>1. GameOver' = GameOver /\ penalties' = penalties
  BY DEF GameOver, gameVars
<1>2. ~GameOver => Playing(u)'
  BY DEF Heard, Playing, Going
<1>3. GameOver /\ spoken[u] # 0 => Leaving(u)'
  <2> SUFFICES ASSUME GameOver, spoken[u] # 0
               PROVE  Leaving(u)'
    OBVIOUS
  <2>1. Leaving(u)
    BY DEF Heard
  <2>2. CASE conn[u] = "closed"
    BY <1>1, <2>1, <2>2 DEF Leaving, ToHear
  <2>3. CASE conn[u] = "open"
    <3>1. roles[u] # "none" /\ roles'[u] = roles[u] /\ zombieWorkerToSide'[u] = zombieWorkerToSide[u]
      BY <2>1, <2>3 DEF Leaving
    <3>2. ToHear(u)' = ToHear(u)
      <4>1. Stream(u)' = Stream(u) /\ conn'[u] = "open"
        BY <2>3
      <4>2. (pc'[u] = pc[u] /\ pout'[u] = pout[u]) \/ (pc[u] # "lastSend" /\ pc'[u] # "lastSend")
        BY <2>3, <3>1 DEF Going
      <4>3. told'[u] \o pout'[u] = told[u] \o pout[u] \/ (pc[u] # "lastSend" /\ pc'[u] # "lastSend")
        BY <4>2
      <4>4. QED
        BY <2>3, <4>1, <4>2, <4>3 DEF ToHear
    <3>3. QED
      BY <1>1, <2>1, <2>3, <3>1, <3>2 DEF Leaving
  <2>4. QED
    BY <2>1, <2>2, <2>3 DEF Leaving, Running, LoopTypes
<1>4. spoken[u] = 0 => roles'[u] # "SERVING_ACTIVE" /\ zombieWorkerToSide'[u] = NoSide
  BY DEF Heard
<1>5. Only(Stream(u)', Useful \cup Asking)
  BY DEF Heard
<1>6. QED
  BY <1>1, <1>2, <1>3, <1>4, <1>5 DEF Heard

\* What the client hears moves from what is coming to what it was told; the
\* prompts are answered and forgotten.
LEMMA HeardCloses ==
    ASSUME NEW last, last.type = "TOTAL", NEW t \in Seq(Letter), NEW c \in Seq(Letter), c # <<>>,
           Only(t \o c, Useful \cup Asking), Only(t, Useful), NEW t2,
           CASE Head(c).type = "DEAL" -> t2 = <<Head(c)>>
             [] Head(c).type \in {"TAKEN", "SCORE", "TOTAL", "BUSY"} -> t2 = Append(t, Head(c))
             [] OTHER -> t2 = t
    PROVE  /\ t2 \in Seq(Letter) /\ Only(t2, Useful) /\ Only(t2 \o Tail(c), Useful \cup Asking)
           /\ Closing(t \o c, last) => Closing(t2 \o Tail(c), last)
<1> DEFINE m == Head(c)
           r == Tail(c)
           K == Useful \cup Asking
<1>1. /\ m \in Letter /\ r \in Seq(Letter) /\ <<m>> \in Seq(Letter)
      /\ c = <<m>> \o r /\ Append(t, m) = t \o <<m>>
  BY EmptyLen
<1>2. \/ m.type = "DEAL" /\ t2 = <<m>>
      \/ m.type \in {"TAKEN", "SCORE", "TOTAL", "BUSY"} /\ t2 = t \o <<m>>
      \/ m.type \notin {"DEAL", "TAKEN", "SCORE", "TOTAL", "BUSY"} /\ t2 = t
  BY <1>1
<1>3. (t \o <<m>>) \o r = t \o c
  BY <1>1, Joined
<1> HIDE DEF m, r
<1>4. Only(c, K) /\ Only(r, K) /\ m.type \in K /\ Only(t, K)
  BY ONLY <1>1, Only(t \o c, K), t \in Seq(Letter), c \in Seq(Letter), OnlyJoin, OnlyOne
<1>5. CASE m.type = "DEAL" /\ t2 = <<m>>
  <2>1. ~Only(c, Asking) /\ m.type \in Useful /\ m.type \in K
    <3>1. ~Only(<<m>>, Asking)
      BY <1>5, OnlyOne DEF Asking
    <3>2. QED
      BY <1>1, <1>5, <3>1, OnlyJoin DEF Useful
  <2>2. Only(t2, Useful)
    BY ONLY <1>5, <2>1, OnlyOne
  <2>3. t2 \o r = c
    BY <1>1, <1>5
  <2>4. Closing(t \o c, last) => Closing(c, last)
    BY ONLY <2>1, t \in Seq(Letter), c \in Seq(Letter), ClosingJoin
  <2>5. QED
    BY <1>1, <1>4, <1>5, <2>2, <2>3, <2>4 DEF r
<1>6. CASE m.type \in {"TAKEN", "SCORE", "TOTAL", "BUSY"} /\ t2 = t \o <<m>>
  <2>1. m.type \in Useful
    BY <1>4, <1>6 DEF Useful, Asking
  <2>2. Only(<<m>>, Useful)
    BY ONLY <2>1, OnlyOne
  <2>3. t2 \in Seq(Letter)
    BY <1>1, <1>6, LettersJoin
  <2>4. Only(t2, Useful)
    BY ONLY <1>1, <1>6, <2>2, t \in Seq(Letter), Only(t, Useful), OnlyJoin
  <2>5. t2 \o r = t \o c
    BY ONLY <1>3, <1>6
  <2>6. QED
    BY <2>3, <2>4, <2>5 DEF r
<1>7. CASE m.type \notin {"DEAL", "TAKEN", "SCORE", "TOTAL", "BUSY"} /\ t2 = t
  <2>1. m.type \in Asking /\ m # last
    BY <1>4, <1>7 DEF Useful
  <2>2. Only(t \o r, K)
    BY ONLY <1>1, <1>4, t \in Seq(Letter), OnlyJoin
  <2>3. ~Closing(<<m>>, last)
    BY ONLY <2>1, ClosingOne
  <2>4. Closing(c, last) => Closing(r, last)
    BY ONLY <1>1, <2>3, ClosingJoin
  <2>5. Only(c, Asking) => Only(r, Asking)
    BY ONLY <1>1, OnlyJoin
  <2>6. Closing(t \o c, last) => Closing(t \o r, last)
    BY ONLY <1>1, <2>4, <2>5, t \in Seq(Letter), c \in Seq(Letter), ClosingJoin
  <2>7. QED
    BY <1>7, <2>2, <2>6 DEF r
<1>8. QED
  BY <1>2, <1>5, <1>6, <1>7

\* What a client hears of what is said to it.
LEMMA SendHeard ==
    ASSUME Running, Streams, Calm, NEW u \in Workers, Heard(u), sendOne(u)
    PROVE  Heard(u)'
<1> DEFINE last == TotalMsg(penalties)
           c == pout[u]
<1>0. UNCHANGED <<gameVars, roles, zombieWorkerToSide, killFlag, pc, pin, conn, jobs>>
  BY DEF sendOne, sharedVars, serverVars, seatVars, tableVars, queueVars
<1>1. /\ c \in Seq(Letter) /\ jobs[u] \in Seq(Letter) /\ told[u] \in Seq(Letter) /\ c # <<>>
      /\ pout'[u] = Tail(c) /\ spoken'[u] = spoken[u]
      /\ told'[u] = CASE Head(c).type = "DEAL" -> <<Head(c)>>
                      [] Head(c).type \in {"TAKEN", "SCORE", "TOTAL", "BUSY"} -> Append(told[u], Head(c))
                      [] OTHER -> told[u]
  BY OwnStreams DEF sendOne, MaySend, Hear, Set
<1>2. last.type = "TOTAL" /\ Tail(c) \in Seq(Letter)
  BY <1>1, EmptyLen DEF TotalMsg
<1>3. /\ c \o jobs[u] \in Seq(Letter) /\ c \o jobs[u] # <<>>
      /\ Head(c \o jobs[u]) = Head(c) /\ Tail(c \o jobs[u]) = Tail(c) \o jobs[u]
  BY <1>1, HeadTail
<1>4. Only(told[u], Useful) /\ Only(told[u] \o (c \o jobs[u]), Useful \cup Asking)
  BY DEF Heard, Stream, Coming
<1>5. (CASE Head(c).type = "DEAL" -> told'[u] = <<Head(c)>>
         [] Head(c).type \in {"TAKEN", "SCORE", "TOTAL", "BUSY"} -> told'[u] = Append(told[u], Head(c))
         [] OTHER -> told'[u] = told[u])
  BY ONLY <1>1
<1> HIDE DEF last, c
<1>6. /\ told'[u] \in Seq(Letter) /\ Only(told'[u], Useful) /\ Only(told'[u] \o (Tail(c) \o jobs[u]), Useful \cup Asking)
      /\ Closing(told[u] \o (c \o jobs[u]), last) => Closing(told'[u] \o (Tail(c) \o jobs[u]), last)
  <2> DEFINE d == c \o jobs[u]
  <2>1. d \in Seq(Letter) /\ d # <<>> /\ Head(d) = Head(c) /\ Tail(d) = Tail(c) \o jobs[u]
    BY <1>3
  <2>2. (CASE Head(d).type = "DEAL" -> told'[u] = <<Head(d)>>
           [] Head(d).type \in {"TAKEN", "SCORE", "TOTAL", "BUSY"} -> told'[u] = Append(told[u], Head(d))
           [] OTHER -> told'[u] = told[u])
    BY ONLY <1>5, <2>1
  <2>3. Only(told[u] \o d, Useful \cup Asking)
    BY <1>4
  <2> HIDE DEF d
  <2>4. /\ told'[u] \in Seq(Letter) /\ Only(told'[u], Useful) /\ Only(told'[u] \o Tail(d), Useful \cup Asking)
        /\ Closing(told[u] \o d, last) => Closing(told'[u] \o Tail(d), last)
    BY ONLY <1>1, <1>2, <1>4, <2>1, <2>2, <2>3, HeardCloses
  <2>5. QED
    BY <2>1, <2>4 DEF d
<1>7. Only(told[u] \o c, Useful \cup Asking)
  <2>1. Only(c \o jobs[u], Useful \cup Asking) /\ Only(told[u], Useful \cup Asking)
    BY ONLY <1>1, <1>3, <1>4, OnlyJoin
  <2>2. Only(c, Useful \cup Asking)
    BY ONLY <1>1, <2>1, OnlyJoin
  <2>3. QED
    BY ONLY <1>1, <2>1, <2>2, OnlyJoin
<1>8. Closing(told[u] \o c, last) => Closing(told'[u] \o Tail(c), last)
  BY ONLY <1>1, <1>2, <1>4, <1>5, <1>7, HeardCloses
<1>9. GameOver' = GameOver /\ penalties' = penalties /\ Stream(u)' = told'[u] \o (Tail(c) \o jobs[u])
      /\ Stream(u) = told[u] \o (c \o jobs[u])
  BY <1>0, <1>1 DEF GameOver, gameVars, Stream, Coming, c
<1>10. conn[u] # "closed"
  BY DEF sendOne, MaySend
<1>11. GameOver /\ spoken[u] # 0 => Leaving(u)'
  <2> SUFFICES ASSUME GameOver, spoken[u] # 0
               PROVE  Leaving(u)'
    OBVIOUS
  <2>1. Leaving(u)
    BY DEF Heard
  <2>2. Closing(ToHear(u)', last)
    <3>1. CASE pc[u] = "lastSend"
      <4>1. ToHear(u) = told[u] \o c /\ ToHear(u)' = told'[u] \o Tail(c)
        BY <1>0, <1>1, <1>10, <3>1 DEF ToHear, c
      <4>2. QED
        BY <1>8, <2>1, <4>1 DEF Leaving, last
    <3>2. CASE pc[u] # "lastSend"
      <4>1. ToHear(u) = Stream(u) /\ ToHear(u)' = Stream(u)'
        BY <1>0, <1>10, <3>2 DEF ToHear
      <4>2. QED
        BY <1>6, <1>9, <2>1, <4>1 DEF Leaving, last
    <3>3. QED
      BY <3>1, <3>2
  <2>3. QED
    BY <1>0, <1>9, <2>1, <2>2 DEF Leaving, last
<1>12. ~GameOver => Playing(u)'
  BY <1>0, <1>1 DEF Heard, Playing
<1>13. QED
  BY <1>0, <1>1, <1>6, <1>9, <1>11, <1>12 DEF Heard

\* The thread of such a client goes on until the end of the game.
LEMMA GoesHeard ==
    ASSUME Running, Streams, Calm, Timeout < 0, NEW u \in Workers, Heard(u), Goes(u)
    PROVE  Heard(u)'
<1>1. /\ UNCHANGED <<gameVars, serverVars, tableVars, killFlag, pin>>
      /\ UNCHANGED <<roles, zombieWorkerToSide, exiting>>
  BY DEF Goes, wakeByPipe, drain, sendOne, queueDone, obeyKill, closeConn, sharedVars, serverVars, seatVars, tableVars,
         queueVars
<1>2. /\ u \in DOMAIN pc /\ u \in DOMAIN conn /\ u \in DOMAIN jobs /\ u \in DOMAIN pout
      /\ jobs[u] \in Seq(Letter) /\ pout[u] \in Seq(Letter) /\ told[u] \in Seq(Letter)
  BY OwnStreams
<1>3. CASE wakeByPipe(u)
  <2>1. pc[u] \in Going /\ pc'[u] \in Going /\ UNCHANGED <<told, spoken, jobs, pout, conn>>
    BY <1>2, <1>3 DEF wakeByPipe, Set, Going, clientVars
  <2>2. QED
    BY <1>1, <2>1, SameHeard DEF Stream, Coming
<1>4. CASE drain(u)
  <2>1. pc[u] \in Going /\ pc'[u] \in Going /\ UNCHANGED <<told, spoken, conn>>
    BY <1>2, <1>4 DEF drain, Set, Going, clientVars
  <2>2. pout'[u] = pout[u] \o jobs[u] /\ jobs'[u] = <<>>
    BY <1>2, <1>4 DEF drain, takeJobs, Set
  <2>3. pout'[u] \o jobs'[u] = pout[u] \o jobs[u]
    BY <1>2, <2>2
  <2>4. Stream(u)' = Stream(u)
    BY <2>1, <2>3 DEF Stream, Coming
  <2>5. QED
    BY <1>1, <2>1, <2>4, SameHeard
<1>5. CASE sendOne(u)
  BY <1>5, SendHeard
<1>6. CASE queueDone(u)
  <2>1. ~NeedsTimer(u)
    BY LoopAssumption DEF NeedsTimer
  <2>2. pc[u] \in Going /\ (conn[u] # "open" \/ pc'[u] \in Going) /\ UNCHANGED <<told, spoken, jobs, pout, conn>>
    BY <1>2, <1>6, <2>1 DEF queueDone, LoopOr, Set, Going, clientVars, sharedVars, queueVars
  <2>3. QED
    BY <1>1, <2>2, SameHeard DEF Stream, Coming
<1>7. CASE obeyKill(u)
  <2>1. GameOver /\ GameOver' /\ penalties' = penalties
    BY <1>1, <1>7 DEF Heard, Playing, obeyKill, GameOver, gameVars
  <2>2. pc[u] = "send" /\ pc'[u] = "lastSend" /\ UNCHANGED <<told, spoken, conn>>
    BY <1>2, <1>7 DEF obeyKill, Set, clientVars
  <2>3. pout'[u] = pout[u] \o jobs[u] /\ jobs'[u] = <<>>
    BY <1>2, <1>7 DEF obeyKill, takeJobs, Set
  <2>4. pout'[u] \o jobs'[u] = pout[u] \o jobs[u]
    BY <1>2, <2>3
  <2>5. Stream(u)' = Stream(u)
    BY <2>2, <2>4 DEF Stream, Coming
  <2>6. ToHear(u)' = ToHear(u)
    BY <2>2, <2>3 DEF ToHear, Stream, Coming
  <2>7. QED
    BY <1>1, <2>1, <2>2, <2>5, <2>6 DEF Heard, Leaving
<1>8. CASE closeConn(u)
  <2>1. GameOver /\ GameOver' /\ penalties' = penalties
    BY <1>1, <1>8 DEF Heard, Playing, closeConn, GameOver, gameVars, Going
  <2>2. pc[u] = "lastSend" /\ conn'[u] = "closed" /\ UNCHANGED <<told, spoken, pout, jobs>>
    BY <1>2, <1>8 DEF closeConn, Set, clientVars, sharedVars, queueVars
  <2>3. Stream(u)' = Stream(u)
    BY <2>2 DEF Stream, Coming
  <2>4. conn[u] = "closed" \/ pout[u] = <<>>
    BY <1>8, <2>1 DEF closeConn, MaySend, Suspended, Calm
  <2>5. told[u] \o <<>> = told[u]
    BY <1>2
  <2>6. ToHear(u)' = ToHear(u)
    BY <2>2, <2>4, <2>5 DEF ToHear
  <2>7. QED
    BY <1>1, <2>1, <2>2, <2>3, <2>6 DEF Heard, Leaving
<1>9. QED
  BY <1>3, <1>4, <1>5, <1>6, <1>7, <1>8 DEF Goes

\* It does not hang up by itself,
LEMMA IdleHeard ==
    ASSUME Running, Streams, NEW u \in Workers, Loyal(u), Heard(u), Idle(u)
    PROVE  Heard(u)'
<1>1. u # Proxy /\ u \notin Leavers
  BY DEF Loyal, Handlers
<1>2. ~HangsUp(u)
  <2> SUFFICES ASSUME told[u] # <<>>, told[u][Len(told[u])].type = "BUSY"
               PROVE  FALSE
    BY <1>1 DEF HangsUp
  <2>1. told[u] \in Seq(Letter)
    BY DEF Streams
  <2>2. Len(told[u]) \in DOMAIN told[u]
    BY <2>1, EmptyLen
  <2>3. QED
    BY <2>2 DEF Heard, Only, Useful
<1>3. noAction(u) /\ UNCHANGED pout
  BY <1>1, <1>2 DEF Idle, hangup
<1>4. pc[u] \in Going /\ pc'[u] \in Going
  BY <1>3 DEF Idle, noAction, Set, Going, Running, LoopTypes
<1>5. UNCHANGED <<gameVars, roles, zombieWorkerToSide, killFlag, pin, conn, told, spoken, jobs>>
  BY <1>3 DEF noAction, sharedVars, serverVars, seatVars, tableVars, queueVars, clientVars
<1>6. QED
  BY <1>3, <1>4, <1>5, SameHeard DEF Stream, Coming

\* and when it asks to end its connection is closed.
LEMMA QuitsHeard ==
    ASSUME Running, Awake, Streams, Calm, NEW u \in Workers, Loyal(u), Heard(u), Quits(u)
    PROVE  Heard(u)'
<1>1. u # Proxy /\ u \notin Rude
  BY DEF Loyal, Handlers
<1>2. askExit(u) \/ final(u)
  BY <1>1 DEF Quits, overflow
<1>3. conn[u] # "open" /\ pc[u] # "none"
  BY <1>2 DEF askExit, final, Awake, Wakeful, Calm
<1>4. PICK work, quit : grandExitCallback(u, err[u], work, quit)
  BY <1>2 DEF askExit, final
<1>5. /\ UNCHANGED <<gameVars, killFlag>>
      /\ Treats(u)
      /\ roles[u] # "SERVING_ACTIVE" => UNCHANGED zombieWorkerToSide
      /\ roles'[u] # roles[u] => roles'[u] \in {"CLEANUP", "SHUTDOWN"}
  BY <1>1, <1>4, ExitTreats
<1>6. UNCHANGED <<pin, pout, conn, told, spoken>>
  BY <1>2 DEF askExit, final, clientVars
<1>7. Only(Stream(u)', Useful \cup Asking)
  BY <1>5, <1>6, HearsOn
<1>8. zombieWorkerToSide'[u] = zombieWorkerToSide[u] \/ spoken[u] # 0
  BY <1>5 DEF Heard
<1>9. QED
  BY <1>3, <1>5, <1>6, <1>7, <1>8, SameHeard

\* The others do not touch what is its own.
LEMMA BesideHeard ==
    ASSUME Running, NEW u \in Workers, Heard(u), Elsewhere(u), UNCHANGED gameVars,
           told'[u] = told[u], jobs'[u] = jobs[u], spoken'[u] = spoken[u], killFlag'[u] = killFlag[u],
           zombieWorkerToSide'[u] = zombieWorkerToSide[u]
    PROVE  Heard(u)'
<1>1. /\ pin'[u] = pin[u] /\ conn'[u] = conn[u] /\ pout'[u] = pout[u]
      /\ \/ pc'[u] = pc[u] /\ roles'[u] = roles[u]
         \/ pc[u] = "none" /\ roles[u] = "none" /\ pc'[u] = "poll" /\ roles'[u] = "SERVING_UNKNOWN"
  BY DEF Elsewhere, Running, Threads
<1>2. Stream(u)' = Stream(u)
  BY <1>1 DEF Stream, Coming
<1>3. QED
  BY <1>1, <1>2, SameHeard

\* The step of another thread.
LEMMA OthersHeard ==
    ASSUME Running, InStep, Awake, Streams, Laid, Calm, Counted, NEW u \in Workers, Loyal(u), Heard(u),
           NEW w \in Workers \ {u}, Elsewhere(u), Spoke(w) \/ Idle(w) \/ Quits(w) \/ Goes(w)
    PROVE  Heard(u)'
<1>1. spoken'[u] = spoken[u]
  BY KindsCount DEF Set, Counted
<1>2. CASE Spoke(w)
  <2>1. PICK m : process(w, m) /\ ((m = pin[w] /\ m # None) \/ (m \in Says(w) /\ w # Proxy))
    BY <1>2 DEF Spoke
  <2>2. PICK done \in BOOLEAN : callback(m, w, done)
    BY <2>1 DEF process
  <2>3. Fit(w, m)
    BY <2>1, SaysFit DEF Calm, Fit
  <2>4. Treats(u) /\ UNCHANGED zombieWorkerToSide
    BY <2>2, <2>3, CallTreats
  <2>5. UNCHANGED <<pout, told>>
    BY <1>2 DEF Spoke
  <2>6. QED
    BY <1>1, <2>4, <2>5, OtherHears
<1>3. CASE Idle(w)
  <2>1. UNCHANGED <<gameVars, told, jobs, killFlag, zombieWorkerToSide>>
    BY <1>3 DEF Idle, noAction, hangup, acceptAction, forwardConnection, sharedVars, serverVars, seatVars, queueVars, clientVars
  <2>2. QED
    BY <1>1, <2>1, BesideHeard
<1>4. CASE Quits(w)
  <2>1. PICK work, quit : grandExitCallback(w, err[w], work, quit)
    BY <1>4 DEF Quits, overflow, askExit, final
  <2>2. w = Proxy => GameOver
    BY <1>4 DEF Quits, askExit, final, Calm, Going
  <2>3. Treats(u) /\ zombieWorkerToSide'[u] = zombieWorkerToSide[u]
    BY <2>1, <2>2, ExitTreats
  <2>4. UNCHANGED <<pout, told>>
    BY <1>4 DEF Quits, overflow, askExit, final, clientVars
  <2>5. QED
    BY <1>1, <2>3, <2>4, OtherHears
<1>5. CASE Goes(w)
  <2>1. UNCHANGED <<gameVars, killFlag, zombieWorkerToSide>>
    BY <1>5 DEF Goes, wakeByPipe, drain, sendOne, queueDone, obeyKill, closeConn, sharedVars, serverVars, seatVars, queueVars
  <2>2. /\ UNCHANGED told \/ \E x : Set(told, w, x)
        /\ UNCHANGED jobs \/ \E x : Set(jobs, w, x)
    BY <1>5 DEF Goes, wakeByPipe, drain, sendOne, Hear, queueDone, obeyKill, takeJobs, closeConn, sharedVars, queueVars, clientVars
  <2>3. told'[u] = told[u] /\ jobs'[u] = jobs[u]
    BY <2>2, OwnStreams DEF Set
  <2>4. QED
    BY <1>1, <2>1, <2>3, BesideHeard
<1>6. QED
  BY <1>2, <1>3, <1>4, <1>5

\* The cleaner takes nothing from a client that is there.
LEMMA CleanerHeard ==
    ASSUME Running, Streams, Gone, NEW u \in Workers, Heard(u), cleanerTakes \/ cleanerJoins
    PROVE  Heard(u)'
<1>1. UNCHANGED <<gameVars, serverVars, threadVars, clientVars>>
  BY DEF cleanerTakes, cleanerJoins
<1>2. UNCHANGED <<gameVars, zombieWorkerToSide, pc, pin, pout, conn, told, spoken, roles, killFlag>>
  BY <1>1 DEF serverVars, seatVars, threadVars, clientVars, cleanerTakes, takeFinished, cleanerJoins, joinFinished, tableVars,
              queueVars
<1>3. jobs'[u] = jobs[u] \/ (jobs'[u] = <<>> /\ conn[u] # "open")
  <2>1. \A v \in joining : v \in Workers => conn[v] # "open"
    BY DEF Running, Threads, Gone
  <2>2. QED
    BY <2>1 DEF cleanerTakes, takeFinished, cleanerJoins, joinFinished, queueVars
<1>4. Stream(u)' = Stream(u) \/ (conn[u] # "open" /\ Only(Stream(u)', Useful \cup Asking))
  <2>1. CASE jobs'[u] = jobs[u]
    BY <1>2, <2>1 DEF Stream, Coming
  <2>2. CASE jobs'[u] = <<>> /\ conn[u] # "open"
    <3> DEFINE K == Useful \cup Asking
    <3>1. told[u] \in Seq(Letter) /\ pout[u] \in Seq(Letter) /\ jobs[u] \in Seq(Letter) /\ pout[u] \o jobs[u] \in Seq(Letter)
      BY LettersJoin DEF Streams
    <3>2. Only(told[u] \o (pout[u] \o jobs[u]), K)
      BY DEF Heard, Stream, Coming
    <3>3. Only(told[u], K) /\ Only(pout[u], K)
      BY ONLY <3>1, <3>2, OnlyJoin
    <3>4. Only(told[u] \o pout[u], K)
      BY ONLY <3>1, <3>3, OnlyJoin
    <3>5. pout[u] \o <<>> = pout[u]
      BY <3>1
    <3>6. Stream(u)' = told[u] \o pout[u]
      BY <1>2, <2>2, <3>5 DEF Stream, Coming
    <3>7. QED
      BY <2>2, <3>4, <3>6
  <2>3. QED
    BY <1>3, <2>1, <2>2
<1>5. QED
  BY <1>2, <1>4, SameHeard

\* The inductive invariant.
Faithful == Calm /\ Counted /\ \A u \in Workers : Loyal(u) => Heard(u)

\* Nobody has come yet.
LEMMA InitFaithful == Init => Faithful
<1> SUFFICES ASSUME Init
             PROVE  Faithful
  OBVIOUS
<1>1. /\ roles = [w \in Workers |-> IF w = Proxy THEN "SERVING_PROXY" ELSE "none"]
      /\ pc = [w \in Workers |-> IF w = Proxy THEN "poll" ELSE "none"]
      /\ pin = [w \in Workers |-> None] /\ conn = [w \in Workers |-> "open"]
      /\ err = [w \in Workers |-> FALSE] /\ armed = [w \in Workers |-> FALSE]
      /\ spoken = [w \in Workers |-> 0] /\ killFlag = [w \in Workers |-> FALSE]
      /\ workerToSide = [w \in Workers |-> NoSide] /\ zombieWorkerToSide = [w \in Workers |-> NoSide]
      /\ exiting = FALSE
  BY DEF Init, ServerInit, MgrInit
<1>2. told = [w \in Workers |-> <<>>] /\ pout = [w \in Workers |-> <<>>] /\ jobs = [w \in Workers |-> <<>>]
  BY DEF Init, ServerInit, MgrInit
<1>3. ~GameOver
  BY ScenarioLength DEF Init, ServerInit, GameInit, GameOver
<1>4. Proxy \in Workers
  BY MgrAssumption DEF Workers, Proxy
<1>5. Calm
  BY <1>1, <1>3, <1>4 DEF Calm, Going, None
<1>6. ASSUME NEW u \in Workers, Loyal(u)
      PROVE  Heard(u)
  <2>1. u # Proxy
    BY <1>6 DEF Loyal, Handlers
  <2>2. told[u] = <<>> /\ Stream(u) = <<>>
    <3>1. <<>> \o (<<>> \o <<>>) = <<>>
      OBVIOUS
    <3>2. QED
      BY <1>2, <3>1 DEF Stream, Coming
  <2>3. Only(Stream(u), Useful \cup Asking) /\ Only(told[u], Useful)
    BY <2>2, OnlyOne
  <2>4. Playing(u)
    BY <1>1, <2>1 DEF Playing, Going
  <2>5. QED
    BY <1>1, <1>3, <2>1, <2>3, <2>4 DEF Heard
<1>7. Counted
  BY <1>1 DEF Counted
<1>8. QED
  BY <1>5, <1>6, <1>7 DEF Faithful

\* With the rest it is inductive where nothing fails and no timer runs.
LEMMA StepFaithful ==
    ASSUME Reliable
    PROVE  Running /\ Awake /\ InStep /\ Streams /\ Gone /\ Laid /\ Faithful /\ [Next]_vars => Faithful'
<1> SUFFICES ASSUME Running, Awake, InStep, Streams, Gone, Laid, Faithful, [Next]_vars
             PROVE  Faithful'
  OBVIOUS
<1>0. Calm /\ Counted /\ Timeout < 0
  BY DEF Faithful, Reliable
<1>1. ASSUME NEW w \in Workers, threadStep(w) \/ outside(w) \/ fault(w)
      PROVE  Faithful'
  <2>1. Spoke(w) \/ Idle(w) \/ Quits(w) \/ Goes(w)
    BY <1>0, <1>1, StepKinds
  <2>2. Calm'
    BY <1>0, <2>1, SpokeCalm, IdleCalm, QuitsCalm, GoesCalm
  <2>3. Counted'
    <3>1. UNCHANGED spoken \/ Set(spoken, w, spoken[w] + 1)
      BY <2>1, KindsCount
    <3>2. QED
      BY <1>0, <3>1 DEF Counted, Set
  <2>4. Stays(w)
    BY <1>1, StepStays
  <2>5. ASSUME NEW u \in Workers, Loyal(u)
        PROVE  Heard(u)'
    <3>1. Heard(u)
      BY <2>5 DEF Faithful
    <3>2. CASE u = w
      BY <1>0, <2>1, <2>5, <3>1, <3>2, OwnHears, IdleHeard, QuitsHeard, GoesHeard
    <3>3. CASE u # w
      <4>1. Elsewhere(u) /\ w \in Workers \ {u}
        BY <2>4, <3>3 DEF Stays
      <4>2. QED
        BY <1>0, <2>1, <2>5, <3>1, <4>1, OthersHeard
    <3>4. QED
      BY <3>2, <3>3
  <2>6. QED
    BY <2>2, <2>3, <2>5 DEF Faithful, Loyal
<1>2. CASE cleanerTakes \/ cleanerJoins
  <2>1. UNCHANGED <<gameVars, serverVars, roles, killFlag, threadVars, clientVars>>
    BY <1>2 DEF cleanerTakes, takeFinished, cleanerJoins, joinFinished, tableVars, queueVars
  <2>2. Calm'
    BY <1>0, <2>1, SameCalm
  <2>3. Counted'
    BY <1>0, <2>1 DEF Counted, clientVars
  <2>4. \A u \in Workers : Loyal(u) => Heard(u)'
    BY <1>2, CleanerHeard DEF Faithful
  <2>5. QED
    BY <2>2, <2>3, <2>4 DEF Faithful, Loyal
<1>3. CASE UNCHANGED vars
  <2>1. UNCHANGED <<gameVars, serverVars, roles, killFlag, jobs, threadVars, clientVars>>
    BY <1>3 DEF vars, sharedVars, tableVars, queueVars
  <2>2. Calm'
    BY <1>0, <2>1, SameCalm
  <2>3. Counted'
    BY <1>0, <2>1 DEF Counted, clientVars
  <2>4. ASSUME NEW u \in Workers, Loyal(u)
        PROVE  Heard(u)'
    BY <2>1, <2>4, SameHeard DEF Faithful, Stream, Coming, serverVars, seatVars, threadVars, clientVars
  <2>5. QED
    BY <2>2, <2>3, <2>4 DEF Faithful, Loyal
<1>4. QED
  BY <1>1, <1>2, <1>3 DEF Next

\* It holds in every state.
THEOREM ServerFaithful ==
    ASSUME Reliable
    PROVE  Spec => [](Running /\ Streams /\ Faithful)
<1> DEFINE Known == Running /\ Awake /\ Streams /\ Gone /\ Prompted
           Learnt == Laid /\ EveryoneInformed
<1>1. Spec => []Known
  BY ServerPrompts
<1>2. Spec => []InStep
  BY ServerPlaysGame, StaysInStep, PTL
<1>3. Spec => []Learnt
  BY ServerInforms
<1>4. Init => Faithful
  BY InitFaithful
<1>5. Known /\ InStep /\ Learnt /\ Faithful /\ [Next]_vars => Faithful'
  BY StepFaithful
<1>6. Known => Running /\ Streams
  OBVIOUS
<1>7. QED
  <2> HIDE DEF Known, Learnt
  <2>1. QED
    BY <1>1, <1>2, <1>3, <1>4, <1>5, <1>6, PTL DEF Spec

\* A client that keeps to the rules and stays, and whose sides nobody else
\* asks for, leaves the table when the game is over, and the last thing it was
\* told is the final score: others may be rude or hang up meanwhile.
LoyalHearTotals ==
    \A u \in Workers : Loyal(u) /\ zombieWorkerToSide[u] # NoSide =>
        /\ GameOver
        /\ told[u] # <<>> /\ told[u][Len(told[u])] = TotalMsg(penalties)

\* The kill order at the end of the game overtakes no total: where no call
\* fails and no timer runs every loyal client hears its own.
THEOREM NoTotalOvertaken ==
    ASSUME Reliable
    PROVE  Spec => []LoyalHearTotals
<1>1. ASSUME Streams, Faithful, NEW u \in Workers, Loyal(u), zombieWorkerToSide[u] # NoSide
      PROVE  GameOver /\ told[u] # <<>> /\ told[u][Len(told[u])] = TotalMsg(penalties)
  <2>1. Heard(u) /\ spoken[u] # 0 /\ GameOver /\ Leaving(u)
    BY <1>1 DEF Faithful, Heard, Playing
  <2>2. conn[u] = "closed" /\ Closing(told[u], TotalMsg(penalties))
    BY <1>1, <2>1 DEF Leaving, ToHear
  <2>3. Only(told[u], Useful) /\ told[u] \in Seq(Letter)
    BY <1>1, <2>1 DEF Heard, Streams
  <2>4. PICK i \in DOMAIN told[u] :
          told[u][i] = TotalMsg(penalties) /\ \A k \in i + 1 .. Len(told[u]) : told[u][k].type \in Asking
    BY <2>2 DEF Closing
  <2>5. DOMAIN told[u] = 1 .. Len(told[u]) /\ Len(told[u]) \in Nat /\ told[u] # <<>>
    BY <2>3, <2>4, EmptyLen
  <2>6. i = Len(told[u])
    <3> SUFFICES ASSUME i # Len(told[u])
                 PROVE  FALSE
      OBVIOUS
    <3>1. Len(told[u]) \in i + 1 .. Len(told[u]) /\ Len(told[u]) \in DOMAIN told[u]
      BY <2>4, <2>5
    <3>2. told[u][Len(told[u])].type \in Asking /\ told[u][Len(told[u])].type \in Useful
      BY <2>3, <2>4, <3>1 DEF Only
    <3>3. QED
      BY <3>2 DEF Asking, Useful
  <2>7. QED
    BY <2>1, <2>4, <2>5, <2>6
<1>2. Streams /\ Faithful => LoyalHearTotals
  BY <1>1 DEF LoyalHearTotals
<1>3. Spec => [](Running /\ Streams /\ Faithful)
  BY ServerFaithful
<1>4. QED
  BY <1>2, <1>3, PTL

\* So the exit of its thread leaves its last total unsent to nobody: where
\* every client that does not hang up is loyal, the last thing each of them
\* hears is what the game cost in the end.
THEOREM TotalsAreHeard ==
    ASSUME Reliable, Rude \subseteq Leavers,
           \A u \in Handlers \ Leavers : \A w \in Handlers \ {u} : Wants[w] \cap Wants[u] = {}
    PROVE  Spec => []FinalScores
<1>1. Faithful /\ LoyalHearTotals => FinalScores
  <2> SUFFICES ASSUME Faithful, LoyalHearTotals, NEW u \in Workers, zombieWorkerToSide[u] # NoSide, u \notin Leavers
               PROVE  GameOver /\ told[u] # <<>> /\ told[u][Len(told[u])] = TotalMsg(penalties)
    BY DEF FinalScores
  <2>1. u # Proxy
    BY DEF Faithful, Calm
  <2>2. Loyal(u)
    BY <2>1 DEF Loyal, Handlers
  <2>3. QED
    BY <2>2 DEF LoyalHearTotals
<1>2. Spec => []LoyalHearTotals
  BY NoTotalOvertaken
<1>3. Spec => [](Running /\ Streams /\ Faithful)
  BY ServerFaithful
<1>4. QED
  BY <1>1, <1>2, <1>3, PTL
==============================================================================
