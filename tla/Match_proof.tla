---- MODULE Match_proof ----
(***************************************************************************)
(* Proofs about Match for any number of clients, any finite or infinite    *)
(* tree of positions and any limit: its types, with the legality of the    *)
(* move being sent on, and the series of games the server plays; then the  *)
(* course of each client, with what it reads and the series it plays; and  *)
(* what is told of a game: the log, the results, the copies of the clients.*)
(***************************************************************************)
EXTENDS Match, TLAPS, WellFoundedInduction, FiniteSetTheorems

----
(***************************************************************************)
(* The local variables of a game.                                          *)
(***************************************************************************)

\* A new book has its type, whoever was ready.
LEMMA NewBookType == NewBook \in BookType
BY DEF NewBook, NoBook, BookType

\* Charging a player keeps the book's type (the counters are per client).
LEMMA ChargedType ==
  ASSUME NEW b \in BookType, NEW i \in Clients
  PROVE  Overdue(Charged(b, i), i) \in BookType
<1> DEFINE c == Charged(b, i)
<1>1. c \in BookType
  <2>1. CASE elapsed.manager > Deadline
    <3>1. c = [b EXCEPT !.exceeded = TRUE, !.charged[i] = @ + 1]
      BY <2>1 DEF Charged
    <3>2. [b.charged EXCEPT ![i] = @ + 1] \in [Clients -> Nat]
      BY DEF BookType
    <3>3. QED
      BY <3>1, <3>2 DEF BookType
  <2>2. CASE ~(elapsed.manager > Deadline)
    BY <2>2 DEF Charged
  <2>3. QED
    BY <2>1, <2>2
<1>2. CASE elapsed.asked > Deadline
  <2>1. Overdue(c, i) = [c EXCEPT !.overdue[i] = @ + 1]
    BY <1>2 DEF Overdue
  <2>2. [c.overdue EXCEPT ![i] = @ + 1] \in [Clients -> Nat]
    BY <1>1 DEF BookType
  <2>3. QED
    BY <1>1, <2>1, <2>2 DEF BookType
<1>3. CASE ~(elapsed.asked > Deadline)
  BY <1>1, <1>3 DEF Overdue
<1>4. QED
  BY <1>2, <1>3

\* Counting a move keeps the book's type.
LEMMA CountedType ==
  ASSUME NEW b \in BookType
  PROVE  [b EXCEPT !.moves = @ + 1] \in BookType
<1>1. b.moves + 1 \in Nat
  BY DEF BookType
<1>2. QED
  BY <1>1 DEF BookType

\* Writing to the clients in order: the next target is a client.
LEMMA OnwardTarget ==
  ASSUME target \in Clients, NEW done, Onward(done)
  PROVE  /\ target' \in Clients
         /\ server' \in {server, done}
BY MatchAssumption DEF Onward

----
(***************************************************************************)
(* Types.                                                                  *)
(***************************************************************************)
LEMMA InitType == Init => TypeOK
<1> SUFFICES ASSUME Init PROVE TypeOK
  OBVIOUS
<1>1. NoBook \in BookType
  BY DEF NoBook, BookType
<1>2. target \in Clients
  BY MatchAssumption DEF Init
<1>3. QED
  BY <1>1, <1>2, MatchAssumption DEF Init, TypeOK

\* Steps of the server.
LEMMA ServerType ==
  ASSUME TypeOK, ServerStep
  PROVE  TypeOK'
<1> USE DEF TypeOK, serverVars, clientVars, channels
<1>1. CASE Accept
  BY <1>1, OnwardTarget DEF Accept
<1>2. CASE SendPreamble
  BY <1>2, OnwardTarget DEF SendPreamble
<1>3. ASSUME NEW i \in Clients, HandleReady(i) PROVE TypeOK'
  BY <1>3 DEF HandleReady, Readies
<1>4. CASE AllHandled
  BY <1>4 DEF AllHandled
<1>5. CASE StartGame
  BY <1>5, NewBookType DEF StartGame
<1>6. CASE Shutdown
  BY <1>6 DEF Shutdown
<1>7. CASE AskForMove
  <2>1. book' \in BookType
    BY <1>7 DEF AskForMove, BookType
  <2>2. QED
    BY <1>7, <2>1 DEF AskForMove
<1>8. CASE ReceiveMove
  <2>1. Mover \in Clients
    BY <1>8, MatchAssumption DEF ReceiveMove, MovesAt, Mover
  <2>2. QED
    BY <1>8, <2>1, ChargedType DEF ReceiveMove
<1>9. CASE Broadcast
  BY <1>9, OnwardTarget DEF Broadcast
<1>10. CASE ApplyMove
  <2>1. state' \in DOMAIN Tree
    BY <1>10, MatchAssumption DEF ApplyMove, MovesAt, After
  <2>2. book' \in BookType
    BY <1>10, CountedType DEF ApplyMove
  <2>3. handled' = Clients /\ server' = "turn"
    BY <1>10 DEF ApplyMove
  <2>4. QED
    BY <1>10, <2>1, <2>2, <2>3 DEF ApplyMove
<1>11. CASE EndGame
  BY <1>11, MatchAssumption DEF EndGame
<1>12. CASE SendReset
  BY <1>12, OnwardTarget DEF SendReset
<1>13. CASE ServerFails
  BY <1>13 DEF ServerFails
<1>14. QED
  BY <1>1, <1>2, <1>3, <1>4, <1>5, <1>6, <1>7, <1>8, <1>9, <1>10, <1>11, <1>12, <1>13
     DEF ServerStep

\* Steps of a client, of this repository or of another make.
LEMMA ClientType ==
  ASSUME TypeOK, NEW i \in Clients,
         ClientStep(i) \/ Ready(i) \/ StrangerWrites(i) \/ StrangerLeaves(i)
  PROVE  TypeOK'
<1>1. UNCHANGED serverVars
  BY DEF ClientStep, Initialize, ReadDeadline, PlayMove, ReadMove, GameOver, PythonGameOver,
         NextGameOrLeave, ReadReset,
         ClientFails, Ready, StrangerWrites, StrangerLeaves
<1>2. client' \in [Clients -> {"outside", "preparation", "game", "player", "prepare", "play",
                               "move", "reset", "stranger", "gone"}]
  BY DEF TypeOK, ClientStep, Initialize, ReadDeadline, PlayMove, ReadMove, GameOver, PythonGameOver,
         NextGameOrLeave, ReadReset,
         ClientFails, Ready, StrangerWrites, StrangerLeaves, Become, clientVars
<1>3. replica' \in [Clients -> DOMAIN Tree]
  <2>1. replica \in [Clients -> DOMAIN Tree]
    BY DEF TypeOK
  <2>2. \A m \in MovesAt(replica[i]) : After(replica[i], m) \in DOMAIN Tree
    BY <2>1, MatchAssumption DEF MovesAt, After
  <2>3. QED
    BY <2>1, <2>2, MatchAssumption
       DEF ClientStep, Initialize, ReadDeadline, PlayMove, ReadMove, GameOver, PythonGameOver,
         NextGameOrLeave, ReadReset,
           ClientFails, Ready, StrangerWrites, StrangerLeaves, clientVars
<1>4. replayed' \in [Clients -> Nat]
  BY DEF TypeOK, ClientStep, Initialize, ReadDeadline, PlayMove, ReadMove, GameOver, PythonGameOver,
         NextGameOrLeave, ReadReset,
         ClientFails, Ready, StrangerWrites, StrangerLeaves, clientVars
<1>5. QED
  BY <1>1, <1>2, <1>3, <1>4 DEF TypeOK, BookType, MovesAt, serverVars

\* Every step keeps the types.
LEMMA NextType == TypeOK /\ [Next]_vars => TypeOK'
<1> SUFFICES ASSUME TypeOK, [Next]_vars PROVE TypeOK'
  OBVIOUS
<1>1. CASE ServerStep
  BY <1>1, ServerType
<1>2. ASSUME NEW i \in Clients,
             ClientStep(i) \/ Ready(i) \/ StrangerWrites(i) \/ StrangerLeaves(i)
      PROVE  TypeOK'
  BY <1>2, ClientType
<1>3. CASE Tick
  BY <1>3 DEF Tick, TypeOK, BookType, MovesAt, serverVars, clientVars
<1>4. CASE Done \/ UNCHANGED vars
  BY <1>4 DEF Done, vars, TypeOK, BookType, MovesAt, serverVars, clientVars
<1>5. QED
  BY <1>1, <1>2, <1>3, <1>4 DEF Next

\* The state of server and clients has its types for any game and any number
\* of clients; in particular the move that is sent on to the other players and
\* then applied is a legal one, whatever was read (server.h:159).
THEOREM TypeCorrect == Spec => []TypeOK
<1>1. Init => TypeOK
  BY InitType
<1>2. TypeOK /\ [Next]_vars => TypeOK'
  BY NextType
<1>3. QED
  BY <1>1, <1>2, PTL DEF Spec

----
(***************************************************************************)
(* The server plays a series of games.                                     *)
(***************************************************************************)

\* A game is only played while the limit is not reached.  (The limit is looked
\* at when a game starts, and games are counted when they end.)
WithinLimit ==
  server \in {"turn", "read", "broadcast", "apply"} => games < MaxGames

IInv == TypeOK /\ WithinLimit

\* Every step keeps the bound.
LEMMA WithinLimitStep == WithinLimit /\ [Next]_vars => WithinLimit'
<1> SUFFICES ASSUME WithinLimit, [Next]_vars PROVE WithinLimit'
  OBVIOUS
<1> USE DEF WithinLimit
<1>1. CASE StartGame
  BY <1>1 DEF StartGame, MoreGames
<1>2. CASE EndGame
  BY <1>2 DEF EndGame
<1>3. ASSUME ServerStep, ~StartGame, ~EndGame PROVE WithinLimit'
  BY <1>3 DEF ServerStep, Accept, SendPreamble, HandleReady, AllHandled, Shutdown, AskForMove,
              ReceiveMove, Broadcast, ApplyMove, SendReset, ServerFails, Onward
<1>4. ASSUME NEW i \in Clients,
             ClientStep(i) \/ Ready(i) \/ StrangerWrites(i) \/ StrangerLeaves(i)
      PROVE  WithinLimit'
  BY <1>4 DEF ClientStep, Initialize, ReadDeadline, PlayMove, ReadMove, GameOver, PythonGameOver,
         NextGameOrLeave, ReadReset,
              ClientFails, Ready, StrangerWrites, StrangerLeaves, serverVars
<1>5. CASE Tick
  BY <1>5 DEF Tick, serverVars
<1>6. CASE Done \/ UNCHANGED vars
  BY <1>6 DEF Done, vars, serverVars
<1>7. QED
  BY <1>1, <1>2, <1>3, <1>4, <1>5, <1>6 DEF Next

\* Every step of the system is a step of the series, or none.
LEMMA SeriesStep ==
  IInv /\ [Next]_vars => [ServerSeries!Next]_<<state, games>>
<1> SUFFICES ASSUME TypeOK, WithinLimit, [Next]_vars
             PROVE  ServerSeries!Next \/ UNCHANGED <<state, games>>
  BY DEF IInv
<1>1. CASE ApplyMove
  <2>1. move \in ServerSeries!MovesAt(state)
    BY <1>1 DEF ApplyMove, TypeOK, MovesAt, ServerSeries!MovesAt
  <2>2. state' = ServerSeries!After(state, move) /\ UNCHANGED games
    BY <1>1 DEF ApplyMove, After, ServerSeries!After
  <2>3. games < MaxGames
    BY <1>1 DEF ApplyMove, WithinLimit
  <2>4. ServerSeries!Play
    BY <2>1, <2>2, <2>3 DEF ServerSeries!Play
  <2>5. QED
    BY <2>4 DEF ServerSeries!Next
<1>2. CASE EndGame
  <2>1. ServerSeries!MovesAt(state) = {} /\ state' = Start
    BY <1>2 DEF EndGame, MovesAt, ServerSeries!MovesAt
  <2>2. games < MaxGames
    BY <1>2 DEF EndGame, WithinLimit
  <2>3. games' = games + 1
    BY <1>2 DEF EndGame
  <2>4. ServerSeries!EndGame
    BY <2>1, <2>2, <2>3 DEF ServerSeries!EndGame
  <2>5. QED
    BY <2>4 DEF ServerSeries!Next
<1>3. ASSUME ServerStep, ~ApplyMove, ~EndGame PROVE UNCHANGED <<state, games>>
  BY <1>3 DEF ServerStep, Accept, SendPreamble, HandleReady, AllHandled, StartGame, Shutdown,
              AskForMove, ReceiveMove, Broadcast, SendReset, ServerFails
<1>4. ASSUME NEW i \in Clients,
             ClientStep(i) \/ Ready(i) \/ StrangerWrites(i) \/ StrangerLeaves(i)
      PROVE  UNCHANGED <<state, games>>
  BY <1>4 DEF ClientStep, Initialize, ReadDeadline, PlayMove, ReadMove, GameOver, PythonGameOver,
         NextGameOrLeave, ReadReset,
              ClientFails, Ready, StrangerWrites, StrangerLeaves, serverVars
<1>5. CASE Tick
  BY <1>5 DEF Tick, serverVars
<1>6. CASE Done \/ UNCHANGED vars
  BY <1>6 DEF Done, vars, serverVars
<1>7. QED
  BY <1>1, <1>2, <1>3, <1>4, <1>5, <1>6 DEF Next

\* Whatever the clients do and wherever the server stops, what it played is a
\* series of at most MaxGames games, each from the start to the end by legal
\* moves (server.h:102-237).
THEOREM ServerSeriesPlayed == Spec => ServerPlaysSeries
<1>1. Init => ServerSeries!Init
  BY DEF Init, ServerSeries!Init
<1>2. Init => IInv
  BY InitType DEF IInv, WithinLimit, Init
<1>3. IInv /\ [Next]_vars => IInv'
  BY NextType, WithinLimitStep DEF IInv
<1>4. IInv /\ [Next]_vars => [ServerSeries!Next]_<<state, games>>
  BY SeriesStep
<1>5. QED
  BY <1>1, <1>2, <1>3, <1>4, PTL DEF Spec, ServerPlaysSeries, ServerSeries!Spec

----
(***************************************************************************)
(* The course of a client.  What was sent to it and not read yet is a path *)
(* from where it is in its game to where the server has it: each message   *)
(* can be read where the one before it leads.  TypedReads alone is not     *)
(* inductive, as it is only about the first message.                       *)
(***************************************************************************)
Places == {"over", "play", "move"}

\* A client that is asked for a move has a game left.  (Were there no move at the
\* start, a client could end more games than the server plays.)
Views == {v \in [at : Places, pos : DOMAIN Tree, games : Nat] :
            MovesAt(Start) # {} => /\ v.games <= MaxGames
                                   /\ v.at = "move" => v.games < MaxGames}

\* The n-th game is over; position p in the game after the n-th, of which the
\* client is told next, or of which it was asked for a move.
Over(n)     == [at |-> "over", pos |-> Start, games |-> n]
Seen(p, n)  == IF MovesAt(p) = {} THEN Over(n + 1)
               ELSE [at |-> "play", pos |-> p, games |-> n]
Asked(p, n) == [at |-> "move", pos |-> p, games |-> n]

\* Where a client is in its game.
View(i) == IF client[i] = "move" THEN Asked(replica[i], replayed[i])
           ELSE IF client[i] = "play" THEN Seen(replica[i], replayed[i])
           ELSE Over(replayed[i])

\* Reading the message takes client i from view v to view w.
Takes(i, v, msg, w) ==
  \/ /\ v = Over(v.games) /\ msg = Message("reset") /\ w = Seen(Start, v.games)
  \/ /\ v.at = "play" /\ v.games < MaxGames /\ Tree[v.pos].player = i
     /\ msg = Message("deadline") /\ w = Asked(v.pos, v.games)
  \/ /\ v.at = "play" /\ v.games < MaxGames /\ Tree[v.pos].player # i
     /\ \E m \in MovesAt(v.pos) : msg = MoveMessage(m) /\ w = Seen(After(v.pos, m), v.games)

\* Reading all the messages of q takes it from v to w.
Path(i, q, v, w) ==
  \E p \in [1 .. Len(q) + 1 -> Views] :
    /\ p[1] = v /\ p[Len(q) + 1] = w
    /\ \A n \in 1 .. Len(q) : Takes(i, p[n], q[n], p[n + 1])

\* The server has not written to it yet.
Waiting(i) ==
  /\ client[i] \in {"outside", "preparation"} /\ replica[i] = Start /\ replayed[i] = 0
  /\ toClient[i] = <<>> /\ toServer[i] = <<>>

\* It reads the preamble and prepares.
Preparing(i) ==
  /\ replica[i] = Start /\ replayed[i] = 0 /\ toServer[i] = <<>>
  /\ \/ /\ client[i] = "preparation"
        /\ toClient[i] = <<Message("preparation"), Message("game"), Message("player")>>
     \/ client[i] = "game" /\ toClient[i] = <<Message("game"), Message("player")>>
     \/ client[i] = "player" /\ toClient[i] = <<Message("player")>>
     \/ client[i] = "prepare" /\ toClient[i] = <<>>

\* It plays and will arrive at w, with nothing or one message to be read from it.
InGame(i)       == Playing(i) /\ (client[i] = "reset" => replica[i] = Start)
Follows(i, w)   == InGame(i) /\ Path(i, toClient[i], View(i), w)
Told(i, w)      == Follows(i, w) /\ toServer[i] = <<>>
Sent(i, msg, w) == Follows(i, w) /\ toClient[i] = <<>> /\ toServer[i] = <<msg>>

\* The preamble was written; and a client that left, which is after a game.
Announced(i) == Preparing(i) \/ Sent(i, Message("ready"), Seen(Start, 0))
Left(i)      == Gone(i) /\ toServer[i] = <<>>

\* Where the server's part of the exchange has client i.
Due(i) ==
  /\ server = "accept" =>
       Waiting(i) /\ client[i] = IF i < target THEN "preparation" ELSE "outside"
  /\ server = "preamble" =>
       IF i < target THEN Announced(i) ELSE Waiting(i) /\ client[i] = "preparation"
  /\ server = "ready" =>
       IF i \in handled THEN Told(i, Seen(Start, 0)) ELSE Announced(i)
  /\ server \in {"series", "turn"} => Told(i, Seen(state, games))
  /\ server = "read" =>
       IF i # Mover THEN Told(i, Seen(state, games))
       ELSE \/ Told(i, Asked(state, games))
            \/ \E m \in MovesAt(state) : Sent(i, MoveMessage(m), Seen(After(state, m), games))
  /\ server = "broadcast" =>
       Told(i, IF i = Mover \/ i < target
               THEN Seen(After(state, move), games) ELSE Seen(state, games))
  /\ server = "apply" => Told(i, Seen(After(state, move), games))
  /\ server = "reset" => Told(i, IF i < target THEN Seen(Start, games) ELSE Over(games))

\* Once the server has stopped the path may end anywhere.
Course(i) ==
  IF Stopped
  THEN Gone(i) \/ Waiting(i) \/ Preparing(i) \/ \E w \in Views : Follows(i, w)
  ELSE (server # "accept" /\ Left(i)) \/ Due(i)

\* The server begins each round of writing with the first client.
Rounds ==
  /\ server \in {"ready", "series", "turn", "read", "apply"} => target = 1
  /\ server \in {"accept", "preamble", "ready", "series", "reset"} => state = Start
  /\ server \in {"accept", "preamble"} => handled = {}
  /\ server \in {"accept", "preamble", "ready"} => games = 0
  /\ games <= MaxGames

\* What can be on a connection.
Mail == [kind : {"preparation", "game", "player", "ready", "deadline", "reset",
                 "other5", "junk", "half"}]
          \cup [kind : {"move"}, move : AllMoves]

ChannelsOK == toServer \in [Clients -> Seq(Mail)] /\ toClient \in [Clients -> Seq(Mail)]

CourseInv == /\ TypeOK /\ WithinLimit /\ ChannelsOK /\ Rounds
             /\ \A i \in Honest : Course(i)
             /\ RefusedOnlyStrangers

----
(***************************************************************************)
(* Paths.                                                                  *)
(***************************************************************************)

\* The views are views, as long as the server plays.
LEMMA ViewTypes ==
  ASSUME NEW n \in Nat, n <= MaxGames
  PROVE  /\ Over(n) \in Views /\ Seen(Start, n) \in Views
         /\ n < MaxGames => \A p \in DOMAIN Tree : Seen(p, n) \in Views /\ Asked(p, n) \in Views
<1>1. MaxGames \in Nat /\ Start \in DOMAIN Tree
  BY MatchAssumption
<1>2. Over(n) \in Views
  BY <1>1 DEF Over, Views, Places
<1>3. Seen(Start, n) \in Views
  BY <1>1 DEF Over, Seen, Views, Places
<1>4. ASSUME n < MaxGames, NEW p \in DOMAIN Tree
      PROVE  Seen(p, n) \in Views /\ Asked(p, n) \in Views
  BY <1>1, <1>4 DEF Over, Seen, Asked, Views, Places
<1>5. QED
  BY <1>2, <1>3, <1>4

\* Reading nothing changes nothing.
LEMMA PathNone == ASSUME NEW i, NEW v \in Views PROVE Path(i, <<>>, v, v)
<1> DEFINE p == [n \in 1 .. 1 |-> v]
<1>1. p \in [1 .. Len(<<>>) + 1 -> Views] /\ p[1] = v /\ p[Len(<<>>) + 1] = v
  OBVIOUS
<1>2. \A n \in 1 .. Len(<<>>) : Takes(i, p[n], (<<>>)[n], p[n + 1])
  OBVIOUS
<1>3. QED
  BY <1>1, <1>2 DEF Path

\* And only that.
LEMMA PathEmpty == ASSUME NEW i, NEW v, NEW w, Path(i, <<>>, v, w) PROVE v = w
BY DEF Path

\* A path leads from a view to a view.
LEMMA PathViews ==
  ASSUME NEW S, NEW q \in Seq(S), NEW i, NEW v, NEW w, Path(i, q, v, w)
  PROVE  v \in Views /\ w \in Views
<1>1. Len(q) \in Nat
  OBVIOUS
<1>2. 1 \in 1 .. Len(q) + 1 /\ Len(q) + 1 \in 1 .. Len(q) + 1
  BY <1>1
<1>3. QED
  BY <1>2 DEF Path

\* One more message.
LEMMA PathAppend ==
  ASSUME NEW S, NEW q \in Seq(S), NEW msg \in S, NEW i, NEW v, NEW u, NEW w \in Views,
         Path(i, q, v, u), Takes(i, u, msg, w)
  PROVE  Path(i, Append(q, msg), v, w)
<1>1. PICK p \in [1 .. Len(q) + 1 -> Views] :
        /\ p[1] = v /\ p[Len(q) + 1] = u
        /\ \A n \in 1 .. Len(q) : Takes(i, p[n], q[n], p[n + 1])
  BY DEF Path
<1> DEFINE r == Append(q, msg)
           o == [n \in 1 .. Len(r) + 1 |-> IF n <= Len(q) + 1 THEN p[n] ELSE w]
<1>2. Len(q) \in Nat /\ Len(r) = Len(q) + 1 /\ r[Len(r)] = msg
  OBVIOUS
<1>3. o \in [1 .. Len(r) + 1 -> Views]
  BY <1>1, <1>2
<1>4. o[1] = v /\ o[Len(r) + 1] = w
  BY <1>1, <1>2
<1>5. ASSUME NEW n \in 1 .. Len(r) PROVE Takes(i, o[n], r[n], o[n + 1])
  <2>1. CASE n = Len(r)
    <3>1. o[n] = u /\ o[n + 1] = w
      BY <1>1, <1>2, <2>1
    <3>2. QED
      BY <3>1, <1>2, <2>1
  <2>2. CASE n # Len(r)
    <3>1. n \in 1 .. Len(q) /\ r[n] = q[n]
      BY <1>2, <2>2
    <3>2. o[n] = p[n] /\ o[n + 1] = p[n + 1]
      BY <1>2, <3>1
    <3>3. QED
      BY <1>1, <3>1, <3>2
  <2>3. QED
    BY <2>1, <2>2
<1> HIDE DEF o, r
<1>6. Path(i, r, v, w)
  BY <1>3, <1>4, <1>5 DEF Path
<1>7. QED
  BY <1>6 DEF r

\* The first message is read.
LEMMA PathRead ==
  ASSUME NEW S, NEW q \in Seq(S), q # <<>>, NEW i, NEW v, NEW w, Path(i, q, v, w)
  PROVE  \E u \in Views : Takes(i, v, Head(q), u) /\ Path(i, Tail(q), u, w)
<1>1. PICK p \in [1 .. Len(q) + 1 -> Views] :
        /\ p[1] = v /\ p[Len(q) + 1] = w
        /\ \A n \in 1 .. Len(q) : Takes(i, p[n], q[n], p[n + 1])
  BY DEF Path
<1> DEFINE r == Tail(q)
           o == [n \in 1 .. Len(r) + 1 |-> p[n + 1]]
<1>2. Len(q) \in Nat \ {0} /\ Len(r) = Len(q) - 1 /\ Head(q) = q[1]
  OBVIOUS
<1>3. o \in [1 .. Len(r) + 1 -> Views]
  BY <1>1, <1>2
<1>4. o[1] = p[2] /\ o[Len(r) + 1] = w
  BY <1>1, <1>2
<1>5. ASSUME NEW n \in 1 .. Len(r) PROVE Takes(i, o[n], r[n], o[n + 1])
  <2>1. n + 1 \in 1 .. Len(q) /\ r[n] = q[n + 1]
    BY <1>2
  <2>2. o[n] = p[n + 1] /\ o[n + 1] = p[(n + 1) + 1]
    BY <1>2
  <2>3. QED
    BY <1>1, <2>1, <2>2
<1> HIDE DEF o, r
<1>6. Path(i, r, p[2], w)
  BY <1>3, <1>4, <1>5 DEF Path
<1>7. Takes(i, v, Head(q), p[2])
  <2>1. 1 \in 1 .. Len(q) /\ 1 + 1 = 2
    BY <1>2
  <2>2. Takes(i, p[1], q[1], p[1 + 1])
    BY <1>1, <2>1
  <2>3. QED
    BY <1>1, <1>2, <2>1, <2>2
<1>8. p[2] \in Views
  BY <1>1, <1>2
<1>9. QED
  BY <1>6, <1>7, <1>8 DEF r

\* Only the end of a game is read after a game.
LEMMA ReadAtOver ==
  ASSUME NEW S, NEW q \in Seq(S), q # <<>>, NEW i, NEW w, NEW n, Path(i, q, Over(n), w)
  PROVE  Head(q) = Message("reset") /\ Path(i, Tail(q), Seen(Start, n), w)
<1>1. PICK u \in Views : Takes(i, Over(n), Head(q), u) /\ Path(i, Tail(q), u, w)
  BY PathRead
<1>2. Over(n).at # "play" /\ Over(n).games = n
  BY DEF Over
<1>3. QED
  BY <1>1, <1>2 DEF Takes

\* Only the deadline is read by the player to move.
LEMMA ReadAtTurn ==
  ASSUME NEW S, NEW q \in Seq(S), q # <<>>, NEW i, NEW w, NEW p, NEW n, MovesAt(p) # {},
         Path(i, q, Seen(p, n), w), Tree[p].player = i
  PROVE  Head(q) = Message("deadline") /\ Path(i, Tail(q), Asked(p, n), w)
<1>1. PICK u \in Views : Takes(i, Seen(p, n), Head(q), u) /\ Path(i, Tail(q), u, w)
  BY PathRead
<1>2. /\ Seen(p, n).at = "play" /\ Seen(p, n).pos = p /\ Seen(p, n).games = n
      /\ \A k : Seen(p, n) # Over(k)
  BY DEF Over, Seen
<1>3. QED
  BY <1>1, <1>2 DEF Takes

\* Only a legal move, while there are games to play, is read by the others.
LEMMA ReadAtMove ==
  ASSUME NEW S, NEW q \in Seq(S), q # <<>>, NEW i, NEW w, NEW p, NEW n, MovesAt(p) # {},
         Path(i, q, Seen(p, n), w), Tree[p].player # i
  PROVE  /\ n < MaxGames
         /\ \E m \in MovesAt(p) : /\ Head(q) = MoveMessage(m)
                                  /\ Path(i, Tail(q), Seen(After(p, m), n), w)
<1>1. PICK u \in Views : Takes(i, Seen(p, n), Head(q), u) /\ Path(i, Tail(q), u, w)
  BY PathRead
<1>2. /\ Seen(p, n).at = "play" /\ Seen(p, n).pos = p /\ Seen(p, n).games = n
      /\ \A k : Seen(p, n) # Over(k)
  BY DEF Over, Seen
<1>3. QED
  BY <1>1, <1>2 DEF Takes

\* Nothing is sent to a client that was asked for its move.
LEMMA ReadAtAsked ==
  ASSUME NEW S, NEW q \in Seq(S), NEW i, NEW w, NEW p, NEW n, Path(i, q, Asked(p, n), w)
  PROVE  q = <<>> /\ w = Asked(p, n)
<1>1. Asked(p, n).at = "move" /\ \A k : Asked(p, n) # Over(k)
  BY DEF Over, Asked
<1>2. ASSUME q # <<>> PROVE FALSE
  <2>1. PICK u \in Views : Takes(i, Asked(p, n), Head(q), u)
    BY <1>2, PathRead
  <2>2. QED
    BY <1>1, <2>1 DEF Takes
<1>3. QED
  BY <1>2, PathEmpty

----
(***************************************************************************)
(* One client: what each step of its own does to its course.               *)
(***************************************************************************)

\* The messages are among those of the protocol.
LEMMA Mails ==
  /\ \A kind \in {"preparation", "game", "player", "ready", "deadline", "reset",
                  "other5", "junk", "half"} : Message(kind) \in Mail
  /\ \A p \in DOMAIN Tree : \A m \in MovesAt(p) : MoveMessage(m) \in Mail
<1>1. \A p \in DOMAIN Tree : \A m \in MovesAt(p) : m \in AllMoves
  BY DEF AllMoves
<1>2. QED
  BY <1>1 DEF Mail, Message, MoveMessage

\* Writing to a client, that is to its end of the connection.
LEMMA Written ==
  ASSUME ChannelsOK, NEW i, NEW msg \in Mail, Write(i, msg)
  PROVE  /\ toClient' \in [Clients -> Seq(Mail)]
         /\ \A j \in Clients : toClient'[j] = IF j = i /\ ~Gone(j) /\ j \notin Strangers
                                            THEN Append(toClient[j], msg) ELSE toClient[j]
<1>1. toClient \in [Clients -> Seq(Mail)]
  BY DEF ChannelsOK
<1>2. CASE Gone(i) \/ i \in Strangers
  <2>1. toClient' = toClient
    BY <1>2 DEF Write
  <2>2. QED
    BY <1>1, <1>2, <2>1
<1>3. CASE ~(Gone(i) \/ i \in Strangers)
  <2>1. toClient' = [toClient EXCEPT ![i] = Append(@, msg)]
    BY <1>3 DEF Write
  <2>2. \A j \in Clients : Append(toClient[j], msg) \in Seq(Mail)
    BY <1>1
  <2>3. toClient' \in [Clients -> Seq(Mail)]
    BY <1>1, <2>1, <2>2
  <2>4. ASSUME NEW j \in Clients
        PROVE  toClient'[j] = IF j = i THEN Append(toClient[j], msg) ELSE toClient[j]
    BY <1>1, <2>1
  <2>5. QED
    BY <1>3, <2>3, <2>4
<1>4. QED
  BY <1>2, <1>3

\* Reading takes the first message off a connection.
LEMMA Taken ==
  ASSUME NEW f \in [Clients -> Seq(Mail)], NEW i \in Clients, f[i] # <<>>
  PROVE  [f EXCEPT ![i] = Tail(@)] \in [Clients -> Seq(Mail)]
<1>1. Tail(f[i]) \in Seq(Mail)
  OBVIOUS
<1>2. QED
  BY <1>1

\* Every step of the server keeps the channels.
LEMMA ServerChannels ==
  ASSUME TypeOK, ChannelsOK, ServerStep
  PROVE  ChannelsOK'
<1>1. CASE SendPreamble
  <2>1. toClient[target] \o <<Message("preparation"), Message("game"), Message("player")>>
          \in Seq(Mail)
    BY Mails DEF TypeOK, ChannelsOK
  <2>2. QED
    BY <1>1, <2>1 DEF SendPreamble, TypeOK, ChannelsOK
<1>2. ASSUME NEW i \in Clients, HandleReady(i) PROVE ChannelsOK'
  <2>1. UNCHANGED toClient
    BY <1>2 DEF HandleReady
  <2>2. \/ UNCHANGED toServer
        \/ toServer[i] # <<>> /\ toServer' = [toServer EXCEPT ![i] = Tail(@)]
    BY <1>2 DEF HandleReady
  <2>3. CASE UNCHANGED toServer
    BY <2>1, <2>3 DEF ChannelsOK
  <2>4. CASE toServer[i] # <<>> /\ toServer' = [toServer EXCEPT ![i] = Tail(@)]
    BY <2>1, <2>4, Taken DEF ChannelsOK
  <2>5. QED
    BY <2>2, <2>3, <2>4
<1>3. CASE AskForMove
  <2>1. Message("deadline") \in Mail
    BY Mails
  <2>2. Write(Mover, Message("deadline")) /\ UNCHANGED toServer
    BY <1>3 DEF AskForMove
  <2>3. QED
    BY <2>1, <2>2, Written DEF ChannelsOK
<1>4. CASE ReceiveMove
  <2>1. Mover \in Clients
    BY <1>4, MatchAssumption DEF ReceiveMove, TypeOK, MovesAt, Mover
  <2>2. /\ UNCHANGED toClient
        /\ toServer[Mover] # <<>> /\ toServer' = [toServer EXCEPT ![Mover] = Tail(@)]
    BY <1>4 DEF ReceiveMove
  <2>3. QED
    BY <2>1, <2>2, Taken DEF ChannelsOK
<1>5. CASE Broadcast
  <2>1. MoveMessage(move) \in Mail
    BY <1>5, Mails DEF Broadcast, TypeOK
  <2>2. UNCHANGED toServer /\ (UNCHANGED toClient \/ Write(target, MoveMessage(move)))
    BY <1>5 DEF Broadcast
  <2>3. QED
    BY <2>1, <2>2, Written DEF ChannelsOK
<1>6. CASE SendReset
  <2>1. Message("reset") \in Mail
    BY Mails
  <2>2. Write(target, Message("reset")) /\ UNCHANGED toServer
    BY <1>6 DEF SendReset
  <2>3. QED
    BY <2>1, <2>2, Written DEF ChannelsOK
<1>7. CASE Accept \/ AllHandled \/ StartGame \/ Shutdown \/ ApplyMove \/ EndGame \/ ServerFails
  BY <1>7 DEF Accept, AllHandled, StartGame, Shutdown, ApplyMove, EndGame, ServerFails,
              ChannelsOK, channels
<1>8. QED
  BY <1>1, <1>2, <1>3, <1>4, <1>5, <1>6, <1>7 DEF ServerStep

\* Every step of a client keeps them.
LEMMA ClientChannels ==
  ASSUME TypeOK, ChannelsOK, NEW i \in Clients,
         ClientStep(i) \/ Ready(i) \/ StrangerWrites(i) \/ StrangerLeaves(i)
  PROVE  ChannelsOK'
<1> USE DEF ChannelsOK, channels
<1>1. CASE Initialize(i) \/ ReadDeadline(i) \/ ReadMove(i) \/ PythonGameOver(i) \/ ReadReset(i)
  <2>1. Receive(i) /\ UNCHANGED toServer
    BY <1>1 DEF Initialize, ReadDeadline, ReadMove, PythonGameOver, ReadReset
  <2>2. QED
    BY <2>1, Taken DEF Receive
<1>2. CASE GameOver(i) \/ ClientFails(i)
  BY <1>2 DEF GameOver, ClientFails
<1>3. CASE PlayMove(i)
  <2>1. PICK m \in MovesAt(replica[i]) : Send(i, MoveMessage(m)) /\ UNCHANGED toClient
    BY <1>3 DEF PlayMove
  <2>2. MoveMessage(m) \in Mail
    BY Mails DEF TypeOK
  <2>3. QED
    BY <2>1, <2>2 DEF Send
<1>4. CASE Ready(i)
  BY <1>4, Mails DEF Ready, Send
<1>5. CASE StrangerWrites(i)
  <2>1. PICK msg \in Stray : Send(i, msg) /\ UNCHANGED toClient
    BY <1>5 DEF StrangerWrites
  <2>2. msg \in Mail
    BY DEF Stray, Mail, Message, MoveMessage
  <2>3. QED
    BY <2>1, <2>2 DEF Send
<1>6. CASE StrangerLeaves(i)
  <2>1. PICK n \in 0 .. Len(toServer[i]) :
          toServer' = [toServer EXCEPT ![i] = SubSeq(@, 1, n)] /\ UNCHANGED toClient
    BY <1>6 DEF StrangerLeaves
  <2>2. SubSeq(toServer[i], 1, n) \in Seq(Mail)
    OBVIOUS
  <2>3. QED
    BY <2>1, <2>2
<1>7. QED
  BY <1>1, <1>2, <1>3, <1>4, <1>5, <1>6 DEF ClientStep

\* What is said of a client depends on nothing but its own state, its copy of
\* the game and its connection.
LEMMA SameClient ==
  ASSUME NEW i, client'[i] = client[i], replica'[i] = replica[i], replayed'[i] = replayed[i],
         toClient'[i] = toClient[i], toServer'[i] = toServer[i]
  PROVE  /\ Gone(i)' <=> Gone(i)
         /\ Left(i)' <=> Left(i)
         /\ Waiting(i)' <=> Waiting(i)
         /\ Preparing(i)' <=> Preparing(i)
         /\ \A w : Follows(i, w)' <=> Follows(i, w)
         /\ \A w : Told(i, w)' <=> Told(i, w)
         /\ \A msg, w : Sent(i, msg, w)' <=> Sent(i, msg, w)
<1>1. View(i)' = View(i)
  BY DEF View
<1>2. InGame(i)' <=> InGame(i)
  BY DEF InGame, Playing
<1>3. \A w : Follows(i, w)' <=> Follows(i, w)
  BY <1>1, <1>2 DEF Follows
<1>4. QED
  BY <1>3 DEF Gone, Left, Waiting, Preparing, Told, Sent

\* The views are told apart.
LEMMA ViewsDiffer ==
  /\ \A p, q, m, n : Seen(p, m) # Asked(q, n) /\ Over(m) # Asked(q, n)
  /\ \A p, q, m, n : Asked(p, m) = Asked(q, n) => p = q /\ m = n
<1>1. \A q, n : Asked(q, n).at = "move" /\ Asked(q, n).pos = q /\ Asked(q, n).games = n
  BY DEF Asked
<1>2. \A p, n : Seen(p, n).at # "move" /\ Over(n).at # "move"
  BY DEF Seen, Over
<1>3. QED
  BY <1>1, <1>2

\* A client is only at one place.
LEMMA OnePlace ==
  ASSUME NEW i, Playing(i)
  PROVE  ~Gone(i) /\ ~Waiting(i) /\ ~Preparing(i) /\ ~Left(i)
BY DEF Playing, Gone, Waiting, Preparing, Left

\* A step of a client that plays, which writes nothing.
LEMMA SilentStep ==
  ASSUME TypeOK, NEW i, Course(i), Playing(i), UNCHANGED serverVars,
         toServer'[i] = toServer[i],
         toClient[i] = <<>> => toClient'[i] = <<>> /\ ~Gone(i)',
         \A w : Follows(i, w) => Follows(i, w)' \/ Gone(i)'
  PROVE  Course(i)'
<1>1. /\ server' = server /\ target' = target /\ state' = state /\ move' = move
      /\ handled' = handled /\ games' = games
  BY DEF serverVars
<1>2. ~Gone(i) /\ ~Waiting(i) /\ ~Preparing(i) /\ ~Left(i)
  BY OnePlace
<1>3. CASE Stopped
  <2>1. Stopped'
    BY <1>1, <1>3 DEF Stopped
  <2>2. PICK w \in Views : Follows(i, w)
    BY <1>2, <1>3 DEF Course
  <2>3. QED
    BY <2>1, <2>2 DEF Course
<1>4. CASE ~Stopped
  <2>1. ~Stopped' /\ Due(i)
    BY <1>1, <1>2, <1>4 DEF Stopped, Course
  <2>2. server # "accept"
    BY <1>2, <2>1 DEF Due
  <2>3. CASE Gone(i)'
    <3>1. toClient[i] # <<>>
      BY <2>3
    <3>2. \A msg, w : ~Sent(i, msg, w)
      BY <3>1 DEF Sent
    <3>3. server \in {"preamble", "ready", "series", "turn", "read", "broadcast", "apply", "reset"}
      BY <2>2, <1>4 DEF TypeOK, Stopped
    <3>4. \E w : Told(i, w)
      BY <1>2, <2>1, <3>2, <3>3 DEF Due, Announced
    <3>5. Left(i)'
      BY <2>3, <3>4 DEF Left, Told
    <3>6. QED
      BY <1>1, <2>1, <2>2, <3>5 DEF Course
  <2>4. CASE ~Gone(i)'
    <3>1. \A w : Told(i, w) => Told(i, w)'
      BY <2>4 DEF Told
    <3>2. \A msg, w : Sent(i, msg, w) => Sent(i, msg, w)'
      BY <2>4 DEF Sent
    <3>3. Due(i)'
      BY <1>1, <1>2, <2>1, <3>1, <3>2 DEF Due, Announced, Mover
    <3>4. QED
      BY <2>1, <3>3 DEF Course
  <2>5. QED
    BY <2>3, <2>4
<1>5. QED
  BY <1>3, <1>4

\* What a client reads takes it along its path.
LEMMA ReadStep ==
  ASSUME TypeOK, ChannelsOK, NEW i \in Clients, Course(i), Playing(i),
         ReadDeadline(i) \/ ReadMove(i) \/ PythonGameOver(i) \/ ReadReset(i)
  PROVE  Course(i)'
<1> DEFINE q == toClient[i]
           p == replica[i]
           n == replayed[i]
<1>1. q \in Seq(Mail) /\ q # <<>> /\ toClient'[i] = Tail(q)
  BY DEF ReadDeadline, ReadMove, PythonGameOver, ReadReset, Receive, ChannelsOK
<1>2. UNCHANGED serverVars /\ toServer' = toServer
  BY DEF ReadDeadline, ReadMove, PythonGameOver, ReadReset
<1> HIDE DEF q, p, n
<1>3. ASSUME NEW w, Follows(i, w) PROVE Follows(i, w)' \/ Gone(i)'
  <2>1. Path(i, q, View(i), w)
    BY <1>3 DEF Follows, q
  <2> SUFFICES ASSUME ~Gone(i)'
               PROVE  InGame(i)' /\ Path(i, Tail(q), View(i)', w)
    BY <1>1 DEF Follows
  <2>2. CASE ReadDeadline(i)
    <3>1. View(i) = Seen(p, n) /\ MovesAt(p) # {} /\ Tree[p].player = i
      BY <2>2 DEF ReadDeadline, MyTurn, View, p, n
    <3>2. View(i)' = Asked(p, n) /\ InGame(i)'
      BY <2>2 DEF ReadDeadline, Become, TypeOK, View, InGame, Playing, p, n
    <3>3. QED
      BY <1>1, <2>1, <3>1, <3>2, ReadAtTurn
  <2>3. CASE ReadMove(i)
    <3>1. View(i) = Seen(p, n) /\ MovesAt(p) # {} /\ Tree[p].player # i
      BY <2>3 DEF ReadMove, NotMyTurn, View, p, n
    <3>2. PICK m \in MovesAt(p) :
            Head(q) = MoveMessage(m) /\ Path(i, Tail(q), Seen(After(p, m), n), w)
      BY <1>1, <2>1, <3>1, ReadAtMove
    <3>3. DecodeMove(Head(q)) = {m}
      BY <3>2 DEF DecodeMove, MoveMessage
    <3>4. replica' = [replica EXCEPT ![i] = After(@, m)] /\ UNCHANGED client
      BY <2>3, <3>2, <3>3 DEF ReadMove, p, q
    <3>5. View(i)' = Seen(After(p, m), n) /\ InGame(i)'
      BY <2>3, <3>4 DEF ReadMove, TypeOK, View, InGame, Playing, p, n
    <3>6. QED
      BY <3>2, <3>5
  <2>4. CASE PythonGameOver(i)
    <3>1. View(i) = Over(n + 1)
      BY <2>4 DEF PythonGameOver, View, Seen, n
    <3>2. client'[i] = "play" /\ replica'[i] = Start /\ replayed'[i] = n + 1
      BY <2>4 DEF PythonGameOver, NextGameOrLeave, Become, TypeOK, Gone, n
    <3>3. View(i)' = Seen(Start, n + 1) /\ InGame(i)'
      BY <3>2 DEF View, InGame, Playing
    <3>4. QED
      BY <1>1, <2>1, <3>1, <3>3, ReadAtOver
  <2>5. CASE ReadReset(i)
    <3>1. View(i) = Over(n)
      BY <2>5 DEF ReadReset, View, n
    <3>2. client'[i] = "play" /\ replica'[i] = Start /\ replayed'[i] = n
      BY <1>3, <2>5 DEF ReadReset, NextGameOrLeave, Become, TypeOK, Gone, Follows, InGame, n
    <3>3. View(i)' = Seen(Start, n) /\ InGame(i)'
      BY <3>2 DEF View, InGame, Playing
    <3>4. QED
      BY <1>1, <2>1, <3>1, <3>3, ReadAtOver
  <2>6. QED
    BY <2>2, <2>3, <2>4, <2>5
<1>4. QED
  BY <1>1, <1>2, <1>3, SilentStep DEF q

\* A client that ends its game is where it was: before the start of the next.
LEMMA GameOverStep ==
  ASSUME TypeOK, NEW i \in Clients, Course(i), GameOver(i)
  PROVE  Course(i)'
<1> PICK n : n = replayed[i] + 1
  OBVIOUS
<1>1. View(i) = Over(n) /\ Playing(i)
  BY DEF GameOver, View, Seen, Playing
<1>2. client'[i] = "reset" /\ replica'[i] = Start /\ replayed'[i] = n
  BY DEF GameOver, Become, TypeOK
<1>3. View(i)' = Over(n) /\ InGame(i)' /\ ~Gone(i)'
  BY <1>2 DEF View, InGame, Playing, Gone
<1>4. UNCHANGED serverVars /\ UNCHANGED channels
  BY DEF GameOver
<1>5. \A w : Follows(i, w) => Follows(i, w)'
  BY <1>1, <1>3, <1>4 DEF Follows, channels
<1>6. QED
  BY <1>1, <1>3, <1>4, <1>5, SilentStep DEF channels

\* A client that has not begun to play.
LEMMA OpeningStep ==
  ASSUME TypeOK, ChannelsOK, NEW i \in Clients, Course(i), Initialize(i) \/ Ready(i)
  PROVE  Course(i)'
<1>1. UNCHANGED serverVars /\ UNCHANGED replica /\ UNCHANGED replayed
  BY DEF Initialize, Ready, clientVars
<1>2. /\ server' = server /\ target' = target /\ state' = state /\ move' = move
      /\ handled' = handled /\ games' = games /\ (Stopped' <=> Stopped)
  BY <1>1 DEF serverVars, Stopped
<1>3. /\ ~Gone(i) /\ ~Playing(i) /\ client[i] # "outside"
      /\ client[i] = "preparation" => toClient[i] # <<>>
  BY DEF Initialize, Ready, Gone, Playing, Receive
<1>4. ~Waiting(i) /\ \A w, msg : ~Told(i, w) /\ ~Sent(i, msg, w) /\ ~Follows(i, w)
  BY <1>3 DEF Waiting, Told, Sent, Follows, InGame
<1>5. Preparing(i) /\ (~Stopped => Due(i) /\ server \in {"preamble", "ready"})
  <2>1. CASE Stopped
    BY <2>1, <1>3, <1>4 DEF Course
  <2>2. CASE ~Stopped
    <3>1. Due(i)
      BY <2>2, <1>3 DEF Course, Left
    <3>2. server \in {"preamble", "ready"}
      BY <2>2, <3>1, <1>4 DEF Due, TypeOK, Stopped
    <3>3. Preparing(i)
      BY <3>1, <3>2, <1>4 DEF Due, Announced
    <3>4. QED
      BY <2>2, <3>1, <3>2, <3>3
  <2>3. QED
    BY <2>1, <2>2
<1>6. Preparing(i)' \/ (Sent(i, Message("ready"), Seen(Start, 0)))'
  <2>1. CASE Initialize(i)
    <3>1. toServer' = toServer /\ toClient'[i] = Tail(toClient[i])
      BY <2>1 DEF Initialize, Receive, ChannelsOK
    <3>2. \A a, b, c : Tail(<<a, b, c>>) = <<b, c>> /\ Tail(<<b, c>>) = <<c>> /\ Tail(<<c>>) = <<>>
      OBVIOUS
    <3>3. client'[i] = CASE client[i] = "preparation" -> "game"
                         [] client[i] = "game"        -> "player"
                         [] client[i] = "player"      -> "prepare"
      BY <2>1 DEF Initialize, Become, TypeOK
    <3>4. client[i] \in {"preparation", "game", "player"}
      BY <2>1 DEF Initialize
    <3>5. replica'[i] = Start /\ replayed'[i] = 0 /\ toServer'[i] = <<>>
      BY <1>1, <1>5, <3>1 DEF Preparing
    <3>6. CASE client[i] = "preparation"
      <4>1. toClient[i] = <<Message("preparation"), Message("game"), Message("player")>>
        BY <1>5, <3>6 DEF Preparing
      <4>2. toClient'[i] = <<Message("game"), Message("player")>>
        BY <3>1, <3>2, <4>1
      <4>3. client'[i] = "game"
        BY <3>3, <3>6
      <4>4. QED
        BY <3>5, <4>2, <4>3 DEF Preparing
    <3>7. CASE client[i] = "game"
      BY <1>5, <3>1, <3>2, <3>3, <3>5, <3>7 DEF Preparing
    <3>8. CASE client[i] = "player"
      BY <1>5, <3>1, <3>2, <3>3, <3>5, <3>8 DEF Preparing
    <3>9. QED
      BY <3>4, <3>6, <3>7, <3>8
  <2>2. CASE Ready(i)
    <3>1. client'[i] = "play" /\ toClient'[i] = <<>> /\ replica'[i] = Start /\ replayed'[i] = 0
      BY <2>2, <1>1, <1>5 DEF Ready, Become, Preparing, TypeOK
    <3>2. toServer'[i] = <<Message("ready")>>
      BY <2>2, <1>5 DEF Ready, Send, Preparing, ChannelsOK
    <3>3. View(i)' = Seen(Start, 0) /\ InGame(i)'
      BY <3>1 DEF View, InGame, Playing
    <3>4. Path(i, <<>>, Seen(Start, 0), Seen(Start, 0))
      <4>1. 0 \in Nat /\ 0 <= MaxGames
        BY MatchAssumption
      <4>2. QED
        BY <4>1, PathNone, ViewTypes
    <3>5. QED
      BY <3>1, <3>2, <3>3, <3>4 DEF Sent, Follows
  <2>3. QED
    BY <2>1, <2>2
<1>7. CASE Stopped
  <2>1. Seen(Start, 0) \in Views
    <3>1. 0 \in Nat /\ 0 <= MaxGames
      BY MatchAssumption
    <3>2. QED
      BY <3>1, ViewTypes
  <2>2. QED
    BY <1>2, <1>6, <1>7, <2>1 DEF Course, Sent
<1>8. CASE ~Stopped
  <2>1. Announced(i)'
    BY <1>6 DEF Announced
  <2>2. Due(i) /\ server \in {"preamble", "ready"}
    BY <1>5, <1>8
  <2>3. (server = "preamble" => i < target) /\ (server = "ready" => i \notin handled)
    BY <2>2, <1>4 DEF Due
  <2>4. Due(i)'
    BY <1>2, <2>1, <2>2, <2>3 DEF Due
  <2>5. QED
    BY <1>2, <1>8, <2>4 DEF Course
<1>9. QED
  BY <1>7, <1>8

\* The client that moves is the one the server waits for.
LEMMA MoveStep ==
  ASSUME TypeOK, ChannelsOK, NEW i \in Clients, Course(i), PlayMove(i)
  PROVE  Course(i)'
<1> PICK p, n : p = replica[i] /\ n = replayed[i]
  OBVIOUS
<1>1. /\ server' = server /\ target' = target /\ state' = state /\ move' = move
      /\ handled' = handled /\ games' = games /\ (Stopped' <=> Stopped)
      /\ toClient' = toClient
  BY DEF PlayMove, serverVars, Stopped
<1>2. PICK m \in MovesAt(p) :
        replica' = [replica EXCEPT ![i] = After(@, m)] /\ Send(i, MoveMessage(m))
  BY DEF PlayMove
<1>3. client[i] = "move" /\ client'[i] = "play" /\ replica'[i] = After(p, m)
      /\ replayed'[i] = n
  BY <1>2 DEF PlayMove, Become, TypeOK
<1>4. /\ ~Gone(i) /\ ~Waiting(i) /\ ~Preparing(i) /\ ~Left(i)
      /\ View(i) = Asked(p, n) /\ View(i)' = Seen(After(p, m), n) /\ InGame(i)'
  BY <1>3 DEF Gone, Waiting, Preparing, Left, View, InGame, Playing
<1>5. \A w : Follows(i, w) => toClient[i] = <<>> /\ w = Asked(p, n)
  BY <1>4, ReadAtAsked DEF Follows, ChannelsOK
<1>6. After(p, m) \in DOMAIN Tree
  BY MatchAssumption DEF TypeOK, MovesAt, After
<1>7. ASSUME NEW w, Follows(i, w)
      PROVE  Seen(After(p, m), n) \in Views /\ Follows(i, Seen(After(p, m), n))'
  <2>1. Asked(p, n) \in Views
    BY <1>4, <1>7, PathViews DEF Follows, ChannelsOK
  <2>2. Seen(After(p, m), n) \in Views
    <3>1. n \in Nat /\ (MovesAt(Start) # {} => n < MaxGames)
      BY <2>1 DEF Asked, Views
    <3>2. MaxGames \in Nat /\ Start \in DOMAIN Tree
      BY MatchAssumption
    <3>3. QED
      BY <1>6, <3>1, <3>2 DEF Seen, Over, Views, Places
  <2>3. Path(i, <<>>, Seen(After(p, m), n), Seen(After(p, m), n))
    BY <2>2, PathNone
  <2>4. QED
    BY <1>1, <1>4, <1>5, <1>7, <2>2, <2>3 DEF Follows
<1>8. CASE Stopped
  <2>1. \E w \in Views : Follows(i, w)
    BY <1>4, <1>8 DEF Course
  <2>2. Seen(After(p, m), n) \in Views /\ Follows(i, Seen(After(p, m), n))'
    BY <1>7, <2>1
  <2>3. QED
    BY <1>1, <1>8, <2>2 DEF Course
<1>9. CASE ~Stopped
  <2>1. Due(i)
    BY <1>4, <1>9 DEF Course
  <2>2. \A q, k, msg : ~Told(i, Seen(q, k)) /\ ~Told(i, Over(k)) /\ ~Sent(i, msg, Seen(q, k))
    BY <1>5, ViewsDiffer DEF Told, Sent
  <2>3. server = "read" /\ i = Mover /\ Told(i, Asked(state, games))
    BY <1>4, <1>9, <2>1, <2>2 DEF Due, Announced, TypeOK, Stopped
  <2>4. toServer[i] = <<>> /\ toClient[i] = <<>> /\ state = p /\ games = n
    BY <1>5, <2>3, ViewsDiffer DEF Told
  <2>5. toServer'[i] = <<MoveMessage(m)>>
    BY <1>2, <2>4 DEF Send, ChannelsOK
  <2>6. Sent(i, MoveMessage(m), Seen(After(p, m), n))'
    BY <1>1, <1>7, <2>3, <2>4, <2>5 DEF Sent, Told
  <2>7. m \in MovesAt(state) /\ Seen(After(state, m), games) = Seen(After(p, m), n)
    BY <2>4
  <2>8. Due(i)'
    BY <1>1, <2>3, <2>6, <2>7 DEF Due, Mover
  <2>9. QED
    BY <1>1, <1>9, <2>8 DEF Course
<1>10. QED
  BY <1>8, <1>9

\* All steps of a client of this repository, on its own course.
LEMMA OwnStep ==
  ASSUME TypeOK, ChannelsOK, NEW i \in Honest, Course(i), ClientStep(i) \/ Ready(i)
  PROVE  Course(i)'
<1>1. i \in Clients
  BY DEF Honest
<1>2. CASE Initialize(i) \/ Ready(i)
  BY <1>1, <1>2, OpeningStep
<1>3. CASE ReadDeadline(i) \/ ReadMove(i) \/ PythonGameOver(i) \/ ReadReset(i)
  <2>1. Playing(i)
    BY <1>3 DEF ReadDeadline, ReadMove, PythonGameOver, ReadReset, Playing
  <2>2. QED
    BY <1>1, <1>3, <2>1, ReadStep
<1>4. CASE PlayMove(i)
  BY <1>1, <1>4, MoveStep
<1>5. CASE GameOver(i)
  BY <1>1, <1>5, GameOverStep
<1>6. CASE ClientFails(i)
  <2>1. Stopped' /\ Gone(i)'
    BY <1>1, <1>6 DEF ClientFails, Become, TypeOK, Stopped, serverVars, Gone
  <2>2. QED
    BY <2>1 DEF Course
<1>7. QED
  BY <1>2, <1>3, <1>4, <1>5, <1>6 DEF ClientStep

----
(***************************************************************************)
(* The steps of the server.                                                *)
(***************************************************************************)

\* A path ends at a view.
LEMMA FollowsView ==
  ASSUME NEW i, toClient[i] \in Seq(Mail), NEW w, Follows(i, w)
  PROVE  w \in Views
BY PathViews DEF Follows

\* The clients are written to in their order, each once.
LEMMA OnwardOrder ==
  ASSUME target \in Clients, NEW done, Onward(done)
  PROVE  /\ \/ server' = done /\ target' = 1 /\ \A j \in Clients : j <= target
            \/ server' = server /\ target' = target + 1
         /\ target' = target + 1 => \A j \in Clients : j < target' <=> j < target \/ j = target
         /\ \A j \in Clients : ~(j < 1) /\ (j <= target <=> j < target \/ j = target)
BY MatchAssumption DEF Onward

\* A client that left stays away.
LEMMA LeftStays ==
  ASSUME NEW j, Left(j), server' # "accept",
         client'[j] = client[j], toServer'[j] = toServer[j]
  PROVE  Course(j)'
BY DEF Left, Gone, Course

\* The server stops and leaves each client where it is.
LEMMA StopsCourse ==
  ASSUME TypeOK, ChannelsOK, NEW j \in Honest, Course(j), Stopped',
         UNCHANGED <<clientVars, channels>>
  PROVE  Course(j)'
<1>1. /\ client'[j] = client[j] /\ replica'[j] = replica[j] /\ replayed'[j] = replayed[j]
      /\ toClient'[j] = toClient[j] /\ toServer'[j] = toServer[j]
  BY DEF clientVars, channels
<1>2. toClient[j] \in Seq(Mail)
  BY DEF ChannelsOK, Honest
<1>3. CASE Stopped \/ Left(j)
  BY <1>1, <1>3, SameClient DEF Course, Left
<1>4. CASE ~Stopped /\ Due(j)
  <2>1. Waiting(j) \/ Preparing(j) \/ \E w : Follows(j, w)
    BY <1>4 DEF Due, Announced, Told, Sent, TypeOK, Stopped
  <2>2. Waiting(j) \/ Preparing(j) \/ \E w \in Views : Follows(j, w)
    BY <1>2, <2>1, FollowsView
  <2>3. QED
    BY <1>1, <2>2, SameClient DEF Course
<1>5. QED
  BY <1>3, <1>4 DEF Course

\* Accepting the clients.
LEMMA AcceptCourse ==
  ASSUME TypeOK, ChannelsOK, Rounds, NEW j \in Honest, Course(j), Accept
  PROVE  Course(j)'
<1>1. /\ server = "accept" /\ Onward("preamble") /\ target \in Clients /\ j \in Clients
      /\ replica' = replica /\ replayed' = replayed
      /\ toClient' = toClient /\ toServer' = toServer
  BY DEF Accept, clientVars, channels, TypeOK, Honest
<1>2. Waiting(j) /\ client[j] = IF j < target THEN "preparation" ELSE "outside"
  BY <1>1 DEF Course, Due, Stopped
<1>3. client'[j] = IF j = target \/ j < target THEN "preparation" ELSE "outside"
  BY <1>2 DEF Accept, Honest, TypeOK
<1>4. Waiting(j)'
  BY <1>1, <1>2, <1>3 DEF Waiting
<1>5. CASE server' = "preamble" /\ target' = 1 /\ \A i \in Clients : i <= target
  <2>1. ~(j < target') /\ client'[j] = "preparation"
    BY <1>1, <1>3, <1>5, OnwardOrder
  <2>2. Due(j)'
    BY <1>4, <1>5, <2>1 DEF Due
  <2>3. QED
    BY <1>5, <2>2 DEF Course, Stopped
<1>6. CASE server' = server /\ target' = target + 1
  <2>1. client'[j] = IF j < target' THEN "preparation" ELSE "outside"
    BY <1>1, <1>3, <1>6, OnwardOrder
  <2>2. Due(j)'
    BY <1>1, <1>4, <1>6, <2>1 DEF Due
  <2>3. QED
    BY <1>1, <1>6, <2>2 DEF Course, Stopped
<1>7. QED
  BY <1>1, <1>5, <1>6, OnwardOrder

\* Writing the preamble.
LEMMA PreambleCourse ==
  ASSUME TypeOK, ChannelsOK, Rounds, NEW j \in Honest, Course(j), SendPreamble
  PROVE  Course(j)'
<1>1. /\ server = "preamble" /\ Onward("ready") /\ target \in Clients /\ j \in Clients
      /\ handled' = {} /\ UNCHANGED clientVars /\ UNCHANGED toServer
  BY DEF SendPreamble, TypeOK, Rounds, Honest
<1>2. /\ client'[j] = client[j] /\ replica'[j] = replica[j] /\ replayed'[j] = replayed[j]
      /\ toServer'[j] = toServer[j]
  BY <1>1 DEF clientVars
<1>3. server' \in {"preamble", "ready"}
  BY <1>1, OnwardOrder
<1>4. CASE Left(j)
  BY <1>2, <1>3, <1>4, LeftStays
<1>5. CASE Due(j)
  <2>1. IF j < target THEN Announced(j) ELSE Waiting(j) /\ client[j] = "preparation"
    BY <1>1, <1>5 DEF Due
  <2>2. j < target => Announced(j)'
    <3> SUFFICES ASSUME j < target PROVE Announced(j)'
      OBVIOUS
    <3>1. j # target
      BY <1>1, MatchAssumption
    <3>2. toClient'[j] = toClient[j]
      BY <1>1, <3>1 DEF SendPreamble, ChannelsOK
    <3>3. QED
      BY <1>2, <2>1, <3>2, SameClient DEF Announced
  <2>3. j = target => Announced(j)'
    <3> SUFFICES ASSUME j = target PROVE Announced(j)'
      OBVIOUS
    <3>1. Waiting(j) /\ client[j] = "preparation"
      BY <1>1, <2>1, MatchAssumption
    <3>2. ~Gone(j) /\ j \notin Strangers
      BY <3>1 DEF Gone, Honest
    <3>3. toClient'[j] =
            toClient[j] \o <<Message("preparation"), Message("game"), Message("player")>>
      BY <1>1, <3>2 DEF SendPreamble, ChannelsOK
    <3>4. toClient'[j] = <<Message("preparation"), Message("game"), Message("player")>>
      BY <3>1, <3>3 DEF Waiting
    <3>5. Preparing(j)'
      BY <1>2, <3>1, <3>4 DEF Preparing, Waiting
    <3>6. QED
      BY <3>5 DEF Announced
  <2>4. ~(j < target) /\ j # target => Waiting(j)' /\ client'[j] = "preparation"
    <3> SUFFICES ASSUME ~(j < target), j # target PROVE Waiting(j)' /\ client'[j] = "preparation"
      OBVIOUS
    <3>1. toClient'[j] = toClient[j]
      BY <1>1 DEF SendPreamble, ChannelsOK
    <3>2. QED
      BY <1>2, <2>1, <3>1, SameClient
  <2>5. CASE server' = "ready" /\ target' = 1 /\ \A i \in Clients : i <= target
    <3>1. Announced(j)'
      BY <1>1, <2>2, <2>3, <2>5, OnwardOrder
    <3>2. Due(j)'
      BY <1>1, <2>5, <3>1 DEF Due
    <3>3. QED
      BY <2>5, <3>2 DEF Course, Stopped
  <2>6. CASE server' = server /\ target' = target + 1
    <3>1. IF j < target' THEN Announced(j)' ELSE Waiting(j)' /\ client'[j] = "preparation"
      BY <1>1, <2>2, <2>3, <2>4, <2>6, OnwardOrder
    <3>2. Due(j)'
      BY <1>1, <2>6, <3>1 DEF Due
    <3>3. QED
      BY <1>1, <2>6, <3>2 DEF Course, Stopped
  <2>7. QED
    BY <1>1, <2>5, <2>6, OnwardOrder
<1>6. QED
  BY <1>1, <1>4, <1>5 DEF Course, Stopped

\* Neither the client nor what the server has to do with it changes.
LEMMA SameCourse ==
  ASSUME NEW j, Course(j),
         client'[j] = client[j], replica'[j] = replica[j], replayed'[j] = replayed[j],
         toClient'[j] = toClient[j], toServer'[j] = toServer[j],
         server' = server, target' = target, state' = state, move' = move, games' = games,
         j \in handled' <=> j \in handled
  PROVE  Course(j)'
<1>1. CASE Stopped
  BY <1>1, SameClient DEF Course, Stopped
<1>2. CASE Left(j) /\ server # "accept"
  BY <1>2, LeftStays
<1>3. CASE ~Stopped /\ Due(j)
  <2>1. Mover' = Mover
    BY DEF Mover
  <2>2. Due(j)'
    BY <1>3, <2>1, SameClient DEF Due, Announced
  <2>3. QED
    BY <1>3, <2>2 DEF Course, Stopped
<1>4. QED
  BY <1>1, <1>2, <1>3 DEF Course

\* Reading the ready messages.
LEMMA ReadyCourse ==
  ASSUME TypeOK, ChannelsOK, Rounds, NEW j \in Honest, Course(j),
         NEW i \in Clients, HandleReady(i)
  PROVE  Course(j)'
<1>1. /\ server = "ready" /\ i \notin handled /\ j \in Clients
      /\ server' = server /\ target' = target /\ state' = state /\ move' = move /\ games' = games
      /\ handled' = handled \cup {i}
      /\ client' = client /\ replica' = replica /\ replayed' = replayed /\ toClient' = toClient
  BY DEF HandleReady, clientVars, Honest
<1>2. CASE j # i
  <2>1. toServer' = toServer \/ toServer' = [toServer EXCEPT ![i] = Tail(@)]
    BY DEF HandleReady
  <2>2. toServer'[j] = toServer[j]
    BY <1>1, <1>2, <2>1 DEF ChannelsOK
  <2>3. j \in handled' <=> j \in handled
    BY <1>1, <1>2
  <2>4. QED
    BY <1>1, <2>2, <2>3, SameCourse
<1>3. CASE j = i /\ Left(j)
  <2>1. toServer[j] = <<>>
    BY <1>3 DEF Left
  <2>2. toServer'[j] = toServer[j]
    BY <1>3, <2>1 DEF HandleReady
  <2>3. QED
    BY <1>1, <1>3, <2>2, LeftStays
<1>4. CASE j = i /\ Due(j) /\ ~Gone(j)
  <2>1. Announced(j)
    BY <1>1, <1>4 DEF Due
  <2>2. toServer[j] # <<>>
    BY <1>4 DEF HandleReady
  <2>3. Sent(j, Message("ready"), Seen(Start, 0))
    BY <2>1, <2>2 DEF Announced, Preparing
  <2>4. toServer[j] = <<Message("ready")>>
    BY <2>3 DEF Sent
  <2>5. IsReadySize(Head(toServer[j]))
    BY <2>4 DEF IsReadySize, Message
  <2>6. toServer' = [toServer EXCEPT ![i] = Tail(@)]
    BY <1>4, <2>2, <2>5 DEF HandleReady
  <2>7. toServer'[j] = <<>>
    <3>1. toServer'[j] = Tail(toServer[j])
      BY <1>4, <2>6 DEF ChannelsOK
    <3>2. \A msg : Tail(<<msg>>) = <<>>
      OBVIOUS
    <3>3. QED
      BY <2>4, <3>1, <3>2
  <2>8. Follows(j, Seen(Start, 0))'
    <3>1. View(j)' = View(j) /\ InGame(j)' = InGame(j)
      BY <1>1 DEF View, InGame, Playing
    <3>2. QED
      BY <1>1, <2>3, <3>1 DEF Sent, Follows
  <2>9. Told(j, Seen(Start, 0))'
    BY <2>7, <2>8 DEF Told
  <2>10. Due(j)'
    BY <1>1, <1>4, <2>9 DEF Due
  <2>11. QED
    BY <1>1, <2>10 DEF Course, Stopped
<1>5. CASE j = i /\ Due(j) /\ Gone(j)
  <2>1. Announced(j)
    BY <1>1, <1>5 DEF Due
  <2>2. QED
    BY <1>5, <2>1 DEF Announced, Preparing, Sent, Follows, InGame, Playing, Gone
<1>6. QED
  BY <1>1, <1>2, <1>3, <1>4, <1>5 DEF Course, Stopped

\* The server goes on by itself: between the games, with the moves it applies
\* and at the end of a game.
LEMMA AloneCourse ==
  ASSUME TypeOK, ChannelsOK, Rounds, NEW j \in Honest, Course(j),
         AllHandled \/ StartGame \/ ApplyMove \/ EndGame
  PROVE  Course(j)'
<1>1. /\ client'[j] = client[j] /\ replica'[j] = replica[j] /\ replayed'[j] = replayed[j]
      /\ toClient'[j] = toClient[j] /\ toServer'[j] = toServer[j]
      /\ target' = target /\ move' = move /\ handled' = handled
  BY DEF AllHandled, StartGame, ApplyMove, EndGame, clientVars, channels
<1>2. server' \in {"series", "turn", "reset"} /\ ~Stopped /\ ~Stopped'
  BY DEF AllHandled, StartGame, ApplyMove, EndGame, Stopped
<1>3. CASE Left(j)
  BY <1>1, <1>2, <1>3, LeftStays
<1>4. CASE Due(j)
  <2>1. CASE AllHandled
    <3>1. Told(j, Seen(Start, 0)) /\ state = Start /\ state' = state /\ server' = "series"
          /\ games = 0 /\ games' = 0
      BY <2>1, <1>4 DEF AllHandled, Due, Rounds, Honest
    <3>2. Told(j, Seen(Start, 0))'
      BY <1>1, <3>1, SameClient
    <3>3. QED
      BY <1>2, <3>1, <3>2 DEF Due, Course
  <2>2. CASE StartGame
    <3>1. Told(j, Seen(state, games)) /\ state' = state /\ server' = "turn" /\ games' = games
      BY <2>2, <1>4 DEF StartGame, Due
    <3>2. Told(j, Seen(state, games))'
      BY <1>1, <3>1, SameClient
    <3>3. QED
      BY <1>2, <3>1, <3>2 DEF Due, Course
  <2>3. CASE ApplyMove
    <3>1. PICK p, n : p = After(state, move) /\ n = games
      OBVIOUS
    <3>2. Told(j, Seen(p, n)) /\ state' = p /\ server' = "turn" /\ games' = n
      BY <2>3, <3>1, <1>4 DEF ApplyMove, Due
    <3>3. Told(j, Seen(p, n))'
      BY <1>1, <3>2, SameClient
    <3>4. QED
      BY <1>2, <3>2, <3>3 DEF Due, Course
  <2>4. CASE EndGame
    <3> PICK n : n = games + 1
      OBVIOUS
    <3>1. Told(j, Over(n)) /\ games' = n /\ server' = "reset" /\ target' = 1
      BY <2>4, <1>1, <1>4 DEF EndGame, Due, Rounds, Seen
    <3>2. Told(j, Over(n))'
      BY <1>1, <3>1, SameClient
    <3>3. ~(j < target')
      BY <3>1, MatchAssumption DEF Honest
    <3>4. QED
      BY <1>2, <3>1, <3>2, <3>3 DEF Due, Course
  <2>5. QED
    BY <2>1, <2>2, <2>3, <2>4
<1>5. QED
  BY <1>2, <1>3, <1>4 DEF Course

\* A client is told something: it will go on from where it was to arrive.
LEMMA ToldOn ==
  ASSUME ChannelsOK, NEW j \in Honest, NEW w, NEW msg \in Mail, NEW u \in Views,
         Told(j, w), Takes(j, w, msg, u), Write(j, msg),
         client'[j] = client[j], replica'[j] = replica[j], replayed'[j] = replayed[j],
         toServer'[j] = toServer[j]
  PROVE  Told(j, u)'
<1>1. j \in Clients /\ j \notin Strangers /\ ~Gone(j)
  BY DEF Honest, Told, Follows, InGame, Playing, Gone
<1>2. toClient'[j] = Append(toClient[j], msg)
  BY <1>1, Written
<1>3. toClient[j] \in Seq(Mail) /\ Path(j, toClient[j], View(j), w)
  BY <1>1 DEF ChannelsOK, Told, Follows
<1>4. Path(j, Append(toClient[j], msg), View(j), u)
  BY <1>3, PathAppend
<1>5. View(j)' = View(j) /\ InGame(j)' = InGame(j)
  BY DEF View, InGame, Playing
<1>6. QED
  BY <1>2, <1>4, <1>5 DEF Told, Follows

\* And nothing is told to the others.
LEMMA NotTold ==
  ASSUME ChannelsOK, NEW j \in Clients, NEW i, i # j, NEW msg \in Mail, Write(i, msg)
  PROVE  toClient'[j] = toClient[j]
BY Written

\* Asking for a move.
LEMMA AskCourse ==
  ASSUME TypeOK, WithinLimit, ChannelsOK, Rounds, NEW j \in Honest, Course(j), AskForMove
  PROVE  Course(j)'
<1>1. /\ server = "turn" /\ server' = "read" /\ MovesAt(state) # {} /\ state' = state
      /\ Write(Mover, Message("deadline")) /\ Message("deadline") \in Mail
      /\ games' = games /\ games \in Nat /\ games < MaxGames
      /\ client'[j] = client[j] /\ replica'[j] = replica[j] /\ replayed'[j] = replayed[j]
      /\ toServer'[j] = toServer[j]
  BY Mails DEF AskForMove, clientVars, WithinLimit, TypeOK
<1>2. CASE Left(j)
  BY <1>1, <1>2, LeftStays
<1>3. CASE Due(j)
  <2>1. Told(j, Seen(state, games))
    BY <1>1, <1>3 DEF Due
  <2>2. CASE j = Mover
    <3>1. Seen(state, games).at = "play" /\ Seen(state, games).pos = state
          /\ Seen(state, games).games = games
      BY <1>1 DEF Seen
    <3>2. Asked(state, games) \in Views
      <4>1. games <= MaxGames /\ state \in DOMAIN Tree
        BY <1>1, MatchAssumption DEF TypeOK
      <4>2. QED
        BY <1>1, <4>1, ViewTypes
    <3>3. Takes(j, Seen(state, games), Message("deadline"), Asked(state, games))
      BY <1>1, <2>2, <3>1 DEF Takes, Mover
    <3>4. Told(j, Asked(state, games))'
      BY <1>1, <2>1, <2>2, <3>2, <3>3, ToldOn
    <3>5. Due(j)'
      BY <1>1, <2>2, <3>4 DEF Due, Mover
    <3>6. QED
      BY <1>1, <3>5 DEF Course, Stopped
  <2>3. CASE j # Mover
    <3>1. toClient'[j] = toClient[j]
      BY <1>1, <2>3, NotTold DEF Honest
    <3>2. Told(j, Seen(state, games))'
      BY <1>1, <2>1, <3>1, SameClient
    <3>3. Due(j)'
      BY <1>1, <2>3, <3>2 DEF Due, Mover
    <3>4. QED
      BY <1>1, <3>3 DEF Course, Stopped
  <2>4. QED
    BY <2>2, <2>3
<1>4. QED
  BY <1>1, <1>2, <1>3 DEF Course, Stopped

\* What is read from a client of this repository is the move it has made.
LEMMA ReadsMove ==
  ASSUME TypeOK, ChannelsOK, Mover \in Honest, Course(Mover), ReceiveMove
  PROVE  \E m \in MovesAt(state) :
           /\ Sent(Mover, MoveMessage(m), Seen(After(state, m), games))
           /\ server' = "broadcast" /\ move' = m
<1>1. server = "read" /\ toServer[Mover] # <<>>
  BY DEF ReceiveMove
<1>2. Due(Mover)
  BY <1>1 DEF Course, Stopped, Left
<1>3. PICK m \in MovesAt(state) : Sent(Mover, MoveMessage(m), Seen(After(state, m), games))
  BY <1>1, <1>2 DEF Due, Told
<1>4. Head(toServer[Mover]) = MoveMessage(m)
  BY <1>3 DEF Sent
<1>5. DecodeMove(Head(toServer[Mover])) = {m}
  BY <1>4 DEF DecodeMove, MoveMessage
<1>6. server' = "broadcast" /\ move' = m
  BY <1>5 DEF ReceiveMove
<1>7. QED
  BY <1>3, <1>6

\* Reading a move.
LEMMA MoveCourse ==
  ASSUME TypeOK, WithinLimit, ChannelsOK, Rounds, NEW j \in Honest, Course(j), ReceiveMove
  PROVE  Course(j)'
<1>1. /\ server = "read" /\ server' \in {"broadcast", "illegal"}
      /\ state' = state /\ target' = 1 /\ games' = games /\ j \in Clients
      /\ client'[j] = client[j] /\ replica'[j] = replica[j] /\ replayed'[j] = replayed[j]
      /\ toClient'[j] = toClient[j]
      /\ toServer[Mover] # <<>> /\ toServer' = [toServer EXCEPT ![Mover] = Tail(@)]
  BY DEF ReceiveMove, Rounds, clientVars, Honest
<1>2. View(j)' = View(j) /\ InGame(j)' = InGame(j)
  BY <1>1 DEF View, InGame, Playing
<1>3. ~(j < target') /\ Mover' = Mover
  BY <1>1, MatchAssumption DEF Mover
<1>4. CASE j = Mover
  <2>1. PICK m \in MovesAt(state) :
          /\ Sent(j, MoveMessage(m), Seen(After(state, m), games))
          /\ server' = "broadcast" /\ move' = m
    BY <1>4, ReadsMove
  <2>2. PICK w : w = Seen(After(state, m), games)
    OBVIOUS
  <2>3. toServer'[j] = <<>>
    <3>1. toServer'[j] = Tail(toServer[j])
      BY <1>1, <1>4 DEF ChannelsOK
    <3>2. \A msg : Tail(<<msg>>) = <<>>
      OBVIOUS
    <3>3. toServer[j] = <<MoveMessage(m)>>
      BY <2>1 DEF Sent
    <3>4. QED
      BY <3>1, <3>2, <3>3
  <2>4. Told(j, w)'
    BY <1>1, <1>2, <2>1, <2>2, <2>3 DEF Told, Sent, Follows
  <2>5. Due(j)'
    BY <1>1, <1>3, <1>4, <2>1, <2>2, <2>4 DEF Due
  <2>6. QED
    BY <2>1, <2>5 DEF Course, Stopped
<1>5. CASE j # Mover
  <2>1. toServer'[j] = toServer[j]
    BY <1>1, <1>5 DEF ChannelsOK
  <2>2. CASE Left(j)
    BY <1>1, <2>1, <2>2, LeftStays
  <2>3. CASE Due(j)
    <3>1. Told(j, Seen(state, games))
      BY <1>1, <1>5, <2>3 DEF Due
    <3>2. Told(j, Seen(state, games))'
      BY <1>1, <2>1, <3>1, SameClient
    <3>3. Seen(state, games) \in Views
      <4>1. games \in Nat /\ games < MaxGames /\ games <= MaxGames /\ state \in DOMAIN Tree
        BY <1>1, MatchAssumption DEF TypeOK, WithinLimit
      <4>2. QED
        BY <4>1, ViewTypes
    <3>4. CASE server' = "broadcast"
      <4>1. Due(j)'
        BY <1>3, <1>5, <3>2, <3>4 DEF Due
      <4>2. QED
        BY <3>4, <4>1 DEF Course, Stopped
    <3>5. CASE server' = "illegal"
      <4>1. PICK w \in Views : w = Seen(state, games) /\ Told(j, w)'
        BY <3>2, <3>3, <1>1
      <4>2. QED
        BY <3>5, <4>1 DEF Course, Stopped, Told
    <3>6. QED
      BY <1>1, <3>4, <3>5
  <2>4. QED
    BY <1>1, <2>2, <2>3 DEF Course, Stopped
<1>6. QED
  BY <1>4, <1>5

\* Sending the move on to the other players.
LEMMA BroadcastCourse ==
  ASSUME TypeOK, WithinLimit, ChannelsOK, Rounds, NEW j \in Honest, Course(j), Broadcast
  PROVE  Course(j)'
<1>1. /\ server = "broadcast" /\ Onward("apply") /\ target \in Clients /\ j \in Clients
      /\ state' = state /\ move' = move /\ move \in MovesAt(state) /\ Mover' = Mover
      /\ games' = games /\ games \in Nat /\ games < MaxGames
      /\ client'[j] = client[j] /\ replica'[j] = replica[j] /\ replayed'[j] = replayed[j]
      /\ toServer'[j] = toServer[j]
  BY DEF Broadcast, clientVars, Honest, TypeOK, WithinLimit, Mover
<1>2. server' \in {"broadcast", "apply"}
  BY <1>1, OnwardOrder
<1>3. PICK w : w = Seen(After(state, move), games)
  OBVIOUS
<1>4. CASE Left(j)
  BY <1>1, <1>2, <1>4, LeftStays
<1>5. CASE Due(j)
  <2>1. Told(j, IF j = Mover \/ j < target THEN w ELSE Seen(state, games))
    BY <1>1, <1>3, <1>5 DEF Due
  <2>2. MoveMessage(move) \in Mail
    BY <1>1, Mails DEF TypeOK
  <2>3. ASSUME j = Mover \/ j < target PROVE Told(j, w)'
    <3>1. toClient'[j] = toClient[j]
      <4>1. CASE target = Mover
        BY <4>1 DEF Broadcast
      <4>2. CASE target # Mover
        <5>1. Write(target, MoveMessage(move))
          BY <4>2 DEF Broadcast
        <5>2. target # j
          BY <1>1, <2>3, <4>2, MatchAssumption
        <5>3. QED
          BY <1>1, <2>2, <5>1, <5>2, NotTold
      <4>3. QED
        BY <4>1, <4>2
    <3>2. QED
      BY <1>1, <2>1, <2>3, <3>1, SameClient
  <2>4. ASSUME j # Mover, j = target PROVE Told(j, w)'
    <3>1. Told(j, Seen(state, games))
      BY <1>1, <2>1, <2>4, MatchAssumption
    <3>2. Seen(state, games).at = "play" /\ Seen(state, games).pos = state
          /\ Seen(state, games).games = games
      BY <1>1 DEF Seen
    <3>3. Takes(j, Seen(state, games), MoveMessage(move), w)
      BY <1>1, <1>3, <2>4, <3>2 DEF Takes, Mover
    <3>4. w \in Views
      <4>1. After(state, move) \in DOMAIN Tree
        BY <1>1, MatchAssumption DEF TypeOK, MovesAt, After
      <4>2. QED
        BY <1>1, <1>3, <4>1, ViewTypes, MatchAssumption
    <3>5. Write(j, MoveMessage(move))
      BY <2>4 DEF Broadcast
    <3>6. QED
      BY <1>1, <2>2, <3>1, <3>3, <3>4, <3>5, ToldOn
  <2>5. ASSUME j # Mover, ~(j < target), j # target PROVE Told(j, Seen(state, games))'
    <3>1. toClient'[j] = toClient[j]
      BY <1>1, <2>2, <2>5, NotTold DEF Broadcast
    <3>2. QED
      BY <1>1, <2>1, <2>5, <3>1, SameClient
  <2>6. CASE server' = "apply" /\ target' = 1 /\ \A i \in Clients : i <= target
    <3>1. Told(j, w)'
      BY <1>1, <2>3, <2>4, <2>6, OnwardOrder
    <3>2. Due(j)'
      BY <1>1, <1>3, <2>6, <3>1 DEF Due
    <3>3. QED
      BY <2>6, <3>2 DEF Course, Stopped
  <2>7. CASE server' = server /\ target' = target + 1
    <3>1. j < target' <=> j < target \/ j = target
      BY <1>1, <2>7, OnwardOrder
    <3>2. CASE j = Mover \/ j < target'
      <4>1. Told(j, w)'
        BY <2>3, <2>4, <3>1, <3>2
      <4>2. Due(j)'
        BY <1>1, <1>3, <2>7, <3>2, <4>1 DEF Due
      <4>3. QED
        BY <1>1, <2>7, <4>2 DEF Course, Stopped
    <3>3. CASE ~(j = Mover \/ j < target')
      <4>1. Told(j, Seen(state, games))'
        BY <2>5, <3>1, <3>3
      <4>2. Due(j)'
        BY <1>1, <2>7, <3>3, <4>1 DEF Due
      <4>3. QED
        BY <1>1, <2>7, <4>2 DEF Course, Stopped
    <3>4. QED
      BY <3>2, <3>3
  <2>8. QED
    BY <1>1, <2>6, <2>7, OnwardOrder
<1>6. QED
  BY <1>1, <1>4, <1>5 DEF Course, Stopped

\* Telling the end of a game.
LEMMA ResetCourse ==
  ASSUME TypeOK, WithinLimit, ChannelsOK, Rounds, NEW j \in Honest, Course(j), SendReset
  PROVE  Course(j)'
<1>1. /\ server = "reset" /\ Onward("series") /\ target \in Clients /\ j \in Clients
      /\ state = Start /\ state' = Start
      /\ games' = games /\ games \in Nat /\ games <= MaxGames
      /\ Write(target, Message("reset")) /\ Message("reset") \in Mail
      /\ client'[j] = client[j] /\ replica'[j] = replica[j] /\ replayed'[j] = replayed[j]
      /\ toServer'[j] = toServer[j]
  BY Mails DEF SendReset, clientVars, Honest, TypeOK, Rounds
<1>2. server' \in {"reset", "series"}
  BY <1>1, OnwardOrder
<1>3. CASE Left(j)
  BY <1>1, <1>2, <1>3, LeftStays
<1>4. CASE Due(j)
  <2>1. Told(j, IF j < target THEN Seen(Start, games) ELSE Over(games))
    BY <1>1, <1>4 DEF Due
  <2>2. ASSUME j < target PROVE Told(j, Seen(Start, games))'
    <3>1. toClient'[j] = toClient[j]
      BY <1>1, <2>2, NotTold, MatchAssumption
    <3>2. QED
      BY <1>1, <2>1, <2>2, <3>1, SameClient
  <2>3. ASSUME j = target PROVE Told(j, Seen(Start, games))'
    <3>1. Told(j, Over(games))
      BY <1>1, <2>1, <2>3, MatchAssumption
    <3>2. /\ Takes(j, Over(games), Message("reset"), Seen(Start, games))
          /\ Seen(Start, games) \in Views
      BY <1>1, ViewTypes DEF Takes, Over
    <3>3. QED
      BY <1>1, <2>3, <3>1, <3>2, ToldOn
  <2>4. ASSUME ~(j < target), j # target PROVE Told(j, Over(games))'
    <3>1. toClient'[j] = toClient[j]
      BY <1>1, <2>4, NotTold
    <3>2. QED
      BY <1>1, <2>1, <2>4, <3>1, SameClient
  <2>5. CASE server' = "series" /\ target' = 1 /\ \A i \in Clients : i <= target
    <3>1. Told(j, Seen(Start, games))'
      BY <1>1, <2>2, <2>3, <2>5, OnwardOrder
    <3>2. Due(j)'
      BY <1>1, <2>5, <3>1 DEF Due
    <3>3. QED
      BY <2>5, <3>2 DEF Course, Stopped
  <2>6. CASE server' = server /\ target' = target + 1
    <3>1. j < target' <=> j < target \/ j = target
      BY <1>1, <2>6, OnwardOrder
    <3>2. IF j < target' THEN Told(j, Seen(Start, games))' ELSE Told(j, Over(games))'
      BY <2>2, <2>3, <2>4, <3>1
    <3>3. Due(j)'
      BY <1>1, <2>6, <3>2 DEF Due
    <3>4. QED
      BY <1>1, <2>6, <3>3 DEF Course, Stopped
  <2>7. QED
    BY <1>1, <2>5, <2>6, OnwardOrder
<1>5. QED
  BY <1>1, <1>3, <1>4 DEF Course, Stopped

\* The steps of the server keep every client on its course.
LEMMA ServerCourse ==
  ASSUME TypeOK, WithinLimit, ChannelsOK, Rounds, NEW j \in Honest, Course(j), ServerStep
  PROVE  Course(j)'
<1>1. CASE Accept
  BY <1>1, AcceptCourse
<1>2. CASE SendPreamble
  BY <1>2, PreambleCourse
<1>3. ASSUME NEW i \in Clients, HandleReady(i) PROVE Course(j)'
  BY <1>3, ReadyCourse
<1>4. CASE AllHandled \/ StartGame \/ ApplyMove \/ EndGame
  BY <1>4, AloneCourse
<1>5. CASE Shutdown \/ ServerFails
  BY <1>5, StopsCourse DEF Shutdown, ServerFails, Stopped
<1>6. CASE AskForMove
  BY <1>6, AskCourse
<1>7. CASE ReceiveMove
  BY <1>7, MoveCourse
<1>8. CASE Broadcast
  BY <1>8, BroadcastCourse
<1>9. CASE SendReset
  BY <1>9, ResetCourse
<1>10. QED
  BY <1>1, <1>2, <1>3, <1>4, <1>5, <1>6, <1>7, <1>8, <1>9 DEF ServerStep

\* So do the steps of the clients, those of another make included.
LEMMA ClientCourse ==
  ASSUME TypeOK, ChannelsOK, NEW j \in Honest, Course(j), NEW i \in Clients,
         ClientStep(i) \/ Ready(i) \/ StrangerWrites(i) \/ StrangerLeaves(i)
  PROVE  Course(j)'
<1> USE DEF Honest
<1>1. CASE i # j
  <2>1. UNCHANGED serverVars
    BY DEF ClientStep, Initialize, ReadDeadline, PlayMove, ReadMove, GameOver, PythonGameOver,
           ReadReset, ClientFails, Ready, StrangerWrites, StrangerLeaves
  <2>2. client'[j] = client[j]
    BY <1>1 DEF TypeOK, ClientStep, Initialize, ReadDeadline, PlayMove, ReadMove, GameOver,
           PythonGameOver, ReadReset, ClientFails, Ready, StrangerWrites, StrangerLeaves,
           NextGameOrLeave, Become, clientVars
  <2>3. replica'[j] = replica[j]
    BY <1>1 DEF TypeOK, ClientStep, Initialize, ReadDeadline, PlayMove, ReadMove, GameOver,
           PythonGameOver, ReadReset, ClientFails, Ready, StrangerWrites, StrangerLeaves, clientVars
  <2>4. toClient'[j] = toClient[j]
    BY <1>1 DEF ChannelsOK, ClientStep, Initialize, ReadDeadline, PlayMove, ReadMove, GameOver,
           PythonGameOver, ReadReset, ClientFails, Ready, StrangerWrites, StrangerLeaves, Receive,
           channels
  <2>5. toServer'[j] = toServer[j]
    BY <1>1 DEF ChannelsOK, ClientStep, Initialize, ReadDeadline, PlayMove, ReadMove, GameOver,
           PythonGameOver, ReadReset, ClientFails, Ready, StrangerWrites, StrangerLeaves, Send,
           channels
  <2>6. replayed'[j] = replayed[j]
    BY <1>1 DEF TypeOK, ClientStep, Initialize, ReadDeadline, PlayMove, ReadMove, GameOver,
           PythonGameOver, ReadReset, ClientFails, Ready, StrangerWrites, StrangerLeaves, clientVars
  <2>7. QED
    BY <2>1, <2>2, <2>3, <2>4, <2>5, <2>6, SameCourse DEF serverVars
<1>2. CASE i = j
  <2>1. client[j] # "stranger"
    BY DEF Course, Due, Announced, Told, Sent, Follows, InGame, Playing, Preparing, Waiting, Left,
           Gone, Stopped, TypeOK
  <2>2. ClientStep(j) \/ Ready(j)
    BY <1>2, <2>1 DEF StrangerWrites, StrangerLeaves
  <2>3. QED
    BY <2>2, OwnStep
<1>3. QED
  BY <1>1, <1>2

\* The rounds of the server.
LEMMA RoundsStep ==
  ASSUME TypeOK, WithinLimit, Rounds, [Next]_vars
  PROVE  Rounds'
<1>1. ASSUME ServerStep PROVE Rounds'
  <2> USE DEF Rounds, Onward
  <2>1. CASE Accept \/ SendPreamble
    BY <2>1 DEF Accept, SendPreamble
  <2>2. ASSUME NEW i \in Clients, HandleReady(i) PROVE Rounds'
    BY <2>2 DEF HandleReady
  <2>3. CASE AllHandled \/ StartGame \/ Shutdown \/ ServerFails \/ AskForMove \/ ReceiveMove
    BY <2>3 DEF AllHandled, StartGame, Shutdown, ServerFails, AskForMove, ReceiveMove
  <2>4. CASE Broadcast \/ ApplyMove \/ EndGame \/ SendReset
    BY <2>4, MatchAssumption DEF Broadcast, ApplyMove, EndGame, SendReset, WithinLimit, TypeOK
  <2>5. QED
    BY <1>1, <2>1, <2>2, <2>3, <2>4 DEF ServerStep
<1>2. ASSUME UNCHANGED serverVars PROVE Rounds'
  BY <1>2 DEF serverVars, Rounds
<1>3. ASSUME NEW i \in Clients,
             ClientStep(i) \/ Ready(i) \/ StrangerWrites(i) \/ StrangerLeaves(i)
      PROVE  UNCHANGED serverVars
  BY <1>3 DEF ClientStep, Initialize, ReadDeadline, PlayMove, ReadMove, GameOver, PythonGameOver,
              ReadReset, ClientFails, Ready, StrangerWrites, StrangerLeaves
<1>4. QED
  BY <1>1, <1>2, <1>3 DEF Next, Tick, Done, vars

\* A move is only refused when it was read from a client of another make.
LEMMA RefusedStep ==
  ASSUME TypeOK, ChannelsOK, \A i \in Honest : Course(i), RefusedOnlyStrangers, [Next]_vars
  PROVE  RefusedOnlyStrangers'
<1> USE DEF RefusedOnlyStrangers, Mover
<1>1. CASE ReceiveMove
  <2>1. CASE Mover \in Honest
    BY <1>1, <2>1, ReadsMove
  <2>2. CASE Mover \notin Honest
    <3>1. Mover \in Clients
      BY <1>1, MatchAssumption DEF ReceiveMove, TypeOK, MovesAt
    <3>2. QED
      BY <1>1, <2>2, <3>1 DEF Honest, ReceiveMove
  <2>3. QED
    BY <2>1, <2>2
<1>2. ASSUME ServerStep, ~ReceiveMove PROVE server' # "illegal"
  BY <1>2 DEF ServerStep, Accept, SendPreamble, HandleReady, AllHandled, StartGame, Shutdown,
              AskForMove, Broadcast, ApplyMove, EndGame, SendReset, ServerFails, Onward
<1>3. ASSUME NEW i \in Clients,
             ClientStep(i) \/ Ready(i) \/ StrangerWrites(i) \/ StrangerLeaves(i)
      PROVE  UNCHANGED serverVars
  BY <1>3 DEF ClientStep, Initialize, ReadDeadline, PlayMove, ReadMove, GameOver, PythonGameOver,
              ReadReset, ClientFails, Ready, StrangerWrites, StrangerLeaves
<1>4. ASSUME UNCHANGED serverVars PROVE RefusedOnlyStrangers'
  BY <1>4 DEF serverVars
<1>5. QED
  BY <1>1, <1>2, <1>3, <1>4 DEF Next, Tick, Done, vars

\* The invariant holds at first.
LEMMA CourseInit == Init => CourseInv
<1> SUFFICES ASSUME Init PROVE CourseInv
  OBVIOUS
<1>1. ChannelsOK
  BY DEF Init, ChannelsOK
<1>2. ASSUME NEW i \in Honest PROVE Course(i)
  <2>1. i \in Clients /\ ~(i < target)
    BY MatchAssumption DEF Init, Honest
  <2>2. Waiting(i) /\ client[i] = "outside"
    BY <2>1 DEF Init, Waiting
  <2>3. QED
    BY <2>1, <2>2 DEF Init, Course, Due, Stopped
<1>3. QED
  BY <1>1, <1>2, InitType, MatchAssumption
     DEF CourseInv, Init, Rounds, WithinLimit, RefusedOnlyStrangers

\* And every step keeps it.
LEMMA CourseNext == CourseInv /\ [Next]_vars => CourseInv'
<1> SUFFICES ASSUME CourseInv, [Next]_vars PROVE CourseInv'
  OBVIOUS
<1> USE DEF CourseInv
<1>1. TypeOK' /\ WithinLimit' /\ Rounds' /\ RefusedOnlyStrangers'
  BY NextType, WithinLimitStep, RoundsStep, RefusedStep
<1>2. ASSUME UNCHANGED <<serverVars, clientVars, channels>>
      PROVE  ChannelsOK' /\ \A j \in Honest : Course(j)'
  BY <1>2, SameCourse DEF serverVars, clientVars, channels, ChannelsOK
<1>3. ChannelsOK'
  BY <1>2, ServerChannels, ClientChannels DEF Next, Tick, Done, vars
<1>4. ASSUME NEW j \in Honest PROVE Course(j)'
  BY <1>2, <1>4, ServerCourse, ClientCourse DEF Next, Tick, Done, vars
<1>5. QED
  BY <1>1, <1>3, <1>4

\* What a client on its course reads is what it is about to read.
LEMMA CourseReads == CourseInv => TypedReads
<1> SUFFICES ASSUME CourseInv, NEW i \in Honest, Reading(i), toClient[i] # <<>>
             PROVE  Head(toClient[i]).kind = Awaited(i)
  BY DEF TypedReads
<1>1. Course(i) /\ toClient[i] \in Seq(Mail) /\ TypeOK
  BY DEF CourseInv, ChannelsOK, Honest
<1>2. ~Gone(i) /\ ~Left(i) /\ ~Waiting(i)
  BY DEF Reading, Gone, Left, Waiting
<1>3. Preparing(i) \/ \E w : Follows(i, w)
  BY <1>1, <1>2 DEF Course, Due, Announced, Told, Sent, TypeOK, Stopped
<1>4. CASE Preparing(i)
  BY <1>4 DEF Preparing, Message, Reading, Awaited
<1>5. ASSUME NEW w, Follows(i, w)
      PROVE  Head(toClient[i]).kind = Awaited(i)
  <2>1. Path(i, toClient[i], View(i), w) /\ client[i] \in {"play", "reset"}
    BY <1>5 DEF Follows, InGame, Playing, Reading
  <2>2. CASE client[i] = "reset"
    <3>1. View(i) = Over(replayed[i])
      BY <2>2 DEF View
    <3>2. Head(toClient[i]) = Message("reset")
      BY <1>1, <2>1, <3>1, ReadAtOver
    <3>3. QED
      BY <2>2, <3>2 DEF Message, Awaited
  <2>3. CASE client[i] = "play" /\ MyTurn(i)
    <3>1. View(i) = Seen(replica[i], replayed[i])
      BY <2>3 DEF View
    <3>2. Head(toClient[i]) = Message("deadline")
      BY <1>1, <2>1, <2>3, <3>1, ReadAtTurn DEF MyTurn
    <3>3. QED
      BY <2>3, <3>2 DEF Message, Awaited, MyTurn, NotMyTurn
  <2>4. CASE client[i] = "play" /\ NotMyTurn(i)
    <3>1. View(i) = Seen(replica[i], replayed[i])
      BY <2>4 DEF View
    <3>2. \E m \in MovesAt(replica[i]) : Head(toClient[i]) = MoveMessage(m)
      BY <1>1, <2>1, <2>4, <3>1, ReadAtMove DEF NotMyTurn
    <3>3. Head(toClient[i]).kind = "move" /\ ~MyTurn(i)
      BY <2>4, <3>2 DEF MoveMessage, MyTurn, NotMyTurn
    <3>4. QED
      BY <2>4, <3>3 DEF Awaited
  <2>5. CASE client[i] = "play" /\ ~MyTurn(i) /\ ~NotMyTurn(i)
    <3>1. View(i) = Over(replayed[i] + 1)
      BY <2>5 DEF View, Seen, MyTurn, NotMyTurn
    <3>2. Head(toClient[i]) = Message("reset")
      BY <1>1, <2>1, <3>1, ReadAtOver
    <3>3. QED
      BY <2>5, <3>2 DEF Message, Awaited
  <2>6. QED
    BY <2>1, <2>2, <2>3, <2>4, <2>5
<1>6. QED
  BY <1>3, <1>4, <1>5

\* Every client of this repository stays on its course, in whatever order the
\* server, the clients and those of another make take their steps.
THEOREM ClientsOnCourse == Spec => []CourseInv
<1>1. QED
  BY CourseInit, CourseNext, PTL DEF Spec

\* For any number of clients and any game, whatever is on its way: the messages
\* bear no type, and each is read where it is expected (client.h:40-61).
THEOREM TypedReadsAlways == Spec => []TypedReads
BY ClientsOnCourse, CourseReads, PTL

\* The move of a client of this repository is never refused, however the
\* messages of all the clients are delayed (server.h:159-166).
THEOREM RefusedOnlyStrangersAlways == Spec => []RefusedOnlyStrangers
<1>1. CourseInv => RefusedOnlyStrangers
  BY DEF CourseInv
<1>2. QED
  BY <1>1, ClientsOnCourse, PTL

----
(***************************************************************************)
(* Every client of this repository plays the series of games too.          *)
(***************************************************************************)

\* A client that plays is on a path.
LEMMA OnPath ==
  ASSUME CourseInv, NEW i \in Honest, Playing(i)
  PROVE  \E w : Path(i, toClient[i], View(i), w) /\ View(i) \in Views
<1>1. Course(i) /\ TypeOK /\ toClient[i] \in Seq(Mail)
  BY DEF CourseInv, ChannelsOK, Honest
<1>2. ~Gone(i) /\ ~Left(i) /\ ~Waiting(i) /\ ~Preparing(i)
  BY OnePlace
<1>3. \E w : Follows(i, w)
  BY <1>1, <1>2 DEF Course, Due, Announced, Told, Sent, TypeOK, Stopped
<1>4. QED
  BY <1>1, <1>3, PathViews DEF Follows

\* A step of the client itself is a step of its series, or none.
LEMMA OwnSeriesStep ==
  ASSUME CourseInv, MovesAt(Start) # {}, NEW i \in Honest, ClientStep(i) \/ Ready(i)
  PROVE  ClientSeries(i)!Next \/ UNCHANGED <<replica[i], replayed[i]>>
<1> DEFINE p == replica[i]
           n == replayed[i]
<1>1. /\ i \in Clients /\ toClient[i] \in Seq(Mail)
      /\ replica \in [Clients -> DOMAIN Tree] /\ replayed \in [Clients -> Nat]
  BY DEF CourseInv, ChannelsOK, TypeOK, Honest
<1>2. ASSUME n < MaxGames, NEW m \in MovesAt(p), replica'[i] = After(p, m), replayed'[i] = n
      PROVE  ClientSeries(i)!Next
  BY <1>2 DEF ClientSeries!Next, ClientSeries!Play, ClientSeries!MovesAt, ClientSeries!After,
              MovesAt, After
<1>3. ASSUME n < MaxGames, MovesAt(p) = {}, replica'[i] = Start, replayed'[i] = n + 1
      PROVE  ClientSeries(i)!Next
  BY <1>3 DEF ClientSeries!Next, ClientSeries!EndGame, ClientSeries!MovesAt, MovesAt
<1>4. CASE PlayMove(i)
  <2>1. View(i) = Asked(p, n) /\ Playing(i)
    BY <1>4 DEF PlayMove, View, Playing
  <2>2. Asked(p, n).at = "move" /\ Asked(p, n).games = n
    BY DEF Asked
  <2>3. n < MaxGames
    BY <2>1, <2>2, OnPath DEF Views
  <2>4. PICK m \in MovesAt(p) : replica' = [replica EXCEPT ![i] = After(@, m)]
    BY <1>4 DEF PlayMove
  <2>5. replayed' = replayed
    BY <1>4 DEF PlayMove
  <2>6. QED
    BY <1>1, <1>2, <2>3, <2>4, <2>5
<1>5. CASE ReadMove(i)
  <2>1. View(i) = Seen(p, n) /\ Playing(i) /\ MovesAt(p) # {} /\ Tree[p].player # i
    BY <1>5 DEF ReadMove, View, Playing, NotMyTurn
  <2>2. toClient[i] # <<>> /\ replayed' = replayed
    BY <1>5 DEF ReadMove, Receive
  <2>3. n < MaxGames
    BY <1>1, <2>1, <2>2, OnPath, ReadAtMove
  <2>4. \/ replica' = replica
        \/ \E m \in MovesAt(p) : replica' = [replica EXCEPT ![i] = After(@, m)]
    BY <1>5 DEF ReadMove
  <2>5. QED
    BY <1>1, <1>2, <2>2, <2>3, <2>4
<1>6. CASE GameOver(i) \/ PythonGameOver(i)
  <2>1. View(i) = Over(n + 1) /\ Playing(i) /\ MovesAt(p) = {}
    BY <1>6 DEF GameOver, PythonGameOver, View, Seen, Playing
  <2>2. Over(n + 1).games = n + 1
    BY DEF Over
  <2>3. n + 1 <= MaxGames
    BY <2>1, <2>2, OnPath DEF Views
  <2>4. n < MaxGames
    BY <1>1, <2>3, MatchAssumption
  <2>5. replica'[i] = Start /\ replayed'[i] = n + 1
    BY <1>1, <1>6 DEF GameOver, PythonGameOver
  <2>6. QED
    BY <1>3, <2>1, <2>4, <2>5
<1>7. CASE Initialize(i) \/ ReadDeadline(i) \/ ReadReset(i) \/ ClientFails(i) \/ Ready(i)
  BY <1>7 DEF Initialize, ReadDeadline, ReadReset, ClientFails, Ready
<1>8. QED
  BY <1>4, <1>5, <1>6, <1>7 DEF ClientStep

\* So is every step of the system.
LEMMA ClientSeriesStep ==
  ASSUME CourseInv, MovesAt(Start) # {}, NEW i \in Honest, [Next]_vars
  PROVE  ClientSeries(i)!Next \/ UNCHANGED <<replica[i], replayed[i]>>
<1>1. CASE ServerStep \/ Tick \/ Done \/ UNCHANGED vars
  BY <1>1 DEF ServerStep, Accept, SendPreamble, HandleReady, AllHandled, StartGame, Shutdown,
              AskForMove, ReceiveMove, Broadcast, ApplyMove, EndGame, SendReset, ServerFails,
              Tick, Done, vars, clientVars
<1>2. ASSUME NEW k \in Clients, k # i,
             ClientStep(k) \/ Ready(k) \/ StrangerWrites(k) \/ StrangerLeaves(k)
      PROVE  UNCHANGED <<replica[i], replayed[i]>>
  <2>1. /\ i \in Clients
        /\ replica \in [Clients -> DOMAIN Tree] /\ replayed \in [Clients -> Nat]
    BY DEF CourseInv, TypeOK, Honest
  <2>2. replica'[i] = replica[i]
    BY <1>2, <2>1 DEF ClientStep, Initialize, ReadDeadline, PlayMove, ReadMove, GameOver,
           PythonGameOver, ReadReset, ClientFails, Ready, StrangerWrites, StrangerLeaves, clientVars
  <2>3. replayed'[i] = replayed[i]
    BY <1>2, <2>1 DEF ClientStep, Initialize, ReadDeadline, PlayMove, ReadMove, GameOver,
           PythonGameOver, ReadReset, ClientFails, Ready, StrangerWrites, StrangerLeaves, clientVars
  <2>4. QED
    BY <2>2, <2>3
<1>3. CASE StrangerWrites(i) \/ StrangerLeaves(i)
  BY <1>3 DEF StrangerWrites, StrangerLeaves, clientVars
<1>4. CASE ClientStep(i) \/ Ready(i)
  BY <1>4, OwnSeriesStep
<1>5. QED
  BY <1>1, <1>2, <1>3, <1>4 DEF Next

\* With a move to make at the start, the copy of the game of each client goes
\* through a series of at most MaxGames games, each by legal moves to its end,
\* whatever the others do and wherever the server stops (start_random_client.cc:76).
\* (Without one the copies would go on ending games by themselves.)
THEOREM ClientSeriesPlayed ==
  ASSUME MovesAt(Start) # {}
  PROVE  Spec => ClientsPlaySeries
<1>1. Init => ClientsInit
  BY DEF Init, ClientsInit, ClientSeries!Init, Honest
<1>2. CourseInv /\ [Next]_vars => [ClientsNext]_<<replica, replayed>>
  BY ClientSeriesStep DEF ClientsNext
<1>3. QED
  BY <1>1, <1>2, CourseInit, CourseNext, PTL DEF Spec, ClientsPlaySeries

----
(***************************************************************************)
(* Induction over the numbers, as the library's theorem on well-founded    *)
(* relations gives it for a set T, and folds over finite sets by it.       *)
(***************************************************************************)

\* A set with 0 and with the successor of each of its numbers has them all.
LEMMA NatInduct ==
  ASSUME NEW T, 0 \in T, \A n \in Nat : n \in T => n + 1 \in T
  PROVE  \A n \in Nat : n \in T
<1> DEFINE U == {n \in Nat : n \notin T}
           R == OpToRel(<, Nat)
<1>1. IsWellFoundedOn(R, Nat)
  BY NatLessThanWellFounded
<1>2. \A m, n \in Nat : m < n => <<m, n>> \in R
  BY Zenon DEF OpToRel
<1> HIDE DEF R
<1>3. SUFFICES ASSUME U # {} PROVE FALSE
  OBVIOUS
<1>4. PICK n \in U : \A m \in U : ~ (<<m, n>> \in R)
  BY <1>1, <1>3, WFMin
<1>5. n \in Nat /\ n # 0 /\ n - 1 \in Nat /\ n - 1 < n
  OBVIOUS
<1>6. n - 1 \notin U
  BY <1>2, <1>4, <1>5
<1>7. QED
  BY <1>5, <1>6

\* Choosing from the subsets of S and adding what was chosen to a value of V; and
\* the values that the subsets then have.
IsStep(S, V, base, pick, step) ==
  /\ IsFiniteSet(S) /\ base \in V
  /\ \A s \in SUBSET S : s # {} => pick[s] \in s
  /\ \A x \in S, v \in V : step[x][v] \in V

IsFold(iter, S, base, pick, step) ==
  \A s \in SUBSET S :
    iter[s] = IF s = {} THEN base ELSE step[pick[s]][iter[s \ {pick[s]}]]

\* The recursive function of a fold over a finite set exists, whatever the order.
LEMMA FoldExists ==
  ASSUME NEW S, NEW V, NEW base, NEW pick, NEW step, IsStep(S, V, base, pick, step)
  PROVE  \E iter \in [SUBSET S -> V] : IsFold(iter, S, base, pick, step)
<1> USE DEF IsStep, IsFold
<1> DEFINE Small(n) == {s \in SUBSET S : Cardinality(s) <= n}
           Folds(iter, n) == \A s \in Small(n) :
             iter[s] = IF s = {} THEN base ELSE step[pick[s]][iter[s \ {pick[s]}]]
           T == {n \in Nat : \E iter \in [Small(n) -> V] : Folds(iter, n)}
<1>1. ASSUME NEW s \in SUBSET S
      PROVE  /\ Cardinality(s) \in Nat /\ (Cardinality(s) = 0 <=> s = {})
             /\ Cardinality(s) <= Cardinality(S)
             /\ s # {} => s \ {pick[s]} \in SUBSET S
                          /\ Cardinality(s \ {pick[s]}) = Cardinality(s) - 1
  <2>1. IsFiniteSet(s) /\ Cardinality(s) \in Nat /\ Cardinality(s) <= Cardinality(S)
    BY FS_Subset, FS_CardinalityType
  <2>2. Cardinality(s) = 0 <=> s = {}
    BY <2>1, FS_EmptySet
  <2>3. s # {} => Cardinality(s \ {pick[s]}) = Cardinality(s) - 1
    BY <2>1, FS_RemoveElement
  <2>4. QED
    BY <2>1, <2>2, <2>3
<1>2. 0 \in T
  <2> DEFINE g == [s \in Small(0) |-> base]
  <2>1. ASSUME NEW s \in Small(0) PROVE s = {}
    <3>1. s \in SUBSET S
      OBVIOUS
    <3>2. Cardinality(s) \in Nat /\ Cardinality(s) <= 0
      BY <1>1
    <3>3. Cardinality(s) = 0
      BY <3>2
    <3> HIDE DEF Small
    <3>4. QED
      BY <1>1, <3>1, <3>3
  <2>2. g \in [Small(0) -> V] /\ Folds(g, 0)
    BY <2>1
  <2> HIDE DEF Small, Folds, g
  <2>3. QED
    BY <2>2
<1>3. ASSUME NEW n \in Nat, n \in T PROVE n + 1 \in T
  <2>1. PICK f \in [Small(n) -> V] : Folds(f, n)
    BY <1>3
  <2> DEFINE g == [s \in Small(n + 1) |-> IF s \in Small(n) THEN f[s]
                                          ELSE step[pick[s]][f[s \ {pick[s]}]]]
  <2>2. ASSUME NEW s \in Small(n + 1), s # {}
        PROVE  /\ s \ {pick[s]} \in Small(n) /\ pick[s] \in S
               /\ s \ {pick[s]} \in Small(n + 1)
    BY <1>1, <2>2
  <2>3. Small(n) \subseteq Small(n + 1) /\ {} \in Small(n)
    <3>1. Cardinality({}) = 0
      BY FS_EmptySet
    <3>2. \A s \in Small(n) : Cardinality(s) \in Nat
      BY <1>1
    <3>3. QED
      BY <3>1, <3>2
  <2>4. g \in [Small(n + 1) -> V]
    <3> SUFFICES ASSUME NEW s \in Small(n + 1), s \notin Small(n)
                 PROVE  step[pick[s]][f[s \ {pick[s]}]] \in V
      BY <2>1
    <3> HIDE DEF Small
    <3>1. s # {}
      BY <2>3
    <3>2. QED
      BY <2>1, <2>2, <3>1
  <2>5. Folds(g, n + 1)
    <3> SUFFICES ASSUME NEW s \in Small(n + 1)
                 PROVE  g[s] = IF s = {} THEN base ELSE step[pick[s]][g[s \ {pick[s]}]]
      OBVIOUS
    <3> HIDE DEF Small
    <3>1. CASE s = {}
      BY <2>1, <2>3, <3>1
    <3>2. CASE s # {}
      <4>1. g[s \ {pick[s]}] = f[s \ {pick[s]}]
        BY <2>2, <3>2
      <4>2. QED
        BY <2>1, <2>2, <3>2, <4>1
    <3>3. QED
      BY <3>1, <3>2
  <2> HIDE DEF Small, Folds, g
  <2>6. QED
    BY <2>4, <2>5
<1>4. Small(Cardinality(S)) = SUBSET S
  BY <1>1
<1>5. Cardinality(S) \in T
  <2> HIDE DEF T
  <2>1. QED
    BY <1>2, <1>3, NatInduct, FS_CardinalityType
<1>6. QED
  BY <1>4, <1>5

----
(***************************************************************************)
(* What was done is told: the log, the results, the copies of the clients. *)
(* All three are folds.                                                    *)
(***************************************************************************)

\* The intervals that the fold of a sequence goes through.
LEMMA LastOf ==
  ASSUME NEW n \in Nat, n # 0
  PROVE  /\ Max(1 .. n) = n /\ (1 .. n) \ {n} = 1 .. n - 1
         /\ 1 .. n # {} /\ 1 .. n - 1 \in SUBSET (1 .. n)
<1>1. n \in 1 .. n /\ \A y \in 1 .. n : n >= y
  OBVIOUS
<1>2. \A x \in 1 .. n : (\A y \in 1 .. n : x >= y) => x = n
  BY <1>1
<1>3. QED
  BY <1>1, <1>2 DEF Max

\* The largest element of a finite set of numbers is one of them.
LEMMA MaxOf ==
  ASSUME NEW n \in Nat, NEW s \in SUBSET (1 .. n), s # {}
  PROVE  Max(s) \in s
<1> DEFINE T == {k \in Nat : \A u \in SUBSET (1 .. k) :
                   u # {} => \E x \in u : \A y \in u : x >= y}
<1>1. 0 \in T
  <2>1. 1 .. 0 = {}
    OBVIOUS
  <2>2. QED
    BY <2>1
<1>2. ASSUME NEW k \in Nat, k \in T PROVE k + 1 \in T
  <2> SUFFICES ASSUME NEW u \in SUBSET (1 .. k + 1), u # {}
               PROVE  \E x \in u : \A y \in u : x >= y
    OBVIOUS
  <2>1. CASE k + 1 \in u
    BY <2>1
  <2>2. CASE k + 1 \notin u
    BY <1>2, <2>2
  <2>3. QED
    BY <2>1, <2>2
<1>3. n \in T
  <2> HIDE DEF T
  <2>1. QED
    BY <1>1, <1>2, NatInduct
<1>4. QED
  BY <1>3 DEF Max

\* What the fold over messages is: it takes a message at a time, the first first.
LEMMA LedRun ==
  ASSUME NEW from \in DOMAIN Tree, NEW q \in Seq(Mail)
  PROVE  \E run \in [0 .. Len(q) -> DOMAIN Tree] :
           /\ run[0] = from /\ run[Len(q)] = Led(from, q)
           /\ \A n \in 1 .. Len(q) : run[n] = Following(run[n - 1], q[n])
<1> DEFINE S == DOMAIN q
           V == DOMAIN Tree
           Body(it) == [s \in SUBSET S |->
                          IF s = {} THEN from
                          ELSE Following(it[s \ {Max(s)}], q[Max(s)])]
           pick == [s \in SUBSET S |-> Max(s)]
           step == [n \in S |-> [p \in V |-> Following(p, q[n])]]
           fold == CHOOSE it : it = Body(it)
<1>1. Len(q) \in Nat /\ S = 1 .. Len(q) /\ IsFiniteSet(S) /\ from \in V
  BY FS_Interval
<1>2. ASSUME NEW n \in S, NEW p \in V PROVE Following(p, q[n]) \in V
  BY MatchAssumption DEF Following, MovesAt, After
<1>3. \A s \in SUBSET S : s # {} => pick[s] \in s
  BY <1>1, MaxOf
<1>4. \E it : it \in [SUBSET S -> V] /\ it = Body(it)
  <2>1. IsStep(S, V, from, pick, step)
    BY <1>1, <1>2, <1>3 DEF IsStep
  <2>2. PICK it \in [SUBSET S -> V] : IsFold(it, S, from, pick, step)
    <3> HIDE DEF pick, step, S, V
    <3>1. QED
      BY <2>1, FoldExists
  <2>3. ASSUME NEW s \in SUBSET S, s # {}
        PROVE  step[pick[s]][it[s \ {pick[s]}]] = Following(it[s \ {Max(s)}], q[Max(s)])
    <3>1. pick[s] = Max(s) /\ Max(s) \in S /\ s \ {Max(s)} \in SUBSET S
      BY <1>3, <2>3
    <3> HIDE DEF pick, S
    <3>2. QED
      BY <2>2, <3>1
  <2>4. it = Body(it)
    <3> HIDE DEF step, pick, S, V
    <3>1. QED
      BY <2>2, <2>3 DEF IsFold
  <2>5. QED
    BY <2>2, <2>4
<1>5. fold = Body(fold)
  <2> HIDE DEF Body
  <2>1. QED
    BY <1>4
<1>6. Led(from, q) = fold[S]
  BY DEF Led, FoldLeft, MapThenFoldSet
<1>7. /\ fold[{}] = from
      /\ \A n \in 1 .. Len(q) : fold[1 .. n] = Following(fold[1 .. n - 1], q[n])
  <2>1. ASSUME NEW s \in SUBSET S
        PROVE  fold[s] = IF s = {} THEN from
                         ELSE Following(fold[s \ {Max(s)}], q[Max(s)])
    <3> DEFINE it == fold
    <3>1. it = Body(it)
      BY <1>5
    <3> HIDE DEF it, S
    <3>2. it[s] = IF s = {} THEN from ELSE Following(it[s \ {Max(s)}], q[Max(s)])
      BY <3>1
    <3>3. QED
      BY <3>2 DEF it
  <2> HIDE DEF fold
  <2>2. fold[{}] = from
    BY <2>1
  <2>3. ASSUME NEW n \in 1 .. Len(q)
        PROVE  fold[1 .. n] = Following(fold[1 .. n - 1], q[n])
    <3>1. 1 .. n \in SUBSET S
      BY <1>1
    <3>2. Max(1 .. n) = n /\ (1 .. n) \ {n} = 1 .. n - 1 /\ 1 .. n # {}
      BY <1>1, LastOf
    <3>3. QED
      BY <2>1, <3>1, <3>2
  <2>4. QED
    BY <2>2, <2>3
<1> DEFINE run == [n \in 0 .. Len(q) |-> fold[1 .. n]]
           T == {n \in Nat : n <= Len(q) => run[n] \in V}
<1> HIDE DEF fold
<1>8. 1 .. 0 = {}
  OBVIOUS
<1>9. /\ run[0] = from /\ run[Len(q)] = Led(from, q)
      /\ \A n \in 1 .. Len(q) : run[n] = Following(run[n - 1], q[n])
  BY <1>1, <1>6, <1>7, <1>8
<1>10. \A n \in Nat : n \in T
  <2>1. 0 \in T
    BY <1>1, <1>9
  <2>2. ASSUME NEW n \in Nat, n \in T PROVE n + 1 \in T
    <3> HIDE DEF run
    <3>1. CASE n + 1 <= Len(q)
      <4>1. n + 1 \in S /\ run[n] \in V
        BY <1>1, <2>2, <3>1
      <4>2. run[n + 1] = Following(run[n], q[n + 1])
        BY <1>1, <1>9, <4>1
      <4>3. QED
        BY <1>2, <4>1, <4>2
    <3>2. QED
      BY <3>1
  <2>3. QED
    <3> HIDE DEF T
    <3>1. QED
      BY <2>1, <2>2, NatInduct
<1>11. run \in [0 .. Len(q) -> V]
  <2>1. \A n \in Nat : n <= Len(q) => run[n] \in V
    BY <1>10
  <2>2. QED
    BY <1>1, <2>1
<1>12. QED
  BY <1>9, <1>11

\* Nothing leads nowhere.
LEMMA LedNone ==
  ASSUME NEW from \in DOMAIN Tree, NEW q \in Seq(Mail)
  PROVE  q = <<>> => Led(from, q) = from
<1>1. PICK run \in [0 .. Len(q) -> DOMAIN Tree] :
        /\ run[0] = from /\ run[Len(q)] = Led(from, q)
        /\ \A n \in 1 .. Len(q) : run[n] = Following(run[n - 1], q[n])
  BY LedRun
<1>2. q = <<>> => Len(q) = 0
  OBVIOUS
<1>3. QED
  BY <1>1, <1>2

\* One more message leads one step on.
LEMMA LedOnward ==
  ASSUME NEW from \in DOMAIN Tree, NEW q \in Seq(Mail), NEW msg \in Mail
  PROVE  /\ Led(from, q) \in DOMAIN Tree
         /\ Led(from, Append(q, msg)) = Following(Led(from, q), msg)
<1> DEFINE r == Append(q, msg)
<1>1. /\ r \in Seq(Mail) /\ Len(q) \in Nat /\ Len(r) = Len(q) + 1 /\ r[Len(r)] = msg
      /\ \A n \in 1 .. Len(q) : r[n] = q[n]
  OBVIOUS
<1>2. PICK run \in [0 .. Len(q) -> DOMAIN Tree] :
        /\ run[0] = from /\ run[Len(q)] = Led(from, q)
        /\ \A n \in 1 .. Len(q) : run[n] = Following(run[n - 1], q[n])
  BY LedRun
<1> HIDE DEF r
<1>3. PICK more \in [0 .. Len(r) -> DOMAIN Tree] :
        /\ more[0] = from /\ more[Len(r)] = Led(from, r)
        /\ \A n \in 1 .. Len(r) : more[n] = Following(more[n - 1], r[n])
  BY <1>1, LedRun
<1> DEFINE T == {n \in Nat : n <= Len(q) => more[n] = run[n]}
<1>4. 0 \in T
  BY <1>2, <1>3
<1>5. ASSUME NEW n \in Nat, n \in T PROVE n + 1 \in T
  <2>1. CASE n + 1 <= Len(q)
    <3>1. n + 1 \in 1 .. Len(q) /\ n + 1 \in 1 .. Len(r) /\ (n + 1) - 1 = n
      BY <1>1, <2>1
    <3>2. more[n] = run[n]
      BY <1>1, <1>5, <2>1
    <3>3. more[n + 1] = Following(more[n], r[n + 1]) /\ run[n + 1] = Following(run[n], q[n + 1])
      BY <1>2, <1>3, <3>1
    <3>4. QED
      BY <1>1, <3>1, <3>2, <3>3
  <2>2. QED
    BY <2>1
<1>6. Len(q) \in T
  <2> HIDE DEF T
  <2>1. QED
    BY <1>1, <1>4, <1>5, NatInduct
<1>7. more[Len(q)] = run[Len(q)]
  BY <1>1, <1>6
<1>8. more[Len(r)] = Following(more[Len(q)], msg)
  <2>1. Len(r) \in 1 .. Len(r) /\ Len(r) - 1 = Len(q)
    BY <1>1
  <2>2. QED
    BY <1>1, <1>3, <2>1
<1>9. Led(from, q) \in DOMAIN Tree
  BY <1>1, <1>2
<1>10. QED
  BY <1>2, <1>3, <1>7, <1>8, <1>9 DEF r

----
(***************************************************************************)
(* The copies of the clients.                                              *)
(***************************************************************************)

\* A client's copy that will be at p when its view is v.
InView(p, v) == IF v.at = "over" THEN Renewed(p) = Start ELSE p = v.pos

\* Reading a message keeps position and view together.
LEMMA InViewStep ==
  ASSUME NEW i, NEW v \in Views, NEW w \in Views, NEW msg, Takes(i, v, msg, w),
         NEW p, InView(p, v)
  PROVE  InView(Following(p, msg), w)
<1>1. \A x, n : InView(x, Seen(x, n)) /\ InView(x, Asked(x, n))
  BY DEF InView, Seen, Asked, Over, Renewed
<1>2. CASE v = Over(v.games) /\ msg = Message("reset") /\ w = Seen(Start, v.games)
  <2>1. Following(p, msg) = Start
    BY <1>2 DEF Following, Message
  <2>2. QED
    BY <1>1, <1>2, <2>1
<1>3. CASE v.at = "play" /\ msg = Message("deadline") /\ w = Asked(v.pos, v.games)
  <2>1. Following(p, msg) = p /\ p = v.pos
    BY <1>3 DEF Following, Message, InView
  <2>2. QED
    BY <1>1, <1>3, <2>1
<1>4. ASSUME v.at = "play", NEW m \in MovesAt(v.pos), msg = MoveMessage(m),
             w = Seen(After(v.pos, m), v.games)
      PROVE  InView(Following(p, msg), w)
  <2>1. p = v.pos /\ Following(p, msg) = After(p, m)
    BY <1>4 DEF Following, MoveMessage, InView
  <2>2. QED
    BY <1>1, <1>4, <2>1
<1>5. QED
  BY <1>2, <1>3, <1>4 DEF Takes

\* So does reading all the messages of a path.
LEMMA InViewPath ==
  ASSUME NEW i, NEW q \in Seq(Mail), NEW v, NEW w, Path(i, q, v, w),
         NEW from \in DOMAIN Tree, InView(from, v)
  PROVE  InView(Led(from, q), w)
<1>1. PICK p \in [1 .. Len(q) + 1 -> Views] :
        /\ p[1] = v /\ p[Len(q) + 1] = w
        /\ \A n \in 1 .. Len(q) : Takes(i, p[n], q[n], p[n + 1])
  BY DEF Path
<1>2. PICK run \in [0 .. Len(q) -> DOMAIN Tree] :
        /\ run[0] = from /\ run[Len(q)] = Led(from, q)
        /\ \A n \in 1 .. Len(q) : run[n] = Following(run[n - 1], q[n])
  BY LedRun
<1> DEFINE T == {n \in Nat : n <= Len(q) => InView(run[n], p[n + 1])}
<1>3. 0 \in T
  BY <1>1, <1>2
<1>4. ASSUME NEW n \in Nat, n \in T PROVE n + 1 \in T
  <2> SUFFICES ASSUME n + 1 <= Len(q) PROVE InView(run[n + 1], p[(n + 1) + 1])
    OBVIOUS
  <2>1. n + 1 \in 1 .. Len(q) /\ (n + 1) - 1 = n /\ n <= Len(q)
    OBVIOUS
  <2>2. InView(run[n], p[n + 1])
    BY <1>4, <2>1
  <2>3. Takes(i, p[n + 1], q[n + 1], p[(n + 1) + 1]) /\ run[n + 1] = Following(run[n], q[n + 1])
    BY <1>1, <1>2, <2>1
  <2>4. p[n + 1] \in Views /\ p[(n + 1) + 1] \in Views
    BY <1>1
  <2>5. QED
    BY <2>2, <2>3, <2>4, InViewStep
<1>5. Len(q) \in T
  <2>1. Len(q) \in Nat
    OBVIOUS
  <2> HIDE DEF T
  <2>2. QED
    BY <2>1, <1>3, <1>4, NatInduct
<1>6. QED
  BY <1>1, <1>2, <1>5

\* What follows of a client's course for its copy.
LEMMA ArrivedInView ==
  ASSUME TypeOK, ChannelsOK, NEW i \in Clients, NEW w, Follows(i, w)
  PROVE  InView(Arrived(i), w)
<1>1. InView(replica[i], View(i))
  BY DEF Follows, InGame, Playing, View, InView, Seen, Asked, Over, Renewed
<1>2. toClient[i] \in Seq(Mail) /\ replica[i] \in DOMAIN Tree /\ Path(i, toClient[i], View(i), w)
  BY DEF Follows, ChannelsOK, TypeOK
<1>3. QED
  BY <1>1, <1>2, InViewPath DEF Arrived

\* All copies are on their way to the server's position.
LEMMA CourseReplicas == CourseInv => ReplicasAgree
<1> SUFFICES ASSUME CourseInv, server \in {"turn", "read"}, NEW i \in Honest, Playing(i)
             PROVE  \/ toServer[i] = <<>> /\ Renewed(Arrived(i)) = Renewed(state)
                    \/ /\ i = Mover /\ Len(toServer[i]) = 1
                       /\ Head(toServer[i]).move \in MovesAt(state)
                       /\ Renewed(Arrived(i))
                            = Renewed(After(state, Head(toServer[i]).move))
  BY DEF ReplicasAgree
<1>1. TypeOK /\ ChannelsOK /\ i \in Clients /\ Due(i)
  BY DEF CourseInv, Course, Stopped, Left, Gone, Playing, Honest
<1>2. \A p, n : InView(Arrived(i), Seen(p, n)) => Renewed(Arrived(i)) = Renewed(p)
  BY DEF InView, Seen, Over, Renewed
<1>3. \A p, n : InView(Arrived(i), Asked(p, n)) => Arrived(i) = p
  BY DEF InView, Asked
<1>4. CASE Told(i, Seen(state, games)) \/ Told(i, Asked(state, games))
  BY <1>1, <1>2, <1>3, <1>4, ArrivedInView DEF Told
<1>5. ASSUME i = Mover, NEW m \in MovesAt(state),
             Sent(i, MoveMessage(m), Seen(After(state, m), games))
      PROVE  /\ Len(toServer[i]) = 1 /\ Head(toServer[i]).move = m
             /\ Renewed(Arrived(i)) = Renewed(After(state, m))
  <2>1. toServer[i] = <<MoveMessage(m)>> /\ Follows(i, Seen(After(state, m), games))
    BY <1>5 DEF Sent
  <2>2. Renewed(Arrived(i)) = Renewed(After(state, m))
    BY <1>1, <1>2, <2>1, ArrivedInView
  <2>3. QED
    BY <2>1, <2>2 DEF MoveMessage
<1>6. QED
  BY <1>1, <1>4, <1>5 DEF Due

\* Whatever is on its way, the copy of the game in every client of this repository
\* will be where the server's is, or one move ahead with the move it has sent, when
\* the server is to ask for a move (server.h:124, start_random_client.cc:76-98).
THEOREM ReplicasAlwaysAgree == Spec => []ReplicasAgree
BY ClientsOnCourse, CourseReplicas, PTL

----
(***************************************************************************)
(* The log of moves.                                                       *)
(***************************************************************************)
LogInv == log \in Seq(Mail) /\ LogReplays

Readable == \A msg \in ToSet(log) : msg.kind # "half"

\* A move that was read: its line leads on as the server will go, or is the last.
LEMMA LogReceive ==
  ASSUME TypeOK, ChannelsOK, LogInv, ReceiveMove
  PROVE  LogInv'
<1> DEFINE msg == Head(toServer[Mover])
<1>1. state \in DOMAIN Tree /\ MovesAt(state) # {} /\ server = "read" /\ state' = state
  BY DEF TypeOK, ReceiveMove
<1>2. Mover \in Clients
  BY <1>1, MatchAssumption DEF Mover, MovesAt
<1>3. msg \in Mail /\ log \in Seq(Mail) /\ log' = Append(log, msg)
  BY <1>2 DEF ReceiveMove, ChannelsOK, LogInv
<1> HIDE DEF msg
<1>4. /\ log' \in Seq(Mail) /\ Front(log') = log /\ Last(log') = msg
      /\ log \in Seq(Mail) /\ ToSet(log') = ToSet(log) \cup {msg}
  BY <1>3 DEF Front, Last, ToSet
<1>5. SUFFICES ASSUME Readable' PROVE LogReplays'
  BY <1>4 DEF LogInv, LogReplays, Readable
<1>6. Led(Start, log) = state
  <2>1. \A line \in ToSet(log) : line.kind # "half"
    BY <1>4, <1>5 DEF Readable
  <2>2. QED
    BY <1>1, <2>1 DEF LogInv, LogReplays
<1>7. msg.kind # "half"
  BY <1>4, <1>5 DEF Readable
<1>8. PICK m \in DecodeMove(msg) :
        IF m \in MovesAt(state) THEN server' = "broadcast" /\ move' = m
        ELSE server' = "illegal" /\ UNCHANGED move
  BY DEF ReceiveMove, msg
<1>9. DecodeMove(msg) = {m} /\ (m \in MovesAt(state) => msg.kind = "move" /\ m = msg.move)
  <2>1. "nonsense" \notin MovesAt(state)
    BY <1>1, MatchAssumption DEF AllMoves
  <2>2. QED
    BY <1>7, <1>8, <2>1 DEF DecodeMove
<1>10. Led(Start, log') = Following(state, msg)
  BY <1>3, <1>6, LedOnward, MatchAssumption
<1>11. CASE m \in MovesAt(state)
  <2>1. Following(state, msg) = After(state, m)
    BY <1>9, <1>11 DEF Following
  <2>2. QED
    BY <1>1, <1>8, <1>10, <1>11, <2>1 DEF LogReplays
<1>12. CASE m \notin MovesAt(state)
  <2>1. server' = "illegal" /\ Front(log') = log /\ Last(log') = msg
    BY <1>4, <1>8, <1>12
  <2>2. MovesAt(state) \cap DecodeMove(msg) = {}
    BY <1>9, <1>12
  <2>3. QED
    BY <1>1, <1>6, <2>1, <2>2 DEF LogReplays, MovesAt, DecodeMove, AllMoves
<1>13. QED
  BY <1>11, <1>12

\* Every other step.
LEMMA LogStep ==
  ASSUME CourseInv, LogInv, [Next]_vars
  PROVE  LogInv'
<1>1. TypeOK /\ ChannelsOK /\ Rounds /\ log \in Seq(Mail) /\ LogReplays
  BY DEF CourseInv, LogInv
<1>2. CASE ReceiveMove
  BY <1>1, <1>2, LogReceive
<1>3. CASE SendReset
  <2>1. server = "reset" /\ state' = state /\ state = Start
    BY <1>1, <1>3 DEF SendReset, Rounds
  <2>2. \/ server' = "reset" /\ log' = log
        \/ server' = "series" /\ log' = <<>>
    BY <1>3 DEF SendReset, Onward
  <2>3. CASE server' = "reset" /\ log' = log
    BY <1>1, <2>1, <2>3 DEF LogInv, LogReplays, MovesAt
  <2>4. CASE server' = "series" /\ log' = <<>>
    <3>1. log' \in Seq(Mail) /\ log' = <<>>
      BY <2>4
    <3>2. Led(Start, log') = Start
      BY <3>1, LedNone, MatchAssumption
    <3>3. QED
      BY <2>1, <2>4, <3>1, <3>2 DEF LogInv, LogReplays
  <2>5. QED
    BY <2>2, <2>3, <2>4
<1>4. CASE ApplyMove
  BY <1>1, <1>4 DEF ApplyMove, LogInv, LogReplays
<1>5. CASE EndGame
  BY <1>1, <1>5 DEF EndGame, LogInv, LogReplays, MovesAt
<1>6. CASE Broadcast
  <2>1. /\ server = "broadcast" /\ server' \in {"broadcast", "apply"}
        /\ log' = log /\ state' = state /\ move' = move
    BY <1>6 DEF Broadcast, Onward
  <2>2. After(state, move)' = After(state, move)
    BY <2>1 DEF After
  <2>3. QED
    BY <1>1, <2>1, <2>2 DEF LogInv, LogReplays
<1>7. CASE ServerFails
  BY <1>1, <1>7 DEF ServerFails, LogInv, LogReplays
<1>8. CASE \/ Accept \/ SendPreamble \/ AllHandled \/ StartGame \/ Shutdown \/ AskForMove
  <2>1. /\ server \in {"accept", "preamble", "ready", "series", "turn"}
        /\ server' \in {"accept", "preamble", "ready", "series", "turn", "read", "finished"}
        /\ log' = log /\ state' = state
    BY <1>8 DEF Accept, SendPreamble, AllHandled, StartGame, Shutdown, AskForMove, Onward
  <2>2. QED
    BY <1>1, <2>1 DEF LogInv, LogReplays
<1>9. ASSUME UNCHANGED <<server, log, state, move>> PROVE LogInv'
  BY <1>1, <1>9 DEF LogInv, LogReplays, After, MovesAt, DecodeMove
<1>10. CASE \/ \E i \in Clients : \/ HandleReady(i) \/ ClientStep(i) \/ Ready(i)
                                  \/ StrangerWrites(i) \/ StrangerLeaves(i)
            \/ Tick \/ Done \/ UNCHANGED vars
  <2>1. UNCHANGED <<server, log, state, move>>
    BY <1>10 DEF HandleReady, ClientStep, Initialize, ReadDeadline, PlayMove, ReadMove,
           GameOver, PythonGameOver, ReadReset, ClientFails, Ready, StrangerWrites,
           StrangerLeaves, Tick, Done, vars, serverVars
  <2>2. QED
    BY <1>9, <2>1
<1>11. QED
  BY <1>2, <1>3, <1>4, <1>5, <1>6, <1>7, <1>8, <1>10 DEF Next, ServerStep

\* For every game and whatever clients of another make write: the lines logged since
\* the last `reset' lead from the start to where the server is, the last one but an
\* illegal move that ended the match (server.h:158).
THEOREM LogAlwaysReplays == Spec => []LogReplays
<1>1. Init => LogInv
  <2> SUFFICES ASSUME Init PROVE LogInv
    OBVIOUS
  <2>1. log \in Seq(Mail) /\ log = <<>> /\ server = "accept" /\ state = Start
    BY DEF Init
  <2>2. Led(Start, log) = Start
    BY <2>1, LedNone, MatchAssumption
  <2>3. QED
    BY <2>1, <2>2 DEF LogInv, LogReplays
<1>2. CourseInv /\ LogInv /\ [Next]_vars => LogInv'
  BY LogStep
<1>3. LogInv => LogReplays
  BY DEF LogInv
<1>4. QED
  BY <1>1, <1>2, <1>3, ClientsOnCourse, PTL DEF Spec

----
(***************************************************************************)
(* The results.                                                            *)
(***************************************************************************)

\* The function that a sum over some of the clients is read from.
IsSum(sum, f) ==
  \A s \in SUBSET Clients :
    sum[s] = IF s = {} THEN 0
             ELSE LET i == CHOOSE i \in s : TRUE IN f[i] + sum[s \ {i}]

\* There are finitely many clients.
LEMMA SomeClients ==
  /\ IsFiniteSet(Clients)
  /\ \A s \in SUBSET Clients : /\ IsFiniteSet(s) /\ Cardinality(s) \in Nat
                               /\ Cardinality(s) = 0 => s = {}
                               /\ \A i \in s : Cardinality(s \ {i}) = Cardinality(s) - 1
<1>1. IsFiniteSet(Clients)
  BY MatchAssumption, FS_Interval
<1>2. ASSUME NEW s \in SUBSET Clients
      PROVE  /\ IsFiniteSet(s) /\ Cardinality(s) \in Nat /\ (Cardinality(s) = 0 => s = {})
             /\ \A i \in s : Cardinality(s \ {i}) = Cardinality(s) - 1
  BY <1>1, FS_Subset, FS_CardinalityType, FS_EmptySet, FS_RemoveElement
<1>3. QED
  BY <1>1, <1>2

\* SumOf is read from such a function.
LEMMA SumFunctionOf ==
  ASSUME NEW f \in [Clients -> Nat]
  PROVE  \E sum : IsSum(sum, f) /\ SumOf(f) = sum[Clients]
<1> DEFINE Body(it) == [s \in SUBSET Clients |->
                          IF s = {} THEN 0
                          ELSE f[CHOOSE i \in s : TRUE]
                                 + it[s \ {CHOOSE i \in s : TRUE}]]
           pick == [s \in SUBSET Clients |-> CHOOSE i \in s : TRUE]
           step == [i \in Clients |-> [n \in Nat |-> f[i] + n]]
           sum == CHOOSE it : it = Body(it)
<1>1. \A s \in SUBSET Clients : s # {} => pick[s] \in s
  OBVIOUS
<1>2. \E it : it = Body(it)
  <2>1. IsStep(Clients, Nat, 0, pick, step)
    <3>1. \A i \in Clients, n \in Nat : step[i][n] \in Nat
      OBVIOUS
    <3> HIDE DEF pick, step
    <3>2. QED
      BY <1>1, <3>1, SomeClients DEF IsStep
  <2>2. PICK it \in [SUBSET Clients -> Nat] : IsFold(it, Clients, 0, pick, step)
    <3> HIDE DEF pick, step
    <3>1. QED
      BY <2>1, FoldExists
  <2>3. ASSUME NEW s \in SUBSET Clients, s # {}
        PROVE  step[pick[s]][it[s \ {pick[s]}]]
                 = f[CHOOSE i \in s : TRUE] + it[s \ {CHOOSE i \in s : TRUE}]
    <3>1. /\ pick[s] = CHOOSE i \in s : TRUE
          /\ pick[s] \in Clients /\ s \ {pick[s]} \in SUBSET Clients
      BY <1>1, <2>3
    <3> HIDE DEF pick
    <3>2. QED
      BY <2>2, <3>1
  <2>4. it = Body(it)
    <3> HIDE DEF step, pick
    <3>1. QED
      BY <2>2, <2>3 DEF IsFold
  <2>5. QED
    BY <2>4
<1>3. sum = Body(sum)
  <2> HIDE DEF Body
  <2>1. QED
    BY <1>2
<1>4. SumOf(f) = sum[Clients]
  BY DEF SumOf, FoldFunctionOnSet, MapThenFoldSet
<1>5. IsSum(sum, f)
  <2> DEFINE it == sum
  <2>1. it = Body(it)
    BY <1>3
  <2> HIDE DEF it
  <2>2. IsSum(it, f)
    BY <2>1 DEF IsSum
  <2>3. QED
    BY <2>2 DEF it
<1> HIDE DEF sum
<1>6. QED
  BY <1>4, <1>5

\* No charges make no sum.
LEMMA SumNone ==
  ASSUME NEW f \in [Clients -> Nat], \A i \in Clients : f[i] = 0
  PROVE  SumOf(f) = 0
<1>1. PICK sum : IsSum(sum, f) /\ SumOf(f) = sum[Clients]
  BY SumFunctionOf
<1> DEFINE T == {n \in Nat : \A s \in SUBSET Clients : Cardinality(s) = n => sum[s] = 0}
<1>2. 0 \in T
  BY <1>1, SomeClients DEF IsSum
<1>3. ASSUME NEW n \in Nat, n \in T PROVE n + 1 \in T
  <2> SUFFICES ASSUME NEW s \in SUBSET Clients, Cardinality(s) = n + 1 PROVE sum[s] = 0
    OBVIOUS
  <2>1. s # {}
    <3>1. Cardinality({}) = 0
      BY FS_EmptySet
    <3>2. QED
      BY <3>1
  <2> DEFINE i == CHOOSE i \in s : TRUE
  <2>2. i \in s /\ i \in Clients
    BY <2>1
  <2>3. sum[s] = f[i] + sum[s \ {i}]
    BY <1>1, <2>1 DEF IsSum
  <2> HIDE DEF i
  <2>4. s \ {i} \in SUBSET Clients /\ Cardinality(s \ {i}) = n
    <3>1. Cardinality(s \ {i}) = Cardinality(s) - 1
      BY <2>2, SomeClients
    <3>2. QED
      BY <3>1
  <2>5. sum[s \ {i}] = 0
    BY <1>3, <2>4
  <2>6. QED
    BY <2>2, <2>3, <2>5
<1>4. Cardinality(Clients) \in T
  <2> HIDE DEF T
  <2>1. QED
    BY <1>2, <1>3, NatInduct, SomeClients
<1>5. QED
  BY <1>1, <1>4

\* One charge more makes the sum greater by one.
LEMMA SumMore ==
  ASSUME NEW f \in [Clients -> Nat], NEW j \in Clients,
         NEW g \in [Clients -> Nat], g = [f EXCEPT ![j] = @ + 1]
  PROVE  SumOf(f) \in Nat /\ SumOf(g) = SumOf(f) + 1
<1>1. PICK sum : IsSum(sum, f) /\ SumOf(f) = sum[Clients]
  BY SumFunctionOf
<1>2. PICK more : IsSum(more, g) /\ SumOf(g) = more[Clients]
  BY SumFunctionOf
<1> DEFINE One(s) == IF j \in s THEN 1 ELSE 0
           T == {n \in Nat : \A s \in SUBSET Clients :
                   Cardinality(s) = n => sum[s] \in Nat /\ more[s] = sum[s] + One(s)}
<1>3. 0 \in T
  BY <1>1, <1>2, SomeClients DEF IsSum
<1>4. ASSUME NEW n \in Nat, n \in T PROVE n + 1 \in T
  <2> SUFFICES ASSUME NEW s \in SUBSET Clients, Cardinality(s) = n + 1
               PROVE  sum[s] \in Nat /\ more[s] = sum[s] + One(s)
    OBVIOUS
  <2>1. s # {}
    <3>1. Cardinality({}) = 0
      BY FS_EmptySet
    <3>2. QED
      BY <3>1
  <2> DEFINE i == CHOOSE i \in s : TRUE
  <2>2. i \in s /\ i \in Clients
    BY <2>1
  <2>3. sum[s] = f[i] + sum[s \ {i}] /\ more[s] = g[i] + more[s \ {i}]
    BY <1>1, <1>2, <2>1 DEF IsSum
  <2> HIDE DEF i
  <2>4. s \ {i} \in SUBSET Clients /\ Cardinality(s \ {i}) = n
    <3>1. Cardinality(s \ {i}) = Cardinality(s) - 1
      BY <2>2, SomeClients
    <3>2. QED
      BY <3>1
  <2>5. sum[s \ {i}] \in Nat /\ more[s \ {i}] = sum[s \ {i}] + One(s \ {i})
    BY <1>4, <2>4
  <2>6. f[i] \in Nat /\ g[i] = f[i] + IF i = j THEN 1 ELSE 0
    BY <2>2
  <2>7. One(s) = One(s \ {i}) + IF i = j THEN 1 ELSE 0
    BY <2>2
  <2>8. One(s \ {i}) \in Nat
    OBVIOUS
  <2> HIDE DEF One
  <2>9. QED
    BY <2>3, <2>5, <2>6, <2>7, <2>8
<1>5. Cardinality(Clients) \in T
  <2> HIDE DEF T
  <2>1. QED
    BY <1>3, <1>4, NatInduct, SomeClients
<1>6. QED
  BY <1>1, <1>2, <1>5

\* What the results line is written from, while a game is played: no more charges
\* than moves, one of them possibly not yet counted, and for each that the player
\* deserves one it has got, because the manager's clock runs ahead of the player's.
MidGame  == server \in {"turn", "read", "broadcast", "apply", "reset"}
AtMove   == server \in {"broadcast", "apply"}
Reported == book.exceeded <=> ready # Clients \/ book.manager \/ SumOf(book.charged) > 0

BookInv ==
  /\ elapsed \in [sent : Nat, manager : Nat, asked : Nat]
  /\ server = "read" => elapsed.asked <= elapsed.manager
  /\ MidGame =>
       /\ \A i \in Clients : book.overdue[i] <= book.charged[i]
       /\ SumOf(book.charged) \in Nat
       /\ SumOf(book.charged) <= IF AtMove THEN book.moves + 1 ELSE book.moves
       /\ Reported

\* The clocks that are read: a player's own time began after the manager's did.
LEMMA ClocksStep ==
  ASSUME BookInv, [Next]_vars
  PROVE  /\ elapsed' \in [sent : Nat, manager : Nat, asked : Nat]
         /\ server' = "read" => elapsed'.asked <= elapsed'.manager
<1> USE DEF BookInv
<1>1. CASE Tick
  <2>1. \A n, cap \in Nat : Capped(n, cap) \in Nat
    BY DEF Capped
  <2>2. {PrepTime, Deadline, Deadline + 1} \subseteq Nat
    BY MatchAssumption
  <2>3. elapsed' \in [sent : Nat, manager : Nat, asked : Nat]
    BY <1>1, <2>1, <2>2 DEF Tick
  <2>4. \A m, n, cap \in Nat : m <= n => Capped(m, cap) <= Capped(n, cap)
    BY DEF Capped
  <2>5. server' = server
    BY <1>1 DEF Tick, serverVars
  <2>6. ASSUME server = "read" PROVE elapsed'.asked <= elapsed'.manager
    <3>1. /\ elapsed'.asked = Capped(elapsed.asked, Deadline + 1)
          /\ elapsed'.manager = Capped(elapsed.manager, Deadline + 1)
      BY <1>1, <2>6 DEF Tick
    <3>2. QED
      BY <2>2, <2>4, <2>6, <3>1
  <2>7. QED
    BY <2>3, <2>5, <2>6
<1>2. CASE AskForMove
  <2>1. elapsed' = [elapsed EXCEPT !.asked = 0]
    BY <1>2 DEF AskForMove
  <2>2. QED
    BY <2>1
<1>3. CASE SendPreamble
  BY <1>3 DEF SendPreamble, Onward
<1>4. CASE StartGame \/ ApplyMove
  BY <1>4 DEF StartGame, ApplyMove
<1>5. CASE \/ Accept \/ AllHandled \/ Shutdown \/ ReceiveMove \/ Broadcast \/ EndGame
           \/ SendReset \/ ServerFails
  <2>1. elapsed' = elapsed /\ server' # "read"
    BY <1>5 DEF Accept, AllHandled, Shutdown, ReceiveMove, Broadcast, EndGame, SendReset,
                ServerFails, Onward
  <2>2. QED
    BY <2>1
<1>6. CASE \/ \E i \in Clients : \/ HandleReady(i) \/ ClientStep(i) \/ Ready(i)
                                 \/ StrangerWrites(i) \/ StrangerLeaves(i)
           \/ Done \/ UNCHANGED vars
  <2>1. UNCHANGED <<server, elapsed>>
    BY <1>6 DEF HandleReady, ClientStep, Initialize, ReadDeadline, PlayMove, ReadMove,
           GameOver, PythonGameOver, ReadReset, ClientFails, Ready, StrangerWrites,
           StrangerLeaves, Done, vars, serverVars
  <2>2. QED
    BY <2>1
<1>7. QED
  BY <1>1, <1>2, <1>3, <1>4, <1>5, <1>6 DEF Next, ServerStep

\* A move that is read: if the player's time is over the manager's is as well.
LEMMA BookReceive ==
  ASSUME TypeOK, BookInv, ReceiveMove
  PROVE  /\ \A i \in Clients : book'.overdue[i] <= book'.charged[i]
         /\ SumOf(book'.charged) \in Nat /\ SumOf(book'.charged) <= book'.moves + 1
         /\ Reported'
<1> DEFINE c == Charged(book, Mover)
<1>1. server = "read" /\ book' = Overdue(c, Mover) /\ ready' = ready /\ book \in BookType
  BY DEF ReceiveMove, TypeOK
<1>2. Mover \in Clients
  BY <1>1, MatchAssumption DEF Mover, MovesAt, TypeOK
<1>3. /\ elapsed.asked <= elapsed.manager /\ elapsed.asked \in Nat /\ elapsed.manager \in Nat
      /\ Deadline \in Nat /\ SumOf(book.charged) <= book.moves /\ Reported
      /\ SumOf(book.charged) \in Nat
      /\ \A i \in Clients : book.overdue[i] <= book.charged[i]
  BY <1>1, MatchAssumption DEF BookInv, MidGame, AtMove
<1>4. /\ book.charged \in [Clients -> Nat] /\ book.overdue \in [Clients -> Nat]
      /\ book.moves \in Nat
  BY <1>1 DEF BookType
<1>5. CASE elapsed.manager > Deadline
  <2>1. c = [book EXCEPT !.exceeded = TRUE, !.charged[Mover] = @ + 1]
    BY <1>5 DEF Charged
  <2>2. /\ c.exceeded = TRUE /\ c.charged = [book.charged EXCEPT ![Mover] = @ + 1]
        /\ c.moves = book.moves /\ c.manager = book.manager /\ c.overdue = book.overdue
    BY <1>1, <2>1 DEF BookType
  <2>3. c.charged \in [Clients -> Nat]
    <3>1. [book.charged EXCEPT ![Mover] = @ + 1] \in [Clients -> Nat]
      BY <1>2, <1>4
    <3>2. QED
      BY <2>2, <3>1
  <2>4. SumOf(c.charged) = SumOf(book.charged) + 1
    <3> HIDE DEF c
    <3>1. QED
      BY <1>2, <1>4, <2>2, <2>3, SumMore
  <2>5. /\ book'.exceeded = TRUE /\ book'.charged = c.charged
        /\ book'.moves = book.moves /\ book'.manager = book.manager
        /\ book'.overdue \in {book.overdue, [book.overdue EXCEPT ![Mover] = @ + 1]}
    <3>1. c \in BookType
      BY <1>1, <1>4, <2>1, <2>2, <2>3 DEF BookType
    <3> HIDE DEF c
    <3>2. QED
      BY <1>1, <2>2, <3>1 DEF Overdue, BookType
  <2>6. ASSUME NEW i \in Clients PROVE book'.overdue[i] <= book'.charged[i]
    BY <1>2, <1>3, <1>4, <2>2, <2>5
  <2>7. QED
    BY <1>3, <1>4, <2>4, <2>5, <2>6 DEF Reported
<1>6. CASE ~(elapsed.manager > Deadline)
  <2>1. c = book /\ ~(elapsed.asked > Deadline)
    BY <1>3, <1>6 DEF Charged
  <2>2. book' = book
    BY <1>1, <2>1 DEF Overdue
  <2>3. QED
    BY <1>1, <1>3, <1>4, <2>2 DEF Reported
<1>7. QED
  BY <1>5, <1>6

\* Every step.
LEMMA BookStep ==
  ASSUME TypeOK, BookInv, [Next]_vars
  PROVE  BookInv'
<1>1. /\ elapsed' \in [sent : Nat, manager : Nat, asked : Nat]
      /\ server' = "read" => elapsed'.asked <= elapsed'.manager
  BY ClocksStep
<1>2. book \in BookType /\ book.moves \in Nat
  BY DEF TypeOK, BookType
<1>3. CASE ReceiveMove
  <2>1. server' \in {"broadcast", "illegal"}
    BY <1>3 DEF ReceiveMove
  <2>2. QED
    BY <1>1, <1>3, <2>1, BookReceive DEF BookInv, MidGame, AtMove
<1>4. CASE StartGame
  <2>1. /\ server' = "turn" /\ ready' = ready /\ book' = NewBook
        /\ book'.charged = [i \in Clients |-> 0] /\ book'.overdue = [i \in Clients |-> 0]
        /\ book'.moves = 0 /\ ~book'.manager /\ (book'.exceeded <=> ready # Clients)
    BY <1>4 DEF StartGame, NewBook, NoBook
  <2>2. SumOf(book'.charged) = 0
    <3>1. book'.charged \in [Clients -> Nat] /\ \A i \in Clients : book'.charged[i] = 0
      BY <2>1
    <3>2. QED
      BY <3>1, SumNone
  <2>3. \A i \in Clients : book'.overdue[i] <= book'.charged[i]
    BY <2>1
  <2>4. Reported'
    BY <2>1, <2>2 DEF Reported
  <2>5. QED
    BY <1>1, <2>1, <2>2, <2>3, <2>4 DEF BookInv, MidGame, AtMove
<1>5. CASE AskForMove
  <2>1. /\ server = "turn" /\ server' = "read" /\ ready' = ready
        /\ book' \in {book, [book EXCEPT !.exceeded = TRUE, !.manager = TRUE]}
    BY <1>5 DEF AskForMove
  <2>2. /\ book'.charged = book.charged /\ book'.overdue = book.overdue
        /\ book'.moves = book.moves
        /\ \/ book'.exceeded = book.exceeded /\ book'.manager = book.manager
           \/ book'.exceeded = TRUE /\ book'.manager = TRUE
    BY <1>2, <2>1 DEF BookType
  <2>3. QED
    BY <1>1, <2>1, <2>2 DEF BookInv, MidGame, AtMove, Reported
<1>6. CASE ApplyMove
  <2>1. /\ server = "apply" /\ server' = "turn" /\ ready' = ready
        /\ book' = [book EXCEPT !.moves = @ + 1]
    BY <1>6 DEF ApplyMove
  <2>2. /\ book'.charged = book.charged /\ book'.overdue = book.overdue
        /\ book'.moves = book.moves + 1
        /\ book'.exceeded = book.exceeded /\ book'.manager = book.manager
    BY <1>2, <2>1 DEF BookType
  <2>3. QED
    BY <1>1, <2>1, <2>2 DEF BookInv, MidGame, AtMove, Reported
<1>7. CASE Broadcast
  <2>1. /\ server = "broadcast" /\ server' \in {"broadcast", "apply"}
        /\ UNCHANGED <<book, ready>>
    BY <1>7 DEF Broadcast, Onward
  <2>2. QED
    BY <1>1, <2>1 DEF BookInv, MidGame, AtMove, Reported
<1>8. CASE EndGame \/ SendReset
  <2>1. /\ server \in {"turn", "reset"} /\ server' \in {"reset", "series"}
        /\ UNCHANGED <<book, ready>>
    BY <1>8 DEF EndGame, SendReset, Onward
  <2>2. QED
    BY <1>1, <2>1 DEF BookInv, MidGame, AtMove, Reported
<1>9. CASE \/ Accept \/ SendPreamble \/ AllHandled \/ Shutdown \/ ServerFails
           \/ \E i \in Clients : HandleReady(i)
  <2>1. ~MidGame'
    BY <1>9 DEF Accept, SendPreamble, AllHandled, Shutdown, ServerFails, HandleReady,
                Onward, MidGame
  <2>2. QED
    BY <1>1, <2>1 DEF BookInv
<1>10. CASE \/ \E i \in Clients : \/ ClientStep(i) \/ Ready(i)
                                  \/ StrangerWrites(i) \/ StrangerLeaves(i)
            \/ Tick \/ Done \/ UNCHANGED vars
  <2>1. UNCHANGED <<server, book, ready>>
    BY <1>10 DEF ClientStep, Initialize, ReadDeadline, PlayMove, ReadMove, GameOver,
           PythonGameOver, ReadReset, ClientFails, Ready, StrangerWrites,
           StrangerLeaves, Tick, Done, vars, serverVars
  <2>2. QED
    BY <1>1, <2>1 DEF BookInv, MidGame, AtMove, Reported
<1>11. QED
  BY <1>3, <1>4, <1>5, <1>6, <1>7, <1>8, <1>9, <1>10 DEF Next, ServerStep

\* Whatever the deadline and however the clocks of manager and players interleave, the
\* results of every game tell of each player that was late, charge no move twice, and
\* report timeouts exactly when there were any (server.h:209).
THEOREM ResultsAlwaysTellAll == Spec => []ResultsTellAll
<1>1. Init => BookInv
  BY DEF Init, BookInv, MidGame
<1>2. TypeOK /\ BookInv /\ [Next]_vars => BookInv'
  BY BookStep
<1>3. BookInv => ResultsTellAll
  BY DEF BookInv, MidGame, AtMove, Reported, ResultsTellAll
<1>4. QED
  BY <1>1, <1>2, <1>3, TypeCorrect, PTL DEF Spec
====
