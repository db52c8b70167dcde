---- MODULE Match ----
(***************************************************************************)
(* The game manager and its clients: src/src/networking/server.h and       *)
(* client.h, and the client programs src/apps/start_random_client.cc and   *)
(* start_random_python_client.py.                                          *)
(*                                                                         *)
(* The server is one thread that blocks in accept, in the reads and in the *)
(* handlers of the ready messages; each client is a process with its own   *)
(* copy of the game.  Both ends of a connection are queues of messages; a  *)
(* closed end lets the other read what is queued and then fail.            *)
(*                                                                         *)
(* Clients are numbered by the order they connect in, which makes client i *)
(* player i.  What a game is, is left to GameSeries: GameState shows that  *)
(* Moves, Apply and Reset are a deterministic tree of positions.           *)
(***************************************************************************)
EXTENDS Integers, Sequences, FiniteSets, SequencesExt

CONSTANTS
  Clients,      \* 1 .. number of players
  Tree, Start,  \* the game (GameSeries)
  MaxGames,     \* shutdown_after_games
  MayShutdown,  \* can shutdown_after_seconds go by?
  Pythons,      \* clients that run the Python program
  Leavers,      \* clients that may disconnect after a game (--time, --games_to_play)
  Strangers,    \* clients of another make, which may write anything
  MaxStray,     \* bound on the messages such a client writes
  TimePasses,   \* FALSE: everybody is in time
  Deadline,     \* deadline_seconds, in ticks
  PrepTime      \* time_for_player_preparation, in ticks

MovesAt(p)  == DOMAIN Tree[p].next
After(p, m) == Tree[p].next[m]
AllMoves    == UNION {MovesAt(p) : p \in DOMAIN Tree}

ASSUME MatchAssumption ==
  /\ Cardinality(Clients) \in Nat \ {0} /\ Clients = 1 .. Cardinality(Clients)
  /\ Pythons \subseteq Clients /\ Leavers \subseteq Clients /\ Strangers \subseteq Clients
  /\ {MaxGames, MaxStray, Deadline, PrepTime} \subseteq Nat
  /\ {MayShutdown, TimePasses} \subseteq BOOLEAN
  /\ Start \in DOMAIN Tree /\ "nonsense" \notin AllMoves
  /\ \A p \in DOMAIN Tree :
       /\ DOMAIN Tree[p].next # {} => Tree[p].player \in Clients
       /\ \A m \in DOMAIN Tree[p].next : Tree[p].next[m] \in DOMAIN Tree

VARIABLES
  server,      \* where the server's thread is
  target,      \* the client it writes to next
  state,       \* state_
  move,        \* the move it has read
  ready,       \* players_ready_
  handled,     \* clients whose HandleReady has run
  book,        \* the local variables of the game being played
  games,       \* games_count: the lines of results_logging_stream
  log,         \* moves_logging_stream after its last line `reset'
  elapsed,     \* (clocks, capped) ticks since time_sent, since manager_begin
               \* and since the deadline was sent to the player to move
  toServer,    \* connections, per client
  toClient,
  client,      \* where each client is
  replica,     \* its own GameState
  replayed     \* (history) games it has played to the end

serverVars == <<server, target, state, move, ready, handled, book, games, log>>
clientVars == <<client, replica, replayed>>
channels   == <<toServer, toClient>>
vars == <<serverVars, clientVars, channels, elapsed>>

----
Mover    == Tree[state].player     \* player_socket_index(current_player)

Message(kind) == [kind |-> kind]
MoveMessage(m) == [kind |-> "move", move |-> m]

\* DecodeMove: what is not a move is decoded to no move of the game, but of half
\* a move the rest is whatever memory holds (MoveText).
DecodeMove(msg) == CASE msg.kind = "move" -> {msg.move}
                     [] msg.kind = "half" -> AllMoves \cup {"nonsense"}
                     [] OTHER             -> {"nonsense"}

Gone(i)   == client[i] = "gone"
Stopped   == server \in {"finished", "illegal", "failed"}
NoBook == [moves |-> 0, exceeded |-> FALSE, manager |-> FALSE,
           charged |-> [i \in Clients |-> 0], overdue |-> [i \in Clients |-> 0]]

\* asio::write: to a connection the client has closed it may still succeed.
Write(i, msg) ==
  toClient' = IF Gone(i) \/ i \in Strangers THEN toClient
              ELSE [toClient EXCEPT ![i] = Append(@, msg)]

\* Clients are written to in order; after the last the server is at `done'.
Onward(done) == IF target = Cardinality(Clients) THEN server' = done /\ target' = 1
                ELSE UNCHANGED server /\ target' = target + 1

----
(***************************************************************************)
(* The server: Run.                                                        *)
(***************************************************************************)
Accept ==
  /\ server = "accept"
  /\ client' = [client EXCEPT ![target] =
                   IF target \in Strangers THEN "stranger" ELSE "preparation"]
  /\ Onward("preamble")
  /\ UNCHANGED <<state, move, ready, handled, book, games, log>>
  /\ UNCHANGED <<replica, replayed, channels, elapsed>>

SendPreamble ==
  /\ server = "preamble"
  /\ IF Gone(target) \/ target \in Strangers THEN UNCHANGED toClient
     ELSE toClient' = [toClient EXCEPT ![target] =
            @ \o <<Message("preparation"), Message("game"), Message("player")>>]
  /\ Onward("ready")
  /\ elapsed' = [elapsed EXCEPT !.sent = 0]
  /\ UNCHANGED <<state, move, ready, handled, book, games, log, clientVars, toServer>>

\* HandleReady: `size' is that of the message up to its null character.
IsReadySize(msg) == msg.kind \in {"ready", "other5"}

Readies(i) == IF elapsed.sent < PrepTime THEN ready \cup {i} ELSE ready

HandleReady(i) ==
  /\ server = "ready" /\ i \notin handled
  /\ \/ /\ toServer[i] # <<>> /\ IsReadySize(Head(toServer[i]))
        /\ toServer' = [toServer EXCEPT ![i] = Tail(@)]
        /\ ready' = Readies(i)
     \/ /\ toServer[i] # <<>> /\ ~IsReadySize(Head(toServer[i]))
        /\ UNCHANGED <<toServer, ready>>
     \/ /\ toServer[i] = <<>> /\ Gone(i)
        /\ UNCHANGED <<toServer, ready>>
  /\ handled' = handled \cup {i}
  /\ UNCHANGED <<server, target, state, move, book, games, log, toClient, clientVars, elapsed>>

\* io_context_.run() returns once every handler has run.
AllHandled ==
  /\ server = "ready" /\ handled = Clients
  /\ server' = "series"
  /\ UNCHANGED <<target, state, move, ready, handled, book, games, log>>
  /\ UNCHANGED <<clientVars, channels, elapsed>>

NewBook == [NoBook EXCEPT !.exceeded = ready # Clients]

\* Mutant: one game too many.
LateMoreGames == games <= MaxGames

MoreGames == games < MaxGames

StartGame ==
  /\ server = "series" /\ MoreGames
  /\ server' = "turn"
  /\ book' = NewBook
  /\ elapsed' = [elapsed EXCEPT !.manager = 0]
  /\ UNCHANGED <<target, state, move, ready, handled, games, log, clientVars, channels>>

Shutdown ==
  /\ server = "series" /\ (~MoreGames \/ MayShutdown)
  /\ server' = "finished"
  /\ UNCHANGED <<target, state, move, ready, handled, book, games, log>>
  /\ UNCHANGED <<clientVars, channels, elapsed>>

\* The top of the loop over the moves of a game.
AskForMove ==
  /\ server = "turn" /\ MovesAt(state) # {}
  /\ server' = "read"
  /\ book' = IF elapsed.manager > Deadline
             THEN [book EXCEPT !.exceeded = TRUE, !.manager = TRUE] ELSE book
  /\ Write(Mover, Message("deadline"))
  /\ elapsed' = [elapsed EXCEPT !.asked = 0]
  /\ UNCHANGED <<target, state, move, ready, handled, games, log, toServer, clientVars>>

\* Mutant: while the manager is late itself, no player is charged.
LenientCharged(b, i) ==
  IF elapsed.manager > Deadline /\ ~b.manager
  THEN [b EXCEPT !.exceeded = TRUE, !.charged[i] = @ + 1] ELSE b

\* The time since manager_begin, the manager's own search included.
Charged(b, i) ==
  IF elapsed.manager > Deadline
  THEN [b EXCEPT !.exceeded = TRUE, !.charged[i] = @ + 1] ELSE b

\* (history) The player's own time.
Overdue(b, i) == IF elapsed.asked > Deadline THEN [b EXCEPT !.overdue[i] = @ + 1] ELSE b

\* Mutant: what was read is not looked up in available_moves_.
TrustingReceiveMove ==
  /\ server = "read" /\ toServer[Mover] # <<>>
  /\ toServer' = [toServer EXCEPT ![Mover] = Tail(@)]
  /\ book' = Overdue(Charged(book, Mover), Mover)
  /\ log' = Append(log, Head(toServer[Mover]))
  /\ server' = "broadcast" /\ move' \in DecodeMove(Head(toServer[Mover]))
  /\ UNCHANGED <<target, state, ready, handled, games, toClient, clientVars, elapsed>>

\* What was read is logged as it is; an illegal move ends the server.
ReceiveMove ==
  /\ server = "read" /\ toServer[Mover] # <<>>
  /\ toServer' = [toServer EXCEPT ![Mover] = Tail(@)]
  /\ book' = Overdue(Charged(book, Mover), Mover)
  /\ log' = Append(log, Head(toServer[Mover]))
  /\ \E m \in DecodeMove(Head(toServer[Mover])) :
       IF m \in MovesAt(state)
       THEN server' = "broadcast" /\ move' = m
       ELSE server' = "illegal" /\ UNCHANGED move
  /\ UNCHANGED <<target, state, ready, handled, games, toClient, clientVars, elapsed>>

\* Mutant: the player is told its own move.
EchoBroadcast ==
  /\ server = "broadcast"
  /\ Write(target, MoveMessage(move))
  /\ Onward("apply")
  /\ UNCHANGED <<state, move, ready, handled, book, games, log, toServer, clientVars, elapsed>>

\* Mutant: the last client is not told.
ShortBroadcast ==
  /\ server = "broadcast"
  /\ IF target \in {Mover, Cardinality(Clients)} THEN UNCHANGED toClient
     ELSE Write(target, MoveMessage(move))
  /\ Onward("apply")
  /\ UNCHANGED <<state, move, ready, handled, book, games, log, toServer, clientVars, elapsed>>

Broadcast ==
  /\ server = "broadcast"
  /\ IF target = Mover THEN UNCHANGED toClient ELSE Write(target, MoveMessage(move))
  /\ Onward("apply")
  /\ UNCHANGED <<state, move, ready, handled, book, games, log, toServer, clientVars, elapsed>>

ApplyMove ==
  /\ server = "apply"
  /\ state' = After(state, move)
  /\ server' = "turn"
  /\ book' = [book EXCEPT !.moves = @ + 1]
  /\ elapsed' = [elapsed EXCEPT !.manager = 0]
  /\ UNCHANGED <<target, move, ready, handled, games, log, channels, clientVars>>

\* The results line is written from `book' and `ready'.
EndGame ==
  /\ server = "turn" /\ MovesAt(state) = {}
  /\ games' = games + 1
  /\ state' = Start
  /\ server' = "reset"
  /\ UNCHANGED <<target, move, ready, handled, book, log, channels, clientVars, elapsed>>

\* Mutant: the end of a game is not logged.
UnloggedSendReset ==
  /\ server = "reset"
  /\ Write(target, Message("reset"))
  /\ Onward("series")
  /\ UNCHANGED <<state, move, ready, handled, book, games, log, toServer, clientVars, elapsed>>

\* The line `reset' is logged once all clients are told.
SendReset ==
  /\ server = "reset"
  /\ Write(target, Message("reset"))
  /\ Onward("series")
  /\ log' = IF server' = "series" THEN <<>> ELSE log
  /\ UNCHANGED <<state, move, ready, handled, book, games, toServer, clientVars, elapsed>>

\* The client the server is about to write to, if any.
WritesTo == CASE server \in {"preamble", "reset"} -> {target}
              [] server = "broadcast"             -> {target} \ {Mover}
              [] server = "turn"                  -> {Mover}
              [] OTHER                            -> {}

\* Mutant: the end of a connection is not noticed when it is read.
DeafServerFails ==
  /\ \E i \in WritesTo : Gone(i) /\ (server = "turn" => MovesAt(state) # {})
  /\ server' = "failed"
  /\ UNCHANGED <<target, state, move, ready, handled, book, games, log>>
  /\ UNCHANGED <<clientVars, channels, elapsed>>

\* A write or a read throws: main catches it, and all connections are closed.
ServerFails ==
  /\ \/ \E i \in WritesTo : Gone(i) /\ (server = "turn" => MovesAt(state) # {})
     \/ server = "read" /\ toServer[Mover] = <<>> /\ Gone(Mover)
  /\ server' = "failed"
  /\ UNCHANGED <<target, state, move, ready, handled, book, games, log>>
  /\ UNCHANGED <<clientVars, channels, elapsed>>

----
(***************************************************************************)
(* The clients: client.h and main of start_random_client.cc.               *)
(***************************************************************************)
Receive(i) == toClient[i] # <<>> /\ toClient' = [toClient EXCEPT ![i] = Tail(@)]
Send(i, msg) == toServer' = [toServer EXCEPT ![i] = Append(@, msg)]
Become(i, place) == client' = [client EXCEPT ![i] = place]

\* Client::Initialize: three reads.
Initialize(i) ==
  /\ client[i] \in {"preparation", "game", "player"}
  /\ Receive(i)
  /\ Become(i, CASE client[i] = "preparation" -> "game"
                 [] client[i] = "game"        -> "player"
                 [] client[i] = "player"      -> "prepare")
  /\ UNCHANGED <<replica, replayed, toServer, serverVars, elapsed>>

\* The client takes any time to prepare.
Ready(i) ==
  /\ client[i] = "prepare"
  /\ Send(i, Message("ready"))
  /\ Become(i, "play")
  /\ UNCHANGED <<replica, replayed, toClient, serverVars, elapsed>>

MyTurn(i) == MovesAt(replica[i]) # {} /\ Tree[replica[i]].player = i
NotMyTurn(i) == MovesAt(replica[i]) # {} /\ Tree[replica[i]].player # i

ReadDeadline(i) ==
  /\ client[i] = "play" /\ MyTurn(i)
  /\ Receive(i)
  /\ Become(i, "move")
  /\ UNCHANGED <<replica, replayed, toServer, serverVars, elapsed>>

\* Mutant: the client's own copy does not follow its move.
UnappliedPlayMove(i) ==
  /\ client[i] = "move"
  /\ \E m \in MovesAt(replica[i]) : Send(i, MoveMessage(m))
  /\ Become(i, "play")
  /\ UNCHANGED <<replica, replayed, toClient, serverVars, elapsed>>

\* Mutant: the moves are searched anew before the move is written.
RenewedPlayMove(i) ==
  /\ client[i] = "move"
  /\ \E m \in MovesAt(replica[i]) :
       /\ replica' = [replica EXCEPT ![i] = After(@, m)]
       /\ \E n \in MovesAt(After(replica[i], m)) : Send(i, MoveMessage(n))
  /\ Become(i, "play")
  /\ UNCHANGED <<replayed, toClient, serverVars, elapsed>>

\* The move is applied before it is written.
PlayMove(i) ==
  /\ client[i] = "move"
  /\ \E m \in MovesAt(replica[i]) :
       /\ replica' = [replica EXCEPT ![i] = After(@, m)]
       /\ Send(i, MoveMessage(m))
  /\ Become(i, "play")
  /\ UNCHANGED <<replayed, toClient, serverVars, elapsed>>

\* Applying what is no move of the game throws.
ReadMove(i) ==
  /\ client[i] = "play" /\ NotMyTurn(i)
  /\ Receive(i)
  /\ \E m \in DecodeMove(Head(toClient[i])) :
       IF m \in MovesAt(replica[i])
       THEN replica' = [replica EXCEPT ![i] = After(@, m)] /\ UNCHANGED client
       ELSE Become(i, "gone") /\ UNCHANGED replica
  /\ UNCHANGED <<replayed, toServer, serverVars, elapsed>>

\* The condition of the loop over the games.
NextGameOrLeave(i) == \/ Become(i, "play")
                      \/ i \in Leavers /\ Become(i, "gone")

\* Mutant: the client's own game is not reset.
ForgetfulGameOver(i) ==
  /\ client[i] = "play" /\ MovesAt(replica[i]) = {} /\ i \notin Pythons
  /\ replayed' = [replayed EXCEPT ![i] = @ + 1]
  /\ Become(i, "reset")
  /\ UNCHANGED <<replica, channels, serverVars, elapsed>>

GameOver(i) ==
  /\ client[i] = "play" /\ MovesAt(replica[i]) = {} /\ i \notin Pythons
  /\ replica' = [replica EXCEPT ![i] = Start]
  /\ replayed' = [replayed EXCEPT ![i] = @ + 1]
  /\ Become(i, "reset")
  /\ UNCHANGED <<channels, serverVars, elapsed>>

\* The Python program keeps the final position until it was told to reset.
PythonGameOver(i) ==
  /\ client[i] = "play" /\ MovesAt(replica[i]) = {} /\ i \in Pythons
  /\ Receive(i)
  /\ replica' = [replica EXCEPT ![i] = Start]
  /\ replayed' = [replayed EXCEPT ![i] = @ + 1]
  /\ NextGameOrLeave(i)
  /\ UNCHANGED <<toServer, serverVars, elapsed>>

\* ReadReset of the C++ program.
ReadReset(i) ==
  /\ client[i] = "reset"
  /\ Receive(i)
  /\ NextGameOrLeave(i)
  /\ UNCHANGED <<replica, replayed, toServer, serverVars, elapsed>>

Reading(i) == \/ client[i] \in {"preparation", "game", "player", "reset"}
              \/ client[i] = "play" /\ (MovesAt(replica[i]) # {} \/ i \in Pythons)

\* The server has closed the connection: the read throws.
ClientFails(i) ==
  /\ Reading(i) /\ toClient[i] = <<>> /\ Stopped
  /\ Become(i, "gone")
  /\ UNCHANGED <<replica, replayed, channels, serverVars, elapsed>>

\* A client of another make: it may write anything and leave at any time.  A word
\* as long as "ready" is all the server makes of "ready" as well.
Stray == {Message("other5"), Message("junk"), Message("half")}
           \cup {MoveMessage(m) : m \in AllMoves}

StrangerWrites(i) ==
  /\ client[i] = "stranger" /\ Len(toServer[i]) < MaxStray
  /\ \E msg \in Stray : Send(i, msg)
  /\ UNCHANGED <<toClient, clientVars, serverVars, elapsed>>

\* What it wrote last may be lost (Mailbox).
StrangerLeaves(i) ==
  /\ client[i] = "stranger"
  /\ Become(i, "gone")
  /\ \E n \in 0 .. Len(toServer[i]) :
       toServer' = [toServer EXCEPT ![i] = SubSeq(@, 1, n)]
  /\ UNCHANGED <<replica, replayed, toClient, serverVars, elapsed>>

----
\* Time passes where the server takes it into account.
Capped(n, cap) == IF n < cap THEN n + 1 ELSE n

Tick ==
  /\ TimePasses
  /\ elapsed' = [sent    |-> IF server = "ready" THEN Capped(elapsed.sent, PrepTime)
                             ELSE elapsed.sent,
                 manager |-> IF server \in {"turn", "read"}
                             THEN Capped(elapsed.manager, Deadline + 1) ELSE elapsed.manager,
                 asked   |-> IF server = "read" THEN Capped(elapsed.asked, Deadline + 1)
                             ELSE elapsed.asked]
  /\ elapsed' # elapsed
  /\ UNCHANGED <<serverVars, clientVars, channels>>

\* Nothing is left to do.
Done == /\ Stopped
        /\ \A i \in Clients \ Strangers : Gone(i)
        /\ UNCHANGED vars

Init ==
  /\ server = "accept" /\ target = 1
  /\ state = Start /\ move = "none"
  /\ ready = {} /\ handled = {}
  /\ book = NoBook /\ games = 0 /\ log = <<>>
  /\ elapsed = [sent |-> 0, manager |-> 0, asked |-> 0]
  /\ toServer = [i \in Clients |-> <<>>]
  /\ toClient = [i \in Clients |-> <<>>]
  /\ client = [i \in Clients |-> "outside"]
  /\ replica = [i \in Clients |-> Start]
  /\ replayed = [i \in Clients |-> 0]

ServerStep == \/ Accept \/ SendPreamble
              \/ \E i \in Clients : HandleReady(i)
              \/ AllHandled \/ StartGame \/ Shutdown
              \/ AskForMove \/ ReceiveMove \/ Broadcast \/ ApplyMove
              \/ EndGame \/ SendReset \/ ServerFails

ClientStep(i) == \/ Initialize(i) \/ ReadDeadline(i) \/ PlayMove(i) \/ ReadMove(i)
                 \/ GameOver(i) \/ PythonGameOver(i) \/ ReadReset(i) \/ ClientFails(i)

Next == \/ ServerStep
        \/ \E i \in Clients : \/ ClientStep(i) \/ Ready(i)
                              \/ StrangerWrites(i) \/ StrangerLeaves(i)
        \/ Tick
        \/ Done

Spec == Init /\ [][Next]_vars

\* The server's thread runs, time passes, and a client that has a message
\* reads it and makes its move; but it may prepare for ever.
SlowSpec == Spec /\ WF_vars(ServerStep) /\ WF_vars(Tick)
                 /\ \A i \in Clients : WF_vars(ClientStep(i))

\* And every client is ready in the end.
FairSpec == SlowSpec /\ \A i \in Clients : WF_vars(Ready(i))

----
Honest  == Clients \ Strangers
Playing(i) == client[i] \in {"play", "move", "reset"}

BookType == [moves : Nat, exceeded : BOOLEAN, manager : BOOLEAN,
             charged : [Clients -> Nat], overdue : [Clients -> Nat]]

\* The state has its types, and the places of server and clients agree with
\* the part of the exchange they are in.
TypeOK ==
  /\ server \in {"accept", "preamble", "ready", "series", "turn", "read", "broadcast",
                 "apply", "reset", "finished", "illegal", "failed"}
  /\ target \in Clients /\ state \in DOMAIN Tree
  /\ ready \subseteq handled /\ handled \subseteq Clients
  /\ book \in BookType
  /\ games \in Nat
  /\ client \in [Clients -> {"outside", "preparation", "game", "player", "prepare", "play",
                             "move", "reset", "stranger", "gone"}]
  /\ replica \in [Clients -> DOMAIN Tree] /\ replayed \in [Clients -> Nat]
  /\ server \in {"broadcast", "apply"} => move \in MovesAt(state)
  /\ server = "read" => MovesAt(state) # {}
  /\ server \notin {"accept", "preamble", "ready", "failed"} => handled = Clients

\* The message a client that reads is about to read.
Awaited(i) == IF client[i] # "play" THEN client[i]
              ELSE CASE MyTurn(i)    -> "deadline"
                     [] NotMyTurn(i) -> "move"
                     [] OTHER        -> "reset"

\* A client only ever finds the message it is about to read: the messages bear
\* no type, so a deadline read as a move would be taken for one (client.h).
TypedReads ==
  \A i \in Honest : Reading(i) /\ toClient[i] # <<>> => Head(toClient[i]).kind = Awaited(i)

\* The position that messages lead to, one after another.
Following(p, msg) ==
  CASE msg.kind = "move" /\ msg.move \in MovesAt(p) -> After(p, msg.move)
    [] msg.kind = "reset" -> Start
    [] OTHER -> p

Led(p, messages) == FoldLeft(Following, p, messages)

\* Where a client is once it has read all that was sent to it.
Arrived(i) == Led(replica[i], toClient[i])

\* A client that has ended a game is at the start of the next one already.
Renewed(p) == IF MovesAt(p) = {} THEN Start ELSE p

\* Whenever the server is to ask for a move, every client's copy of the game is
\* on its way to the server's position, or one move ahead of it with the move
\* it has sent, which is a legal one.
ReplicasAgree ==
  server \in {"turn", "read"} =>
    \A i \in Honest :
      Playing(i) =>
        \/ toServer[i] = <<>> /\ Renewed(Arrived(i)) = Renewed(state)
        \/ /\ i = Mover /\ Len(toServer[i]) = 1
           /\ Head(toServer[i]).move \in MovesAt(state)
           /\ Renewed(Arrived(i)) = Renewed(After(state, Head(toServer[i]).move))

SumOf(f) == FoldFunctionOnSet(+, 0, f, Clients)

\* The results line hides nothing and counts nothing twice: a player that took
\* longer than the deadline is charged with it in that game, no move is charged
\* more than once, and timeouts are reported when there are any (server.h:209).
ResultsTellAll ==
  server = "reset" =>
    /\ \A i \in Clients : book.overdue[i] <= book.charged[i]
    /\ SumOf(book.charged) <= book.moves
    /\ book.exceeded <=> ready # Clients \/ book.manager \/ SumOf(book.charged) > 0

\* The log of moves tells the game (server.h:34): from the start its lines lead
\* to the position the server has, to that after a move it still has to apply,
\* or to the end of the game; only a last line may be a move that was refused.
\* (A line of half a move tells nothing: what it was decoded to is not logged.)
LogReplays ==
  LET reached == Led(Start, IF server = "illegal" THEN Front(log) ELSE log)
  IN  (\A msg \in ToSet(log) : msg.kind # "half") =>
        CASE server \in {"broadcast", "apply"} -> reached = After(state, move)
          [] server = "reset"   -> MovesAt(reached) = {}
          [] server = "failed"  -> TRUE
          [] server = "illegal" -> /\ reached = state
                                   /\ MovesAt(state) \cap DecodeMove(Last(log)) = {}
          [] OTHER -> reached = state

\* Only a client of another make can have its move refused.
RefusedOnlyStrangers == server = "illegal" => Mover \in Strangers

----
ServerSeries == INSTANCE GameSeries WITH position <- state, played <- games
ClientSeries(i) == INSTANCE GameSeries WITH position <- replica[i], played <- replayed[i]

\* The server plays a series of games, whatever the interleaving and wherever it
\* stops (server.h:102-237).
ServerPlaysSeries == ServerSeries!Spec

\* And so does every client on its own copy of the game: a conjunction of
\* specifications in the form of one.
ClientsInit == \A i \in Honest : ClientSeries(i)!Init
ClientsNext == \A i \in Honest : \/ ClientSeries(i)!Next
                                \/ UNCHANGED <<replica[i], replayed[i]>>
ClientsPlaySeries == ClientsInit /\ [][ClientsNext]_<<replica, replayed>>

\* With clients that stay, all the games are played and each client sees all
\* of them to the end before its connection is closed.
AllGamesPlayed ==
  <>[](/\ server = "finished" /\ games = MaxGames
       /\ \A i \in Clients : replayed[i] = MaxGames)

\* Once a client is gone the server does not wait for ever (README.md:79).
ServerStops == (\E i \in Clients : Gone(i)) ~> Stopped
====
