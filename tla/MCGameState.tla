---- MODULE MCGameState ----
(***************************************************************************)
(* Small games for the engine, from their text to their blocks             *)
(* (Declarations, MovesCreator, RuleCompiler), and the properties that     *)
(* compare the engine with what their text means (RuleSemantics).          *)
(***************************************************************************)
EXTENDS GameState, MovesCreator, RuleCompiler, RuleSemantics

\* Rules, as in the parser's syntax tree.
Do(act)      == [k |-> "move", act |-> act]
Cat(args)    == [k |-> "cat", args |-> args]
Sum(args)    == [k |-> "sum", args |-> args]
Star(arg)    == [k |-> "star", arg |-> arg]
If(i, arg)   == [k |-> "check", index |-> i, negated |-> FALSE, arg |-> arg]
IfNot(i, arg) == [k |-> "check", index |-> i, negated |-> TRUE, arg |-> arg]

Go(label)           == Do([type |-> "shift", label |-> label])
On(pieces)          == Do([type |-> "on", pieces |-> pieces])
Put(i, piece)       == Do([type |-> "off", piece |-> piece, index |-> i])
Set(i, x, e)        == Do([type |-> "assign", variable |-> x, value |-> e, index |-> i])
To(i, player)       == Do([type |-> "switch", player |-> player, index |-> i])
Keeper(i)           == Do([type |-> "keeper", index |-> i])
Is(left, cmp, right) == Do([type |-> "compare", left |-> left, cmp |-> cmp, right |-> right])

Const(n) == <<[op |-> "const", value |-> n]>>
Val(x)   == <<[op |-> "name", name |-> x]>>
Fold(op, args) == FlattenSeq(args) \o <<[op |-> op, arity |-> Len(args)]>>

\* Declared players and variables.
Player(name, bound, place) == [name |-> name, bound |-> bound, place |-> place]
Variable(name, bound)      == [name |-> name, bound |-> bound]

\* GameState::CreateGameState (parser, declarations, automaton, blocks).
CreateGameState(parsed) ==
  LET d     == Declared(parsed)
      steps == CreateSearchSteps(Created(d, parsed.rule))
  IN  [text |-> parsed, blocks |-> steps, modifiers |-> Registered(steps)] @@ d

----
\* kSmallGame of tests/game_state_simple_test.cc: a 2 x 2 board.
SquareEdges ==
  (<<"00", "right">> :> "10") @@ (<<"10", "left">> :> "00") @@ (<<"01", "right">> :> "11")
    @@ (<<"11", "left">> :> "01") @@ (<<"00", "down">> :> "01") @@ (<<"01", "up">> :> "00")
    @@ (<<"10", "down">> :> "11") @@ (<<"11", "up">> :> "10")

SmallText ==
  LET rightDowns == Cat(<<Go("right"), Star(Go("down"))>>)
  IN  [players   |-> <<Player("blue", 50, 2), Player("red", 100, 1)>>,
       variables |-> <<Variable("turn", 10)>>,
       pieces    |-> <<"b", "e", "r">>,
       labels    |-> <<"down", "left", "right", "up">>,
       vertices  |-> <<"00", "10", "01", "11">>,
       starting  |-> <<"b", "r", "e", "e">>,
       edges     |-> SquareEdges,
       rule      |->
         Cat(<< To(1, "red"),
                Sum(<< Cat(<<Go("right"), Star(Go("down")), Go("up"), Go("down")>>),
                       Star(rightDowns), Go("down"),
                       Cat(<<Go("right"), On({"r"}), Put(2, "e"), Go("down")>>) >>),
                On({"e"}), Put(3, "r"), Keeper(4) >>)]

\* Three fields in a row.
RowGame(starting, pieces, players, variables, rule) ==
  [players |-> players, variables |-> variables, pieces |-> pieces,
   labels |-> <<"right", "left">>, vertices |-> <<"a", "b", "c">>, starting |-> starting,
   edges |-> (<<"a", "right">> :> "b") @@ (<<"b", "right">> :> "c")
               @@ (<<"b", "left">> :> "a") @@ (<<"c", "left">> :> "b"),
   rule |-> rule]

Left      == Go("left")
Right     == Go("right")
Step1     == Sum(<<Left, Right>>)
AnySquare == Sum(<<Star(Left), Star(Right)>>)
Sees(piece) == Cat(<<Star(Step1), On({piece})>>)
Inc(i, x)   == Set(i, x, Fold("sum", <<Val(x), Const(1)>>))

\* Conditions: with loops, nested in each other and in a loop, with a modifier
\* and with a player switch inside, asked from several squares.
ConditionText == RowGame(<<"w", "e", "b">>, <<"e", "w", "b">>,
  <<Player("black", 0, 7), Player("white", 0, 9)>>, <<Variable("score", 2)>>,
  Star(Cat(<<
    To(1, "white"), AnySquare,
    Sum(<< Cat(<<On({"w"}), If(21, Cat(<<Step1, On({"e"})>>)), Put(2, "e"),
                 Step1, On({"e"}), Put(3, "w")>>),
           Cat(<<On({"e"}), IfNot(22, Cat(<<Put(4, "w"), Right, IfNot(23, Sees("e"))>>)),
                 If(24, Cat(<<Star(Cat(<<Step1, IfNot(25, Cat(<<Right, On({"w"})>>))>>)),
                          On({"w", "b"})>>)),
                 Inc(5, "score")>>),
           Cat(<<On({"b"}), If(26, Cat(<<To(6, "black"), Star(Left),
                                     Inc(7, "score"), Sees("w")>>)),
                 Put(8, "w")>>) >>),
    Keeper(9),
    Sum(<< Cat(<<IfNot(27, Sees("b")), Star(Left), Put(10, "b"), To(11, "black")>>),
           Cat(<<Star(Right), If(28, Cat(<<Left, Sees("e")>>)), To(12, "black")>>) >>),
    Sum(<< Cat(<<AnySquare, On({"b"}), Star(Inc(13, "score")), Put(14, "e"),
                 Step1, Put(15, "b")>>),
           Cat(<<IfNot(29, Sees("e")), Put(16, "e")>>) >>),
    Keeper(17) >>)))

\* The keeper on its own: its search tries modifiers in vain, walks before it
\* finds a switch, and goes on over several segments.
KeeperRules ==
  Star(Cat(<< To(1, "white"), AnySquare, Put(2, "w"), Keeper(3),
              Sum(<< Cat(<<Star(Inc(4, "black")), Star(Right), On({"b"}), Put(5, "e"),
                           Is(Fold("sub", <<Val("w"), Val("black")>>), "gt", Val("e")),
                           Keeper(6)>>),
                     Cat(<<Put(7, "b"), Left, On({"w"}), Keeper(8)>>),
                     Cat(<<Right, Keeper(9)>>) >>),
              Sum(<< Cat(<<Is(Val("black"), "eq", Const(1)),
                           Set(10, "black", Fold("div", <<Val("black"), Const(2)>>)),
                           On({"b"}), To(11, "black")>>),
                     Cat(<<Is(Const(1), "geq", Val("b")), To(12, "black")>>) >>),
              Is(Fold("mul", <<Val("black"), Const(2)>>), "neq", Const(2)),
              AnySquare, On({"b"}), Put(13, "e"), Keeper(14) >>))

\* A player's result is a variable of the player's name.
KeeperText == RowGame(<<"e", "w", "b">>, <<"b", "e", "w">>,
  <<Player("black", 1, 5), Player("white", 0, 3)>>, <<>>, KeeperRules)

\* Every way to put three rules without modifiers into loops, a choice, a
\* condition and the rest of a move.
QuietRules(i) == {Left, Step1, On({"e"}), If(i, Right), IfNot(i, Cat(<<Step1, On({"w"})>>))}

ShapeText(x, y, z) == RowGame(<<"w", "e", "b">>, <<"e", "w", "b">>,
  <<Player("black", 0, 7), Player("white", 0, 9)>>, <<Variable("score", 1)>>,
  Cat(<<To(1, "white"), Star(Sum(<<x, Cat(<<y, Star(z)>>)>>)),
        Sum(<<Cat(<<Put(2, "b"), If(23, Cat(<<Star(Cat(<<Step1, On({"b"})>>)), z>>)),
                    Star(y)>>), z>>),
        Keeper(3), Star(Inc(4, "score")), To(5, "black")>>))

Shapes == {ShapeText(x, y, z) : x \in QuietRules(20), y \in QuietRules(21), z \in QuietRules(22)}

MCGames == {CreateGameState(text) : text \in {SmallText, ConditionText, KeeperText} \cup Shapes}

\* The keeper places a piece, walks on and only then ends its segment.
WalkText == RowGame(<<"e", "w", "b">>, <<"b", "e", "w">>,
  <<Player("white", 0, 1), Player("black", 0, 2)>>, <<>>,
  Cat(<< To(1, "white"), Right, Keeper(2), Put(3, "e"), Right, To(4, "black") >>))

MCWalkGames == {CreateGameState(WalkText)}

----
\* What the numbers of the engine stand for.
NamedPosition(p) ==
  [pos    |-> IF p.pos < game.size THEN Name(game.vertices, p.pos) ELSE "nowhere",
   vars   |-> [x \in ToSet(game.variables.names) |-> p.vars[Id(game.variables, x)]],
   player |-> Name(game.players, p.player),
   fields |-> [v \in ToSet(game.text.vertices) |->
                 Name(game.pieces, p.fields[Id(game.vertices, v)])]]

NamedMove(move) == [i \in DOMAIN move |-> <<Name(game.vertices, move[i][1]), move[i][2]>>]

\* Where the text says the game begins.
BeginningPosition(parsed) ==
  [pos    |-> parsed.vertices[1],
   vars   |-> [x \in {d.name : d \in ToSet(parsed.players \o parsed.variables)} |-> 0],
   player |-> ">",
   fields |-> [v \in ToSet(parsed.vertices) |->
                 parsed.starting[CHOOSE i \in DOMAIN parsed.vertices : parsed.vertices[i] = v]]]

\* The rules still to be followed where the engine's block is.
RestAt(at) ==
  IF at = Initial THEN Beginning(game.text)
  ELSE AfterSwitch(game.text, game.blocks[at[1]].acts[1].index)

\* Where the engine is, in the rules and by name.
Now(at, p) == State(RestAt(at), NamedPosition(p))

\* A game begins, and begins again after Reset, where its text says, whatever
\* numbers the names have, and it is there again when all is undone.
BeginsAsDeclared ==
  phase \in {"idle", "closure"} /\ currentBlock = Initial
    => NamedPosition(position) = BeginningPosition(game.text)

\* Moves() returns every legal move of the rules, no other, and none twice,
\* whatever was searched before in the same position's marks.
MovesExact ==
  Idle /\ calculated =>
    /\ {NamedMove(move) : move \in ToSet(moves)} = LegalMoves(game.text, Now(currentBlock, position))
    /\ Cardinality(ToSet(moves)) = Len(moves)

\* Whoever is to move when a call has returned and there is a legal move is a
\* player: the server takes its id for that of a client (server.h:250), and
\* start_random_client.cc waits for the message of one.
KeeperAtRest ==
  Idle /\ position.player = game.keeper
    => LegalMoves(game.text, Now(currentBlock, position)) = {}

\* Apply leads where the move leads by the rules, and so does every step the
\* keeper takes; the keeper stops only when it has no move (MakeKeeperClosure).
StepsLegal ==
  [][LET plays(at, p) == Plays(game.text, Now(at, p))
         play(move)   == [move |-> NamedMove(move), state |-> Now(currentBlock', position)]
     IN  /\ ApplySwitched =>
              play(Playing) \in plays(currentBlock, Last(undos).position)
         /\ ClosureReturn =>
              IF value THEN play(applied) \in plays(currentBlock, origin)
              ELSE plays(currentBlock, origin) = {}]_vars

\* What a condition answers, with marks and results shared by the conditions
\* around it, is whether its rules can be followed to the end (ConditionCheckTest).
ConditionSound ==
  Returning("condition") =>
    LET asked == game.blocks[Frame.call.at[1]].acts[Frame.call.at[2] - 1]
        check == CHOOSE c \in ChecksOf(game.text.rule) : c.index = asked.index
    IN  value = ConditionHolds(game.text, check, NamedPosition(position))

----
\* A caller that also asks for the moves of a position it has come back to, as
\* the perft tests do once Perft has returned (tests/tictactoe_test.cc:57).
AnyCallerSpec == Init /\ [][Next \/ Moves]_vars
====
