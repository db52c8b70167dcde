# A verification project for the RBG game manager

The game manager plays board games written in the RBG language: it compiles the
rules of a game into an automaton and then into executable blocks, searches and
applies moves on a game state (`src/src/game_state`), and runs matches between
programs over TCP (`src/src/networking`). This directory holds TLA+ models of
those parts, the TLC runs that check them on small instances, and TLAPS proofs.

Paths are relative to the repository's root, `src/`; line numbers are those of
the commit the models were written from. `PROJECT.json` maps every definition to
the lines it models.

## 1. The system: components, state, operations

| Component | Code | State | Operations |
|---|---|---|---|
| visited-mark bit arrays | `utility/resetabble_bitarray_stack.h`, chunks in `blocks_creator.h` | stamps and threshold per level, depth | Push, Pop, reset, set and read through a chunk |
| actions, arithmetic, board content | `blocks/actions.h`, `arithmetic_operation.cc`, `board.h` | vertex, variables, player, pieces and their counts | check; apply and revert |
| search engine | `game_state.h`, `blocks/block.h`, `modifying_application.cc` | the position, current block, applied modifiers, found moves, the two mark stacks | constructor, Moves, Apply, Revert, Reset |
| rule compiler | `graph_creator.cc`, `blocks_creator.cc` | none that lasts: rules to automaton to blocks | Thompson's construction, EraseNoops, AddVisitedChecks, HandleMultipleOutNodes, CreateSearchSteps |
| graph | `utility/graph.h` | nodes, edges, two indexes of edges | NewNode, AddEdge, EraseNode, EraseEdge, MergeWithNode, ChangeEdgeSource/Target |
| board product and dots analyses | `NfaBoardProduct`, `illegal_dots.cc`, `redundant_dots.cc`, the dots tools in `apps/` | product graph; times and dots of a depth-first search | find dots that are illegal or redundant, move or remove them |
| game manager | `networking/server.h`, `apps/start_server.cc` | its game state, sockets, who was ready, counters of a game, log streams | accept, preamble, ready handlers, ask, read, check and broadcast a move, results, reset, shutdown |
| client | `networking/client.h`, `apps/start_random_client.cc` | its own game state | Initialize, Ready, ReadDeadline, Write, Read, ReadReset |
| sockets and encoding | `networking/socket.h`, `socket.cc` | a buffer per connection | read up to a null character, write; encode and decode moves |
| declarations | `declarations.h`, `names_resolver.h`, `board.h` | resolvers of names, board, bounds, first content; constant once built | construction, name by name |
| moves creator, parser wrapper | `moves_creator.cc`, `arithmetic_creator.cc`, `parser_wrapper.h` | none: the parser's moves to the game manager's | one case per kind of move and of expression |
| printer, bindings, widgets, random generator, argument parsing | the rest of `src/src` and `apps/` | none of their own | output and forwarding |

How they interact. A text is parsed, its declarations are numbered, its moves
are made into actions that hold those numbers, its rules into an automaton and that
into blocks. The constructor of `GameState` is given declarations and blocks; the blocks hold pointers into the collection and read and write the state
they are run on, recursively, so that the C++ call stack is part of the state of
a search. All checks share two arrays of marks. `Server` and every client own one
`GameState` each and keep them equal only by messages. The server is one thread:
it blocks in `accept`, in `io_context_.run()` while ready handlers are called
back, and in every read of a move; its mutex is never contended.

### What is hard here

* **Search and undo.** `Moves()` explores an automaton with loops by changing the
  one position it has and changing it back. The two other modes, "apply the
  first" and "find the end", undo under other conditions. Correctness needs that
  every path, failing or not, undoes exactly what it did, in the right order and
  at the right vertex, and that marks pushed for one context are gone in the next.
* **Marks that prune.** Visited marks make the search finite, and exact only if
  they are placed where paths join, are per modified position, and are cleared
  between searches. Inside conditions results are shared by all conditions that
  run in the same context.
* **Replicas.** The server and the clients hold the same game at different times;
  messages bear no type; a game ends on each replica on its own, and a `reset` is
  only read after the client has already reset its copy.
* **Time and failure.** Deadlines are only looked at after the fact, a client may
  disconnect at any point, and a client of another make may write anything.
* **Bytes.** A connection is a stream: a message may arrive in pieces or with the
  beginning of the next one, which then waits in a buffer that is not copied when the
  server moves its sockets. Moves are read as numbers from whatever text was sent.
* **Numbers.** Stamps and piece counts are unsigned and wrap; chunk addresses are
  products that are not checked to fit; every name is a number in one of five tables.

The hazards are listed, each at its line and with the properties that cover it, in
`PROJECT.json`.

### What makes each component correct

* bit arrays: they behave as a stack of sets of marks;
* engine: `Moves()` returns exactly the moves of the rules, none twice, and leaves
  no trace; `Apply` and the keeper only take steps the rules allow; `Revert` is the
  inverse of `Apply`; conditions answer what they mean; every call returns;
* compiler: the blocks mean the same as the rules (the same properties);
* declarations and moves creator: a game begins as its text says and is played by its
  rules, whatever numbers its names were given; a number once given keeps its name;
* graph: the two indexes and the edges agree; merging keeps every edge but those
  of the node merged away;
* board product: its paths to the final node are those of automaton and board, and the
  cleanup loses none of them;
* dots analyses: a dot is marked if and only if it is illegal by its definition; a dot
  called redundant has one marker or end of the move on its side and no other; what
  the tools write allows what the rules they read allowed, if every star repeats an action;
  moving dots ends;
* sockets: a connection is a queue of whole messages; a move is read as it was sent;
* server and clients: every message read is the one expected; the copies agree
  whenever the server is to ask for a move; the server and each client play whole
  games one after another; the log is a record of them; the results line tells everything about its game;
  matches end.

## 2. Modules

    VisitedMarks        abstract: a stack of sets of marks
      ^ refined by
    BitArrayStack       stamps, thresholds, reuse, chunks;  BitArrayStack_proof

    NamesResolver       names and numbers;  GameTypes_proof (last section)
      ^
    Declarations        what is kept of a text:  players, board, content
      ^
    MovesCreator        the parser's moves into actions
      ^
      |    GameActions         actions and arithmetic as operators on a position;
      |      ^        ^
      |    GameState  |        the engine;  GameState_proof (levels, actions),
      |      ^        |        GameUndo_proof (what is undone), GameTypes_proof
      |      |   RuleCompiler  rules -> automaton -> blocks
      |      |      ^
      |      |      |    RuleSemantics   what a text means, by name, without numbers
      |      |      |      ^
      +------+------+------+
             MCGameState         texts, and engine against meaning

    Graph               the operations of graph.h          Closures
      ^                                                      ^   ^
    NfaMeaning          what an automaton allows, loops -----+   |
      ^                                                          |
    CreateNfa           the passes edge by edge                  |
      ^                 CreateNfa_proof                          |
      |    BoardProduct automaton times board -------------------+
      |      ^        ^          ^
    IllegalDots  RedundantDots  DotsMeaning     what an illegal dot is
      ^            ^             ^
    DotsAnalyses   |             |     what is found of a product;
      ^------------+             |     DotsAnalyses_proof
      |     RulePrinters         |
      |       ^                  |
      +-------+------------------+
              |
           DotsTools            the programs that read, search and write rules
              ^
           MCDots               rules, boards, options; RuleCompiler's checks

    GameSeries          abstract: games played one after another
      ^ refined by
    Match               server, clients, connections;  Match_proof
      ^
    MCMatch             game trees

    Mailbox             abstract: a queue of messages, as Match has it
      ^ refined by
    StringSocket        bytes, buffer, read_until;     MoveText   texts of moves
      ^                                                  ^
      +------------------------+-------------------------+
                          MoveSocket        moves read on a connection;
                               ^            StringSocket_proof
                           MCSocket

`GameState` does not extend `BitArrayStack`: it keeps each level of marks as the
set that `BitArrayStack` is shown, and proved, to implement. `Match` does not
extend `GameState`: a game is there a tree of positions, which `GameState` shows
`Moves`, `Apply` and `Reset` to be (`MovesExact`, `StepsLegal`); and its connections
are queues of messages, which `StringSocket` is shown to implement (`ImplementsMailbox`).

### BitArrayStack, VisitedMarks

A level of the stack is a record of `data` and `threshold`; `bitArrays` keeps all
levels ever created, as `bit_arrays_` does, and `depth` how many are in use.
`Push`, `Pop`, `Reset` are the methods of the same names (the constructor is
`Init`), `Mark` and `Query` the two methods of a chunk. `BeginIndex` is computed
modulo 2^w as in `GetVisitedArrayChunk`. The methods `resize` and `RevertToDepth`
have no callers. `ImplementsMarks` is the refinement of `VisitedMarks`.

### GameActions, GameState

A *position* is the part of `GameState` that actions read and write. Blocks are
sequences of actions followed by the indices of the next blocks. The three
recursive methods of `Block` become one set of actions over `call` (which element
is called, in which mode, with which `revert_vertex`), `value` (what the last call
returned) and `frames` (what the C++ stack would hold: a shift or modifier to
undo, a condition to pop, a result to record, a branch with blocks left). One
action starts each kind of element and one resumes it: `RunShift` and
`ReturnShift`, `RunModifier` and `ReturnModifier`, and so on. `MakeKeeperClosure`
is the loop `ClosureRun`, `ClosureReturn`, `ClosureEnd`.

`Apply` and `Revert` run through their loops one modifier at a time (`ApplyModifier`,
`ApplySwitched`, `RevertModifier`, `RevertReturn`); the infos gathered by a running
`Apply`, its own and then the keeper's, are in `infos`, those of returned ones with
the caller, in `undos`.

Two simplifications: a switch met in `Run` pushes, applies, registers, pops and
reverts without calling anything, which is one step; and a call of a single next
block leaves no frame, since nothing is done after it returns.
`RunConditionVisitedCheck` has the mode of a condition in its guard, where the code
asserts it (actions.h:55); `TypeOK` says that the block is never met in another.

`game` is a variable that never changes, so that one run checks many games. `IsGame`
is what the construction of declarations and blocks guarantees of a game: a board
whose shifts lead to its vertices or past them, whose counts are those of its first
content and that is not larger than an unsigned int can count; blocks whose indices
exist; a bounds test behind every shift; players that are declared; blocks of
conditions that no other block leads to (`AreConditionsApart`: each condition gets an
automaton of its own, and only there checks of results are inserted); and expressions
that have a value whatever they read (`Computes`), which the construction does not see
to: a division by a zero that is computed is undefined. The proofs assume all this
(`GamesAssumption`), TLC evaluates it for every game it plays.

The caller nests `Apply` and `Revert` as `calculate_perft.h` does and asks for the
moves of a node once, before it applies any; `Reset` may come at any time, as in
`calculate_sim.h`. `AnyCallerSpec` drops the restriction on `Moves`.

### RuleCompiler, RuleSemantics

`RuleCompiler` follows `graph_creator.cc` and `blocks_creator.cc` step by step;
the order of edges, which decides what the keeper finds first, is kept.
`RuleSemantics` is a definition of the moves of a game that uses neither numbers nor
automaton nor marks: a state is what is left of the rules as parsed and a position
of names, and sets of states are closed under single steps. The two share nothing:
`MCGameState` translates the engine's positions and moves back into names to compare.

### NamesResolver, Declarations, MovesCreator

rbgParser is a submodule that is not part of the repository; the models start at what
it hands over, a record of names in the orders its containers have (`Declarations`
names the fields). `Declared` numbers players in the order of the text with the keeper
before them, variables with the results of players among them, pieces, labels and
vertices, and builds the board (`next`, with vertex `size` where a label leads
nowhere) and its content (vertex 0 outside, not counted). `CreateMove` and
`CreateArithmeticOperation` are the two visitors of the moves of the syntax tree.
`BeginsAsDeclared` compares where a game begins with its text.

### Graph, CreateNfa

A graph is one record: edges by id, the list of the edges that leave each node and
the set of those that enter it. A list maps an edge to a position, pushing back
gives a higher one. `WellFormed` says that the three places of an edge agree. The
operations of `graph.h` are operators on that record; what is a loop over edges in
`MergeWithNode` and `EraseNode` is one operator.

`CreateNfa` runs the three passes of `graph_creator.cc` on such a graph: one action
per noop erased, per edge met by the search of `AddVisitedChecks`, per edge moved to
a node of its own. Where the code iterates over an unordered map (noops, nodes) any
member may be next. `HandleMultipleOutNodes` skips nodes with one edge, so they are
never in `todo`. `EraseLoopedNoop` is the case the code does not foresee: earlier
merges made both ends of a noop the same node, the merge erases that node with all
its edges, and `GetEdge`'s reference is read once more (graph_creator.cc:213); the
model stops there with `pass = "broken"`. `nfa.final` is never changed: the
assignment at graph_creator.cc:210 writes the value that is there.

`RuleCompiler` has the last two passes as one operator each, for the games of the
engine; `CompilerAgrees` compares the two models.

### Closures, NfaMeaning

Most of what is said of graphs here is a closure: what is reached from some nodes, what
can still reach the end, what a cleanup erases. `Closure(U, Next, S)` takes the step
`Next` from S, in U, as often as it leads on; it is a recursive function, so that the
proofs can use it.

`NfaMeaning` says what an automaton means: `SameActions` compares the sequences of actions
two automata allow, exactly, by the sets of nodes they may be in. `DotsApart` (in
`CreateNfa`) says of which rules the passes keep that: dots alone do not lead from where
the rules begin or branch to where they join or end.

### BoardProduct, IllegalDots, DotsMeaning

`BoardProduct` names a node of the product by vertex and node and an edge by vertex
and edge, so no mapping is needed. `IllegalDots` is the recursive search of
`illegal_dots.cc` with its calls on a stack: `StartSearch` for each node a modifier
leads to (in any order: the code iterates over a map), `FollowEdge` for one turn of
the loop over edges, `ReturnNode` for its end. It runs on an automaton created with
`optimize = FALSE`, as the tools do. `search = "broken"` stands for
`board_product.node` throwing because the cleanup erased the initial node.

`Visited` and `Cleaned` are the breadth first search and the cleanup as closures, in
whatever order the code meets the nodes.

`DotsMeaning` searches nothing depth first. `IllegalDotsOf` follows
illegal_dots.h:8: a dot is illegal if two stretches without modifiers lead from one
place to one place, from which a move can be completed, and apply it differently.

### RedundantDots, DotsAnalyses, RulePrinters, DotsTools

`RedundantDots` has the two walks of `redundant_dots.cc` as closures of single steps: a
place has at most one edge that its walk follows (`Onward`), so what is walked through has
at most one place where the walk ends (`EndsAt`). The walk to the right of the code has no
memory of where it was: where nothing ends it, `IsRightDetermined` is `"endless"`. The
walk to the left always ends, which is proved (`LeftWalksEnd`).

`DotsAnalyses` has both analyses as steps on an automaton and its product, and what is to
be true of what they find: the properties of the cleanup and of the walks. `DotsTools`
runs these steps as parts of its programs.

`RulePrinters` has the printers of the tools as functions from a rule to a text, a
sequence of items and asterisks: where stars and parentheses go decides what is read,
indentation and comments do not. `ReadItems` is what a parser makes of a text: an
asterisk belongs to the item before it, whichever case of the printer wrote that.
`ParseGame` gives each dot its place in the rules, which is the identity of its
`game_move` object. `Parses` tells the texts that cannot be read: a list in which nothing
was printed, like the `()` that is left of `(.)`, or that begins with an asterisk.

`DotsTools` is one program run once: `tool` says which. `move_illegal_dots` alternates
`FindIllegal` (the steps of `IllegalDots`) with `MoveIllegal`, which prints, reads and
compiles again, until `NoneIllegal`. `remove_redundant_dots` takes `RedundantFound`, for
both values of its option, and `RemoveRedundant`, for both sides. `add_dots` takes one
step for any of its options. `"compile"` is `CreateNfa` with its optimization, as the
game state calls it. `progress` ends as `"written"`, as `"unparsable"` when
`move_illegal_dots` reads rules it has written and cannot (the exception is not caught)
or as `"endless"`. The mark tools are the first halves of two of these.

`CompletionsKept` says what the cleanup of a product must keep, found without it: every
place of a move from which the final node can be reached, and every step between two
such places. `EndlessOnlyInTraps` says where the walk to the right hangs: only in a
product in which the cleanup has kept places that lead nowhere, since it erases nodes
without edges and not loops.

`WritingKeepsActions` compares the automata of the rules given and written, dots aside,
for rules whose every star repeats something besides dots (`StarsRepeatActions`): a star
of dots only may lose what it repeats, and its asterisk is then read as that of the item
before it (§4). `DeterminedByOne` reads redundant_dots.h:16 over all paths: from a use of a dot, go on
to the side on which it is determined until a marker (or an end of the move) is met;
there is exactly one. `MovingGoesOn` gives the loop of `move_illegal_dots` a measure: the
sum, over all dots, of the items that follow it and of the stars, sums and nested lists
around it goes down in every round, and it is a natural number. The loop therefore
ends for these rules, written or with a text it cannot read, and no fairness is needed
to say so.

### GameSeries, Match

`server` and `client[i]` are program counters with one value per blocking call or
loop. `book` holds the local variables of `Run` that belong to one game, plus a
count of the moves that really were overdue (history). `toServer[i]` and
`toClient[i]` are the two directions of a connection; a client that is gone lets
its queued messages be read and then makes the read fail; a write to it may
succeed or throw. `elapsed` holds the three times the server measures, capped just
beyond the value that matters. A client of another make is in `Strangers`. `log` is what
the server has written of the moves; `LogReplays` plays it from the start and compares.

### Mailbox, StringSocket, MoveText, MoveSocket

`StringSocket` is one direction of a connection as bytes. `ReadSome` is a turn of
`read_until`, which takes what has arrived; `ReturnString` and `HandleReady` extract a
message with `getline`, the second only if it has the size of "ready" (server.h), so
that another message stays for the next read. `Relocate` is the move of a socket when
the server's vector grows: it comes with an empty buffer, and only while nothing was
read yet. `Close` may cut a message in two. `ImplementsMailbox` maps the bytes of the
buffer and the wire to the whole messages in them.

`MoveText` has `EncodeMove` and `DecodeMove` with the state of a `stringstream`: what
a read leaves in its variable when the text has ended (nothing: the variable keeps
what memory held), when a number does not fit, when a word stands there. A stream is a
place in the text and `good()`; `Turns` is a function from the number of turns of the
loop to what was read, as many as the text has tokens, since a turn that reads none is
the last. `DecodeMove` is the set of moves the code may come to. `MoveSocket` says what
is decoded of what is read on a connection.

## 3. Runs

| Run | Instance | Shows |
|---|---|---|
| `marks` (`BitArrayStack.cfg`) | 2 checks, 2 vertices, unsigned maximum 4, depth 3; 956 556 states | types, `NoStampAhead`, refinement of `VisitedMarks` |
| `engine` (`MCGameState.cfg`) | 128 games from their texts, width 16, 3 nested Applies; 80 649 states, depth 1 163 | the properties of the engine, of the compiler and of the declarations |
| `keeper_walk` (`MCGameStateWalk.cfg`) | 1 game | violation: `Revert` undoes at the wrong vertex |
| `moves_after_revert` (`MCGameStateStale.cfg`) | the same games | violation: `Moves` after `Revert` misses moves |
| `match` (`MCMatch.cfg`) | 3 clients that stay, one in Python, 2 games; 7 363 states | typed reads, replicas, refinement of `GameSeries` by server and clients, all games are played |
| `match_open` (`MCMatchOpen.cfg`) | clocks, a client that leaves, one of another make, shutdown by time; 520 939 states | types, replicas, log and results line in the open, who can end a match, and that it ends |
| `slow_preparation` (`MCMatchSlow.cfg`) | 2 clients, clocks | violation: preparation has no timer |
| `charged_for_manager` (`MCMatchCharge.cfg`) | 2 clients, clocks | violation: the manager's time is charged to the player |
| `sockets` (`MCSocket.cfg`) | 2 messages of 11 texts, in pieces of any size; 22 735 states | a connection is a `Mailbox`, everything written is read, moves are decoded as sent |
| `dots` (`MCDots.cfg`) | 17 rules, 2 boards, all tools and options; 20 855 states | graphs stay graphs, only dots that are not apart make a pass read an erased edge, no pass changes the language, no loop unchecked, the cleanup keeps completions, `RuleCompiler` agrees, illegal dots are exactly those marked, redundant dots have one marker, where the walk hangs, the tools keep the actions of rules whose stars repeat some, moving dots ends |
| `dots_alternative` (`MCDotsChoice.cfg`) | `(. + right) ->blue` | violation: erasing a dot changes the language |
| `dots_modifier_loop` (`MCDotsModifier.cfg`) | `->red ({e} [r] {r} .)* ->blue` | violation: a dot that is not illegal is marked |

Why these bounds. *marks*: with a largest stamp of 4 thresholds wrap several times
in reach; three levels give a reused level above and below another; two checks are
enough for chunks to overlap if their addresses are wrong. *engine*: the games are
`kSmallGame` of `tests/game_state_simple_test.cc`, whose moves that test lists;
one with ten conditions, nested, negated, in loops and with modifiers and
switches inside; one whose keeper fails in one alternative after assignments
and pieces, walks, and takes several segments; and `Shapes`, all 125 games that put
three rules out of five (a step, a choice, a test, a condition, a negated one) into a
loop, a choice, a nested loop, a condition and the rest of a move: the places where
noops, visited checks and branches can meet. Three Applies reach a second turn
of each player with the keeper in between. Sixteen values of a variable are more
than any bound of these games plus one. *dots*: the rules are those of
`tests/mark_illegal_dots_test.py` whose dots matter (alternatives, loops, modifiers
between dots, conditions), `(. + .)` for a node merged with itself, two rules of
`tests/mark_redundant_dots_test.py`'s kind (both sides of alternatives, modifiers
among dots), one on which the ring makes the walk to the right endless, three with stars
that repeat dots only (behind an action, first in the rules, and nested), and three
without dots for the comparison of the compilers. All 48 sets of options of `add_dots`
are tried. The square is the board of the
tests; the ring has cycles of shifts, like the "weird cyclic boards" there. Languages
are compared in full, not up to a length. *match*: two games show the reset and the
order of the last messages of one game and the first of the next; three clients
are the fewest in which a client only follows; the trees contain a player that
moves twice in a row, moves that end the game at once and games of different
lengths. *sockets*: two messages are enough for one to come with the beginning of the
next, for a refused "ready" before a move, and for a writer that leaves within the
second; the texts are moves of one and two modifiers and the ways a text can fail to
be a move.

Fairness. `FairSpec` of the engine is weak fairness of the steps of a running call:
it is plain code of one thread. `SlowSpec` of the match is weak fairness of the
server's thread, of the clock and of each client's reaction to a message it has;
`FairSpec` adds that a client is ready in the end. Nothing is assumed of clients of
another make, of leaving or of shutdown by time. `Spec` of the sockets is weak
fairness of the reader, which is the thread or the io_context that asked for the
message; nothing makes a writer write. No strong fairness is needed: a
queue with a message keeps it until it is read.

Deadlock is checked in every run but those of dots, where the compilation or the
search is over; in `Match` and `StringSocket` the end is `Done`.

## 4. What the violations show

* `block.h:343`: a switch taken in `RunAndApplyFirst` records its own vertex, not
  the `revert_vertex` it is passed. For a keeper segment `[x] ... shift ... ->` with
  a shift between the last modifier and the switch, `Revert` first sets the current
  vertex to the switch's own and then undoes the modifier there. No rule is at
  fault: games whose keeper does not walk there are reverted properly, which is
  what `engine` checks.
* `game_state.h:98-110`: `Revert` clears the found moves but not the marks.
  `Perft` and the simulations never ask for moves after a `Revert`, but the tests
  do so once `Perft` has returned.
* `server.h:267`: the time for preparation is compared when a ready message
  arrives, never waited for, unlike README.md:56.
* `server.h:137`: the time of a move starts before the manager's own search.
* `graph_creator.cc:212`: merging the ends of a dot is sound only if one of them has
  no other edge on that side. In `(. + right)` both have, and the choice becomes a loop.
* `illegal_dots.cc:75`: an edge to a node that is still being searched counts as a loop
  even if it is a modifier, where the search would have stopped. The test at
  tests/mark_illegal_dots_test.py:240 has the dot leave the node that the modifier
  leads to, and only there line 79 (`>`) does not count it.

One more disagreement is left to the hypothesis of a property instead of a run.
`move_illegal_dots.cc:110`: a star prints its asterisk also when the dot it repeats is
taken out and nothing is printed before it. `right .* ->blue` becomes
`( right * . ->blue )`, in which `right` is repeated; `.* right ->blue` becomes text that
cannot be read. The run `dots` has both (`StarsOfDots`); without `StarsRepeatActions` its property `WritingKeepsActions` fails on the first.
`remove_redundant_dots.cc:104` prints in the same way, but in the rules of the run it
never erases all dots of a star.

## 5. Proofs

`BitArrayStack_proof` proves, for all numbers of checks, vertices and levels and all
sizes of unsigned int with `SizesFit` (the largest product `index * bit_array_size`
fits):

* `TypeCorrect`: `Spec => []TypeOK`;
* `StampsBehind`: `Spec => []NoStampAhead`. The invariant is inductive together
  with the types: a set stamp equals its array's threshold, a threshold only grows,
  and at the wrap all stamps are wiped;
* `Refinement`: `Spec => ImplementsMarks`. Each action maps to the abstract action
  of its name. `NoStampAhead` is needed for `Push` and `Reset`: no stamp equals a
  threshold that was just increased, so the level is empty. That two checks never
  share a bit is arithmetic: under `SizesFit` a chunk begins at `c * BoardSize`, so
  `c * BoardSize + v` determines `c` and `v`.

`Match_proof` proves, for any number of clients, any limit on games, any deadline
and any tree of positions closed under its moves (`MatchAssumption`):

* `TypeCorrect`: `Spec => []TypeOK`. It includes that a client is only asked for a
  move in a position that has one (`server = "read" => MovesAt(state) # {}`) and that
  the move sent on and applied is a move of that position, whatever a client sent;
* `ServerSeriesPlayed`: `Spec => ServerPlaysSeries`, the refinement of `GameSeries`
  by the server. The inductive invariant is `TypeOK /\ WithinLimit`. `TypeOK` alone
  is not enough: from a state inside a game with all results already recorded the
  server would finish one game too many, and only `WithinLimit` (a server that is
  playing has recorded fewer than `MaxGames` results) excludes it;
* `ClientsOnCourse`, `TypedReadsAlways`, `RefusedOnlyStrangersAlways` and
  `ClientSeriesPlayed`: the protocol carries no message types, so a client that reads a
  message as the wrong thing never notices. `TypedReads` looks at the first unread
  message only, which is far from inductive. `CourseInv` says, for every client that
  stays, where all its unread messages lead: they are a path of views (waiting for a
  reset, for a move or to move; position; games ended) from where the client is to where
  the phase of the server has it, each step by a message that a client in that view
  reads with the function it calls. A step of the server appends a step to the path, a
  read takes the first one. Then every message is read as what it was sent as, a client
  is refused no move of its own, and the copy of the game in each client plays
  `GameSeries`. The last theorem assumes `MovesAt(Start) # {}`: in a game that is over
  where it starts, the copy of a C++ client would go on ending games by itself.
* `ReplicasAlwaysAgree`: where a client will be when it has read its messages
  (`Arrived`, a fold over them) is the last view of its path, by an induction along the
  path; and the last view is the server's position.
* `LogAlwaysReplays`: the lines of the log lead from the start to the server's position.
  The invariant says so in every phase of the server; a new line is one more step of the
  fold over the log (`LedOnward`).
* `ResultsAlwaysTellAll`: `ResultsTellAll` speaks of the end of a game only. `BookInv`
  follows the books through the game: there are no more charges than moves, one of them
  possibly not yet counted, and a player that was late is charged since the clock of the
  manager is never behind the one that the player is judged by. `SumMore`: when
  a client's number grows by one, so does the sum over the clients.

  These three need induction, and the library's induction theorems take an operator. The
  induction is over a set of numbers instead (`NatInduct`: `WFMin` on the numbers that
  are not in the set). A fold is a CHOOSE of a recursive function, so each proof first
  builds the function, for sets of at most n elements, n by n (`FoldExists`), and then
  reads it at one element more.

`CreateNfa_proof` proves that every operation of `graph.h` gives a well-formed graph if it
is given one, for graphs of any size, and `MergeContracts`: merging b into a removes
b, keeps every other node and every edge with its content, and moves the ends at b to
a; merging a node with itself erases it and its edges.

It then proves `NfaGraphWellFormed`: `Spec => []GraphWellFormed` for any set
of well-formed automata (`AutomataAssumption`). `GraphWellFormed` is not inductive:
the operations need the nodes and edges they are given to exist, while each pass runs
over ids collected earlier, in a graph from which it erases. `LoopsHoldNoErased` adds
that no id held in `todo`, `queue`, `node` or `initial` was erased. That the first edge
of a list exists is the well-foundedness of the positions.

`GameState_proof` and `GameUndo_proof` are about the engine, for any games that satisfy
`GamesAssumption`, any depth of nested Applies and any width with `WidthAssumption`.

* `LevelsAlwaysMatch`: `Spec => []LevelsMatch`. What a call pops when it comes back
  depends on the mode it was made in, so the invariant `LevelsInv` gives the mode of
  every frame: `FindEnd` above the first condition on the stack, that of the search
  below. Then there is a frame for each modifier applied, but for those that a
  successful RunAndApplyFirst leaves behind on its way back (`Succeeding`).
* `SearchesRestore`: `Spec => []SearchRestores`, and `CountsAlwaysMatch`:
  `Spec => []CountsMatch`. The invariant `SafeInv` has a position for every frame
  (`Trail`): the first is the one the search began in, the last is the current one, and
  reverting what a frame saved leads from each to the one below. Pushing a frame adds a
  position since an action is undone by what it saved (`ChangeApplied` in
  `GameState_proof`: for every action and every position of a board,
  `Reverted(a, Applied(g, a, p), Saved(a, p)) = p`); popping one takes its position
  away. When the stack is empty the first position is the last. That holds while a
  search runs or fails and stops holding, as it should, when the keeper's succeeds.
  The counts are part of what a position is (`IsPosition`): setting a piece changes two
  of them by one, and the pieces on a board with at most `Width` vertices, the one
  outside included, do not overflow (`PieceSet`).
* `AlwaysOnBoard`: `Spec => []OnBoard`. Only a shift leaves the board, its test is the
  next action of the block, and the frame that undoes the shift is on the top of the
  stack when the test fails. All other steps are then known to read the board at a
  vertex, which the two theorems above need.

`SafeInv` also keeps what the caller holds (moves, copies of moves, revert infos) within
the game, since Apply and Revert read them long after they were made.

* `RevertsInPlace`: `Spec /\ [][EndsInPlace]_vars => RevertRestores`. A Revert gives back
  the position its Apply was called in, for Applies nested to any depth. Without the
  hypothesis that is false (`keeper_walk`): the switch that ends a keeper's search saves
  its own vertex (`block.h:343`), not that of the modifier before it, and Revert takes
  the piece back there. `EndsInPlace` says that the two are the same vertex or that the
  modifier sets no piece. So the theorem says more than the run: this line is the only
  way in which a Revert goes wrong. The invariant `UndoInv` says that the infos of every
  Apply lead back from one of the caller's positions to the one before (`Wound`), and,
  while the keeper searches, that infos and frames together do: a frame that succeeds
  hands its info over in the order in which it would have been taken back itself
  (`History`). TLC finds the hypothesis true in 127 of the 128 games of `engine`, all
  but `KeeperText`, where the keeper walks too and `RevertRestores` holds only since the
  square it leaves wrong is one that the player's move restores.

`GameTypes_proof` proves `TypesAlwaysHold`: `Spec => []TypeOK`, under `GamesAssumption`
and `WidthAssumption` alone. `TypeOK` looks at what is current; what becomes current later
is kept elsewhere, and so `TypesInv` speaks of it, in three parts.

* `ValuesInv`: a frame, an info and an undo hold values of variables and players that fit,
  since they are given back; an expression then computes such a value (`ValueFits`).
* `MarksInv`: the marks of every level are of checks and vertices of the game, and so is
  the mark that a frame keeps for a result.
* `OuterInv`: that a check of results is met in conditions only is a matter of where the
  engine is. Whatever is called in a mode of the search itself is in a block reached
  without asking a condition (`Outer`): the call, the calls of frames and the blocks left
  of their branches, the block where the next search begins, and the block that the last
  switch of every path leads to: of the path that has succeeded, of every move found, of
  the caller's copies and of what Apply kept.

`StringSocket_proof` proves `SocketIsMailbox`: `Spec => ImplementsMailbox`, for any
texts without a null (`SocketAssumption`), any number of them and any pieces in which the
bytes arrive. The queue of the mailbox is what is whole in buffer and wire together. That
is defined by counting and not by recursion: the k-th message ends at the null that has k
nulls up to it; there is one for each k since counting is an injection of the nulls into
as many numbers. Three lemmas say what the actions do to it: behind whole messages a text
and its null are one message more (`WholeWritten`), behind the first null are the messages
but the first (`WholeRead`), and a part of the bytes holds a part of the messages
(`WholePart`). `SocketInv` adds what these need: while the writer is there all bytes are of
whole messages, a socket is moved with an empty buffer only, and the handler finds the
message it was called for.

On this refinement rests `OnlyTextsAreRead`, a fact about the mailbox: it holds, and has
delivered, only texts that were written. What these are decoded to is proved for any moves
and any texts of numbers, blanks and other words (`MovesAssumption`, `TokensAssumption`,
`NumberAssumption`), by the same induction as above (`NatInduct`), over the modifiers that
are written and over the turns of the loop. `DecodedMove`: the modifier at place i is
written at the tokens from 4i - 3 on (`Encoded`), and after i turns the stream is at
4i + 1 and good, or at the end. `UnsetAlwaysAtEnd`: while the stream is good all turns have added the same
(`Known`), since a number that was extracted from a stream that is still good has one
value; and in a text of pairs an even number of numbers is left, not none, as long as the
stream is good (`One`), so that each of both extractions of a turn finds one.

The last section of `GameTypes_proof` is about the tables that give pieces, players,
variables and vertices their numbers. `AddNameInverse`: adding a name keeps vector and map
inverse to each other and every number given with its name.

### The compiler

`CreateNfa_proof` goes on to what the passes mean. It needs closures first: the closure of
a monotone step on a finite set is the least set that holds the first one and is kept by
the step (`ClosureIsLeast`). Each turn of the recursion leaves fewer members outside, so
among the sets for which it were wrong one would have the fewest outside (`WFMin`). From
there on no proof uses recursion.

Two more assumptions are made of an automaton. `EndsAssumption` is what Thompson's
construction gives: a first node that no edge enters and from which all nodes are
reached, and a last node that none leaves and to which all lead. TLC evaluates it for
every automaton of the run. `DotsApart(source)` is a hypothesis of the theorems and not an
assumption: it tells the rules for which `EraseNoops` is right from those for which it is
not. TLC evaluates it, too (`DotsAssumption`): all rules of the run have it but `(. + .)`,
and `(. + right)` of `dots_alternative`, where the actions are not kept, has not.

* `NfaActionsKept`: `Spec => [](DotsApart(source) => ActionsKept)`. That one dot may be
  erased, since it is the only edge out of its source or into its target, is not
  inductive: merging brings edges together, and what was the only one need not be
  any more. `Parted` is: there is a set P of nodes, with the first one and not the last one
  in it, and every dot that starts in P or at a node with other edges leads into P and is
  the only one to do so (`ContractionParts`). A step that turns one graph into another is
  then a map between their nodes that keeps closures (`SameClosed`) and actions
  (`SameLoud`); contracting a dot, putting a check before a join and moving an edge to a
  node of its own are three such steps. `ActionsInv` is `NfaInv`, `SameActions` with the
  automaton given, and `Parted` while there are dots left.
* `NfaNoLoopUnchecked`: `Spec => [](DotsApart(source) => NoLoopUnchecked)`. The search of
  `AddVisitedChecks` puts a check where a node has several edges into it. That this checks
  every loop needs that the search meets all nodes, and that a loop is entered from
  outside: by a node with an edge in from the loop and one from elsewhere. So `LoopsInv`
  keeps that all nodes are reached from the first one (`Reached`) and lead to the
  last (`LeadsTo`) through the erasing of dots, and follows the search: a node met waits
  in the queue, is being treated, or leads to nodes met (`VisitInv`).
* `NfaOnlyMeetingDotsBreak`: `Spec => []OnlyMeetingDotsBreak`. Where dots are apart none
  ever comes to begin and end at one node, so `pass` never is `"broken"`.

### The analyses of dots

`DotsAnalyses_proof` is about `AnalysesSpec`: any automata (`AutomataAssumption`,
`EndsAssumption`), any finite boards on which shifts lead to vertices or nowhere
(`BoardsAssumption`), either analysis. The run checks the same properties of
`ToolsSpec`, in which the tools take these steps and then print and read rules again; that
a printer writes rules that make such an automaton is left to TLC.

The invariant `AnalysesInv` is short: a product in use is that of the automaton as built,
and what was found is what the walks on it say. The rest are facts about every product
(`IsProduct`): the search visits the least set that no edge leads out of; the cleanup
keeps the greatest part of it in which all nodes but final ones lead on
(`CleanedIsGreatest`); and each node that is left is still reached from the first one,
since a node that leads to a kept one leads on itself.

* `AnalysesCompletionsKept`: `AnalysesSpec => []CompletionsKept`. The places that lead to
  the final node are a part in which all lead on, so they are in the greatest.
* `EndlessOnlyInTrapsAlways`: `AnalysesSpec => []EndlessOnlyInTraps`. The places of an
  endless walk lead only to each other. What leads to the final node without them is
  already closed, so none of them leads there.
* `DeterminedByOneAlways`: `AnalysesSpec => []DeterminedByOne`. A walk visits
  one place after the other, and at most one without a step onward (`WalkHasOneEnd`). All
  edges that could be taken without meeting a marker are those the walk takes, so the
  places walked are all of `Behind` or `Ahead`, and what is met at the end is alone. To
  the left that needs that no edge enters the first node, and only the first has none.
* `LeftWalksEnd`: the loop of `IsLeftDetermined` ends on every product. Places it went
  round would be entered only from each other, and all are reached from the first
  node, which is entered by none.

### Only model-checked

The depth-first search for illegal dots against their definition, which takes paths with
their dots in order, and the printers, which recur over rules; the agreement of the two
models of the compiler; the engine, the compiler and the declarations against the meaning
of the texts (the reference is recursive over the rules, out of the provers' reach); that
the expressions of a game have values (what a fold computes, for every input); that
moving dots ends (its measure is recursive over the rules); and all liveness.

## 6. Not modelled

Text that no parser reads back: comments of the mark tools, indices of modifiers,
layout, and printing for people. Dots inside conditions: `EraseNoops` does not reach
them, and `blocks_creator.cc` later meets a kind of edge it has no case for. Products
of the automata of conditions, and shift tables in products. Boards where a shift
leads from a vertex to itself: there line 79 of `illegal_dots.cc` misses a dot right
after the shift, which no run shows yet. `PlayerCheck` and shift tables in the engine:
`moves_creator.cc` makes no rule into them. The parser, which is not in the repository,
and the dispatch over its syntax tree (`parser_wrapper.h`). Division by zero in rules.
What a reset connection may drop beyond its last messages. Calls of the
engine that break its contract: a move that `Moves` did not return, a `Revert` out
of order. The choice of moves, which the models leave open. The Python bindings, the
widgets, the benchmark and the other tools only forward or print. `PROJECT.json`
gives the reason for each component.

## 7. Plan

1. *(done)* marks and their proof; actions, engine, compiler, meaning of rules;
   server and clients with the abstract series of games.
2. *(done)* graph and its proof; the passes edge by edge, and the proof that they keep
   the graph; board product; illegal dots against their definition.
3. *(done)* redundant dots, the printers of the dots tools and the loop of
   `move_illegal_dots`.
4. *(done)* declarations and moves creator, so that the games of the engine are made
   from texts and compared by name; a family of games instead of three; Apply and Revert
   step by step; sockets and texts of moves, below `Match`; the log; the cleanup of the
   product and the endless walk.
5. *(done)* proofs: the balance of levels and frames, the restoration of the position by
   a search and by a Revert, the counts of pieces, the board's end, the engine's types,
   the resolver's tables, the course of the clients, the agreement of their copies, the
   log, the results, the sockets as mailboxes, and the decoding of moves; the actions and
   loops of compiled automata, the cleanup of products and the redundant dots.
6. Properties left. A dot that can be walked around is not determined on the left:
   the walk asks for the marker first (redundant_dots.cc:28), so that right after a
   modifier the other branch goes unnoticed. No dot in a shift table when tables are
   excluded: add_dots.cc:141 looks at the next item only. Both need an instance that
   disagrees with a comment of the code. Boards where a shift leads from a vertex to
   itself.
7. Proofs left: that a path found by the search for illegal dots is one of the product
   that applies the dot differently from another, one half of `MarksExact`; what is left
   besides is listed above under "Only model-checked".
