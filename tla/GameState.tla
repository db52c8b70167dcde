---- MODULE GameState ----
(***************************************************************************)
(* The engine: src/src/game_state/game_state.h running the blocks of       *)
(* block.h with the actions of actions.h.  The recursive calls Run,        *)
(* RunAndApplyFirst and RunAndFindEnd are made small steps with an         *)
(* explicit call stack: a frame is pushed for every call that has work     *)
(* left when it returns.                                                   *)
(*                                                                         *)
(* Moves() explores all paths to the next player switch and must leave the *)
(* position as it found it; Apply() replays one move and then lets the     *)
(* keeper play the first paths it finds (MakeKeeperClosure); Revert()      *)
(* undoes one Apply.  The caller is a tree search as in calculate_perft.h  *)
(* (Moves once per node, Apply and Revert nested) or a simulation          *)
(* (Moves, Apply, ..., Reset).                                             *)
(*                                                                         *)
(* A game is a record with the fields GameActions reads and                *)
(*   players, keeper                                                       *)
(*   blocks          block -> [acts, nexts] (RuleCompiler), block 1 first  *)
(*   modifiers       modifier index -> block (Registered)                  *)
(***************************************************************************)
EXTENDS GameActions

CONSTANTS Games,   \* the games that are played
          MaxPly   \* bound on the Applies the caller nests

\* BlocksCollection::Modifier and Switch (what follows the switch's action).
Modifier(g, index) == g.blocks[g.modifiers[index]].acts[1]
Switch(g, index)   == <<g.modifiers[index], 2>>

Values     == 0 .. Width - 1
Players(g) == 0 .. Len(g.players.names) - 1

\* What an expression reads is there, and it has a value whatever that is: it
\* does not divide by what may be zero.
Reads(e) == {i \in DOMAIN e : e[i].op \in {"var", "count"}}

Computes(g, e) ==
  /\ \A i \in Reads(e) : /\ e[i].op = "var" => e[i].variable \in DOMAIN g.bounds
                         /\ e[i].op = "count" => e[i].piece \in DOMAIN g.content.counts
  /\ \A read \in [Reads(e) -> Values] :
       Folded([i \in DOMAIN e |-> IF i \in Reads(e) THEN Constant(read[i]) ELSE e[i]]) \in Values

\* What the action at a place of a block names is there, and the bounds test
\* follows a shift.
IsElement(g, acts, i) ==
  /\ acts[i].type = "shift" => /\ acts[i].label \in DOMAIN g.next
                               /\ i < Len(acts) /\ acts[i + 1].type = "inBounds"
  /\ acts[i].type = "off" => acts[i].piece \in DOMAIN g.content.counts
  /\ acts[i].type = "condition" => acts[i].initial \in DOMAIN g.blocks
  /\ acts[i].type \in {"visited", "conditionVisited"} => acts[i].check \in DOMAIN g.blocks
  /\ acts[i].type = "assign" => /\ acts[i].variable \in DOMAIN g.bounds
                                /\ Computes(g, acts[i].value)
  /\ acts[i].type = "switch" => acts[i].player \in Players(g)
  /\ acts[i].type \in ModifierTypes \cup {"switch"} => acts[i].index \in DOMAIN g.modifiers

AreBlocks(g) ==
  /\ 1 \in DOMAIN g.blocks
  /\ \A b \in DOMAIN g.blocks :
       LET acts == g.blocks[b].acts
       IN  /\ acts \in Seq(ToSet(acts)) /\ g.blocks[b].nexts \in Seq(DOMAIN g.blocks)
           /\ \A i \in DOMAIN acts : IsElement(g, acts, i)
  /\ DOMAIN g.modifiers \subseteq Nat
  /\ \A index \in DOMAIN g.modifiers :
       /\ g.modifiers[index] \in DOMAIN g.blocks
       /\ g.blocks[g.modifiers[index]].acts # <<>>
       /\ Modifier(g, index).type \in ModifierTypes \cup {"switch"}

\* The blocks that are reached from the first one without asking a condition.
Outer(g) ==
  LET all[bs \in SUBSET DOMAIN g.blocks] ==
        LET more == bs \cup UNION {ToSet(g.blocks[b].nexts) : b \in bs}
        IN  IF more = bs THEN bs ELSE all[more]
  IN  all[{1}]

\* A condition has blocks of its own: no other block leads to them, and no other
\* block has the check that only they may run.
AreConditionsApart(g) ==
  /\ 1 \in Outer(g)
  /\ \A b \in Outer(g) :
       /\ ToSet(g.blocks[b].nexts) \subseteq Outer(g)
       /\ \A i \in DOMAIN g.blocks[b].acts :
            LET a == g.blocks[b].acts[i]
            IN  /\ a.type # "conditionVisited"
                /\ a.type = "switch" => g.modifiers[a.index] \in Outer(g)

\* A game as the construction of blocks and declarations leaves it.
IsGame(g) == IsBoard(g) /\ AreBlocks(g) /\ AreConditionsApart(g) /\ g.keeper \in Players(g)

ASSUME GamesAssumption == \A g \in Games : IsGame(g)

VARIABLES
  game,          \* declarations_ and blocks_: they never change
  position,      \* current_pos_, variables_values_, current_player_, board_
  visited,       \* visited_info_stack_: per level, a set of <<check, vertex>>
  results,       \* conditions_results_: the same, conditions known to hold
  currentBlock,  \* current_block_, as <<block, element>>
  applied,       \* applied_modifiers_: <<vertex, modifier index>>
  moves,         \* moves_
  calculated,    \* moves_calculated
  infos,         \* the revert infos the running call has gathered
  operation,     \* the API call being executed
  phase,         \* "idle", "call", "return", "closure" (its loop test),
                 \* "apply" and "revert" (theirs)
  call,          \* what is called: where, in which mode, revert_vertex
  value,         \* what the last call returned
  frames,        \* the call stack
  origin,        \* (history) the position the running search started in
  nodes,         \* caller: per nested search node, its copy of the moves
  undos          \* caller: what Apply returned, with the move it was given
                 \* and (history) the position it was called in

searchVars == <<position, visited, results, applied, moves, infos>>
apiVars    == <<game, currentBlock, calculated, operation, origin, nodes, undos>>
vars == <<searchVars, apiVars, phase, call, value, frames>>

----
\* blocks_.initial(): the start of the first block.
Initial == <<1, 1>>

InitialPosition(g) == [pos |-> 1, vars |-> [x \in DOMAIN g.bounds |-> 0], player |-> g.keeper,
                       fields |-> g.content.fields, counts |-> g.content.counts]

\* RegisterModifier and RegisterSwitch: the block that begins with each of the
\* modifiers.  Those of conditions, which no move has, are in it as well.
Registered(blocks) ==
  LET begin == {b \in DOMAIN blocks :
                  /\ blocks[b].acts # <<>>
                  /\ blocks[b].acts[1].type \in ModifierTypes \cup {"switch"}}
  IN  [index \in {blocks[b].acts[1].index : b \in begin} |->
         CHOOSE b \in begin : blocks[b].acts[1].index = index]

----
(***************************************************************************)
(* Helpers.                                                                *)
(***************************************************************************)
Block    == game.blocks[call.at[1]]
AtBranch == call.at[2] > Len(Block.acts)
Action   == Block.acts[call.at[2]]
At(type) == phase = "call" /\ ~AtBranch /\ Action.type = type

Mark(check) == <<check, position.pos>>
Here        == <<position.pos, Action.index>>

\* The rest of the block: next_elements_.
Following == [call EXCEPT !.at[2] = @ + 1]

Calls(c)   == phase' = "call"   /\ call' = c     /\ UNCHANGED value
Returns(v) == phase' = "return" /\ value' = v    /\ UNCHANGED call

PushFrame(f) == frames' = Append(frames, f)
PopFrame     == frames' = Front(frames)
Frame        == Last(frames)
Returning(kind) == phase = "return" /\ frames # <<>> /\ Frame.kind = kind

Push(stack) == Append(stack, {})
Pop(stack)  == Front(stack)
WithMark(stack, m) == [stack EXCEPT ![Len(stack)] = @ \cup {m}]
ResetStacks == visited' = <<{}>> /\ results' = <<{}>>

----
(***************************************************************************)
(* Actions of kind check.                                                  *)
(***************************************************************************)
RunTest ==
  /\ phase = "call" /\ ~AtBranch /\ Action.type \in TestTypes
  /\ IF Passes(game, Action, position) THEN Calls(Following) ELSE Returns(FALSE)
  /\ UNCHANGED <<searchVars, apiVars, frames>>

\* VisitedCheckTest: mark, and go on only if it was not marked.
RunVisitedCheck ==
  /\ At("visited")
  /\ IF Mark(Action.check) \in Last(visited) THEN Returns(FALSE) ELSE Calls(Following)
  /\ visited' = WithMark(visited, Mark(Action.check))
  /\ UNCHANGED <<position, results, applied, moves, infos, apiVars, frames>>

\* ConditionCheckTest and NegatedConditionCheckTest: the condition is run in
\* a level of visited marks of its own, with the results of the level around.
RunCondition ==
  /\ At("condition")
  /\ visited' = Push(visited)
  /\ PushFrame([kind |-> "condition", negated |-> Action.negated,
                call |-> Following])
  /\ Calls([at |-> <<Action.initial, 1>>, mode |-> "FindEnd", vertex |-> 0])
  /\ UNCHANGED <<position, results, applied, moves, infos, apiVars>>

\* Mutant: the level of the condition stays on the stack when it holds.
LeakyReturnCondition ==
  /\ Returning("condition")
  /\ PopFrame
  /\ visited' = IF value THEN visited ELSE Pop(visited)
  /\ IF value # Frame.negated THEN Calls(Frame.call) ELSE Returns(FALSE)
  /\ UNCHANGED <<position, results, applied, moves, infos, apiVars>>

ReturnCondition ==
  /\ Returning("condition")
  /\ PopFrame
  /\ visited' = Pop(visited)
  /\ IF value # Frame.negated THEN Calls(Frame.call) ELSE Returns(FALSE)
  /\ UNCHANGED <<position, results, applied, moves, infos, apiVars>>

\* Mutant: a vertex that was visited in vain counts as a result.
EagerRunConditionVisitedCheck ==
  /\ At("conditionVisited") /\ call.mode = "FindEnd"
  /\ LET m == Mark(Action.check)
     IN  IF m \in Last(visited) \cup Last(results)
         THEN /\ Returns(m \in Last(results))
              /\ UNCHANGED <<visited, results, frames>>
         ELSE /\ visited' = WithMark(visited, m)
              /\ results' = WithMark(results, m)
              /\ PushFrame([kind |-> "result", mark |-> m])
              /\ Calls(Following)
  /\ UNCHANGED <<position, applied, moves, infos, apiVars>>

\* ConditionVisitedCheckTest (only called by RunAndFindEnd): a place that was
\* visited, or from which the end is known to be reached, is not run again.
RunConditionVisitedCheck ==
  /\ At("conditionVisited") /\ call.mode = "FindEnd"
  /\ LET m == Mark(Action.check)
     IN  IF m \in Last(visited) \cup Last(results)
         THEN /\ Returns(m \in Last(results))
              /\ UNCHANGED <<visited, frames>>
         ELSE /\ visited' = WithMark(visited, m)
              /\ PushFrame([kind |-> "result", mark |-> m])
              /\ Calls(Following)
  /\ UNCHANGED <<position, results, applied, moves, infos, apiVars>>

ReturnResult ==
  /\ Returning("result")
  /\ PopFrame
  /\ results' = IF value THEN WithMark(results, Frame.mark) ELSE results
  /\ UNCHANGED <<position, visited, applied, moves, infos, apiVars, phase, call, value>>

----
(***************************************************************************)
(* Actions of kind application (the shift), modifier and switch.           *)
(***************************************************************************)
RunShift ==
  /\ At("shift")
  /\ position' = Applied(game, Action, position)
  /\ PushFrame([kind |-> "shift", mode |-> call.mode, action |-> Action,
                saved |-> Saved(Action, position)])
  /\ Calls(Following)
  /\ UNCHANGED <<visited, results, applied, moves, infos, apiVars>>

\* Mutant: a shift is undone only when what followed it failed.
ForgetfulReturnShift ==
  /\ Returning("shift")
  /\ PopFrame
  /\ position' = IF value THEN position
                 ELSE Reverted(Frame.action, position, Frame.saved)
  /\ UNCHANGED <<visited, results, applied, moves, infos, apiVars, phase, call, value>>

\* A successful RunAndApplyFirst leaves its changes in place; everything else
\* is reverted.
ReturnShift ==
  /\ Returning("shift")
  /\ PopFrame
  /\ position' = IF Frame.mode = "ApplyFirst" /\ value THEN position
                 ELSE Reverted(Frame.action, position, Frame.saved)
  /\ UNCHANGED <<visited, results, applied, moves, infos, apiVars, phase, call, value>>

\* PushVisitedStackAndAddToApplied.
LevelPushed ==
  /\ visited' = Push(visited)
  /\ results' = Push(results)
  /\ applied' = Append(applied, Here)

LevelPopped ==
  /\ visited' = Pop(visited)
  /\ results' = Pop(results)
  /\ applied' = Front(applied)

RevertInfo(v) == [action |-> Action, vertex |-> v, saved |-> Saved(Action, position)]

\* OffApplication and AssignmentAction, and PlayerSwitchApplication inside a
\* condition, which does not end there.
RunModifier ==
  /\ phase = "call" /\ ~AtBranch
  /\ \/ Action.type \in ModifierTypes
     \/ Action.type = "switch" /\ call.mode = "FindEnd"
  /\ LevelPushed
  /\ position' = Applied(game, Action, position)
  /\ infos' = IF call.mode = "ApplyFirst"
              THEN Append(infos, RevertInfo(call.vertex))
              ELSE infos
  /\ PushFrame([kind |-> "modifier", mode |-> call.mode, action |-> Action,
                saved |-> Saved(Action, position)])
  /\ Calls([Following EXCEPT !.vertex = position.pos])
  /\ UNCHANGED <<moves, apiVars>>

ReturnModifier ==
  /\ Returning("modifier")
  /\ PopFrame
  /\ IF Frame.mode = "ApplyFirst" /\ value
     THEN UNCHANGED <<position, visited, results, applied, infos>>
     ELSE /\ position' = Reverted(Frame.action, position, Frame.saved)
          /\ LevelPopped
          /\ infos' = IF Frame.mode = "ApplyFirst" THEN Front(infos) ELSE infos
  /\ UNCHANGED <<moves, apiVars, phase, call, value>>

\* A switch in Run registers the move and comes back at once: the push, the
\* application, the pop and the revert cancel out.
RunSwitch ==
  /\ At("switch") /\ call.mode = "Run"
  /\ moves' = Append(moves, Append(applied, Here))
  /\ Returns(FALSE)
  /\ UNCHANGED <<position, visited, results, applied, infos, apiVars, frames>>

\* A switch in RunAndApplyFirst ends the search.  The vertex it saves is its
\* own, not the revert_vertex it is given (block.h:343).
ApplySwitch ==
  /\ At("switch") /\ call.mode = "ApplyFirst"
  /\ LevelPushed
  /\ position' = Applied(game, Action, position)
  /\ infos' = Append(infos, RevertInfo(position.pos))
  /\ Returns(TRUE)
  /\ UNCHANGED <<moves, apiVars, frames>>

----
(***************************************************************************)
(* Branches.  A multiple branch calls its blocks in order; RunAndApplyFirst*)
(* and RunAndFindEnd stop at the first that succeeds.                      *)
(***************************************************************************)
RunBranch ==
  /\ phase = "call" /\ AtBranch
  /\ LET nexts == Block.nexts
         To(k) == [call EXCEPT !.at = <<nexts[k], 1>>]
     IN  CASE Len(nexts) = 0 -> Returns(call.mode = "FindEnd") /\ UNCHANGED frames
           [] Len(nexts) = 1 -> Calls(To(1)) /\ UNCHANGED frames
           [] OTHER -> /\ Calls(To(1))
                       /\ PushFrame([kind |-> "branch", rest |-> Tail(nexts),
                                     call |-> call])
  /\ UNCHANGED <<searchVars, apiVars>>

\* Mutant: the branch calls the same block again.
StuckReturnBranch ==
  /\ Returning("branch")
  /\ IF value \/ Frame.rest = <<>>
     THEN PopFrame /\ UNCHANGED <<phase, call, value>>
     ELSE /\ UNCHANGED frames
          /\ Calls([Frame.call EXCEPT !.at = <<Head(Frame.rest), 1>>])
  /\ UNCHANGED <<searchVars, apiVars>>

\* Mutant: the last block of the branch is never called.
ShortReturnBranch ==
  /\ Returning("branch")
  /\ IF value \/ Len(Frame.rest) <= 1
     THEN PopFrame /\ UNCHANGED <<phase, call, value>>
     ELSE /\ frames' = Append(Front(frames), [Frame EXCEPT !.rest = Tail(@)])
          /\ Calls([Frame.call EXCEPT !.at = <<Head(Frame.rest), 1>>])
  /\ UNCHANGED <<searchVars, apiVars>>

ReturnBranch ==
  /\ Returning("branch")
  /\ IF value \/ Frame.rest = <<>>
     THEN PopFrame /\ UNCHANGED <<phase, call, value>>
     ELSE /\ frames' = Append(Front(frames), [Frame EXCEPT !.rest = Tail(@)])
          /\ Calls([Frame.call EXCEPT !.at = <<Head(Frame.rest), 1>>])
  /\ UNCHANGED <<searchVars, apiVars>>

----
(***************************************************************************)
(* MakeKeeperClosure: while it is the keeper's turn, the first path to a   *)
(* switch is taken.  `value' is the local variable exists.                 *)
(***************************************************************************)
\* Mutant: after a move the keeper does not play on.
RestingKeeperMoves == value /\ position.player = game.keeper /\ operation # "Apply"

KeeperMoves == value /\ position.player = game.keeper

ClosureRun ==
  /\ phase = "closure" /\ KeeperMoves
  /\ applied' = <<>> /\ moves' = <<>>
  /\ Calls([at |-> currentBlock, mode |-> "ApplyFirst", vertex |-> position.pos])
  /\ origin' = position
  /\ UNCHANGED <<position, visited, results, infos, game, currentBlock>>
  /\ UNCHANGED <<calculated, operation, nodes, undos, frames>>

ClosureReturn ==
  /\ phase = "return" /\ frames = <<>> /\ operation # "Moves"
  /\ phase' = "closure"
  /\ ResetStacks
  /\ IF value
     THEN currentBlock' = Switch(game, Last(applied)[2]) /\ applied' = <<>>
     ELSE UNCHANGED <<currentBlock, applied>>
  /\ UNCHANGED <<position, moves, infos, game, calculated, operation, nodes, undos>>
  /\ UNCHANGED <<origin, call, value, frames>>

NewNode == [known |-> FALSE, moves |-> <<>>]

\* The loop is over: the constructor, Reset or Apply returns.
ClosureEnd ==
  /\ phase = "closure" /\ ~KeeperMoves
  /\ phase' = "idle" /\ operation' = "none"
  /\ IF operation = "Apply"
     THEN /\ calculated' = FALSE /\ moves' = <<>>
          /\ nodes' = Append(nodes, NewNode)
          /\ undos' = [undos EXCEPT ![Len(undos)].infos = infos]
     ELSE /\ nodes' = <<NewNode>> /\ undos' = <<>>
          /\ UNCHANGED <<calculated, moves>>
  /\ infos' = <<>>
  /\ UNCHANGED <<game, position, visited, results, applied, currentBlock>>
  /\ UNCHANGED <<origin, call, value, frames>>

----
(***************************************************************************)
(* The calls of the API, as a caller makes them.                           *)
(***************************************************************************)
Idle == phase = "idle"

\* Moves() with nothing calculated; a second call returns the same vector.
Moves ==
  /\ Idle /\ ~calculated
  /\ operation' = "Moves"
  /\ Calls([at |-> currentBlock, mode |-> "Run", vertex |-> 0])
  /\ origin' = position
  /\ UNCHANGED <<searchVars, game, currentBlock, calculated, nodes, undos, frames>>

MovesReturn ==
  /\ phase = "return" /\ frames = <<>> /\ operation = "Moves"
  /\ phase' = "idle" /\ operation' = "none"
  /\ calculated' = TRUE
  /\ nodes' = [nodes EXCEPT ![Len(nodes)] = [known |-> TRUE, moves |-> moves]]
  /\ UNCHANGED <<searchVars, game, currentBlock, origin, undos, call, value, frames>>

\* Apply plays the modifiers of a move and then the keeper's.
Apply(move) ==
  /\ Idle /\ Len(undos) < MaxPly
  /\ phase' = "apply" /\ operation' = "Apply"
  /\ undos' = Append(undos, [block |-> currentBlock, infos |-> <<>>,
                             move |-> move, position |-> position])
  /\ UNCHANGED <<searchVars, game, currentBlock, calculated, origin, nodes, call, value, frames>>

Playing == Last(undos).move

\* A turn of its loop: the modifier after those whose infos are there.
ApplyModifier ==
  /\ phase = "apply" /\ Len(infos) < Len(Playing)
  /\ LET m == Playing[Len(infos) + 1]
         a == Modifier(game, m[2])
         p == [position EXCEPT !.pos = m[1]]
     IN  /\ position' = Applied(game, a, p)
         /\ infos' = Append(infos, [action |-> a, vertex |-> position.pos, saved |-> Saved(a, p)])
  /\ UNCHANGED <<visited, results, applied, moves, apiVars, phase, call, value, frames>>

ApplySwitched ==
  /\ phase = "apply" /\ Len(infos) = Len(Playing)
  /\ currentBlock' = Switch(game, Last(Playing)[2])
  /\ ResetStacks
  /\ phase' = "closure" /\ value' = TRUE
  /\ UNCHANGED <<position, applied, moves, infos, game, calculated, operation, origin>>
  /\ UNCHANGED <<nodes, undos, call, frames>>

Revert ==
  /\ Idle /\ undos # <<>>
  /\ phase' = "revert" /\ operation' = "Revert"
  /\ UNCHANGED <<searchVars, game, currentBlock, calculated, origin, nodes, undos>>
  /\ UNCHANGED <<call, value, frames>>

Unwinding == Last(undos).infos

\* At the current vertex, then to the one the info names.
Unwound(p, i) == [Reverted(i.action, p, i.saved) EXCEPT !.pos = i.vertex]

\* Mutant: the infos are reverted in the order they were made.
ForwardRevertModifier ==
  /\ phase = "revert" /\ Unwinding # <<>>
  /\ position' = Unwound(position, Head(Unwinding))
  /\ undos' = [undos EXCEPT ![Len(undos)].infos = Tail(Unwinding)]
  /\ UNCHANGED <<visited, results, applied, moves, infos, game, currentBlock, calculated>>
  /\ UNCHANGED <<operation, origin, nodes, phase, call, value, frames>>

\* A turn of its loop over the infos, last first.
RevertModifier ==
  /\ phase = "revert" /\ Unwinding # <<>>
  /\ position' = Unwound(position, Last(Unwinding))
  /\ undos' = [undos EXCEPT ![Len(undos)].infos = Front(Unwinding)]
  /\ UNCHANGED <<visited, results, applied, moves, infos, game, currentBlock, calculated>>
  /\ UNCHANGED <<operation, origin, nodes, phase, call, value, frames>>

RevertReturn ==
  /\ phase = "revert" /\ Unwinding = <<>>
  /\ phase' = "idle" /\ operation' = "none"
  /\ currentBlock' = Last(undos).block
  /\ calculated' = FALSE /\ moves' = <<>>
  /\ nodes' = Front(nodes) /\ undos' = Front(undos)
  /\ UNCHANGED <<position, visited, results, applied, infos, game, origin, call, value, frames>>

\* Mutant: the values of the variables stay.
KeepingReset ==
  /\ Idle
  /\ position' = [InitialPosition(game) EXCEPT !.vars = position.vars]
  /\ currentBlock' = Initial
  /\ ResetStacks
  /\ calculated' = FALSE /\ applied' = <<>> /\ moves' = <<>> /\ infos' = <<>>
  /\ phase' = "closure" /\ value' = TRUE /\ operation' = "Reset"
  /\ UNCHANGED <<game, origin, nodes, undos, call, frames>>

Reset ==
  /\ Idle
  /\ position' = InitialPosition(game)
  /\ currentBlock' = Initial
  /\ ResetStacks
  /\ calculated' = FALSE /\ applied' = <<>> /\ moves' = <<>> /\ infos' = <<>>
  /\ phase' = "closure" /\ value' = TRUE /\ operation' = "Reset"
  /\ UNCHANGED <<game, origin, nodes, undos, call, frames>>

----
\* The constructor, up to its call of MakeKeeperClosure.
Init ==
  /\ game \in Games
  /\ position = InitialPosition(game) /\ origin = position
  /\ visited = <<{}>> /\ results = <<{}>>
  /\ currentBlock = Initial
  /\ applied = <<>> /\ moves = <<>> /\ infos = <<>>
  /\ calculated = FALSE
  /\ operation = "construct" /\ phase = "closure" /\ value = TRUE
  /\ call = [at |-> Initial, mode |-> "ApplyFirst", vertex |-> 0]
  /\ frames = <<>>
  /\ nodes = <<NewNode>> /\ undos = <<>>

\* One step of the running call.
Step == \/ RunTest \/ RunVisitedCheck
        \/ RunCondition \/ ReturnCondition
        \/ RunConditionVisitedCheck \/ ReturnResult
        \/ RunShift \/ ReturnShift
        \/ RunModifier \/ ReturnModifier
        \/ RunSwitch \/ ApplySwitch
        \/ RunBranch \/ ReturnBranch
        \/ ClosureRun \/ ClosureReturn \/ ClosureEnd
        \/ MovesReturn
        \/ ApplyModifier \/ ApplySwitched
        \/ RevertModifier \/ RevertReturn

\* calculate_perft.h asks for the moves of a node before it plays any of them
\* and keeps a copy: it never asks after a Revert.
FirstMoves == ~Last(nodes).known /\ Moves

Next == \/ Step
        \/ FirstMoves
        \/ \E move \in ToSet(Last(nodes).moves) : Apply(move)
        \/ Revert
        \/ Reset

Spec == Init /\ [][Next]_vars

\* A call that has started keeps running: it is one thread's plain code.
FairSpec == Spec /\ WF_vars(Step)
----
(***************************************************************************)
(* Properties of the engine alone.  MCGameState adds those that compare it *)
(* with the meaning of the rules.                                          *)
(***************************************************************************)
Vertices == 1 .. game.size - 1
Pieces   == DOMAIN game.content.counts

PositionType ==
  [pos : 1 .. game.size, vars : [DOMAIN game.bounds -> Values], player : Players(game),
   fields : [Vertices \cup {0} -> Pieces],
   counts : [Pieces -> Values]]

\* The current vertex is off the board only between a shift and the test that
\* follows it, and while that test's failure undoes the shift.
OnBoard ==
  \/ position.pos < game.size
  \/ At("inBounds")
  \/ Returning("shift")

\* The state has its types, no action but the bounds test ever reads the board
\* at vertices_count (actions.h ShiftAction, OutOfBoundsTest), and the check of
\* a condition is never met elsewhere (actions.h:55, "shouldn't be run").
TypeOK ==
  /\ position \in PositionType /\ OnBoard
  /\ At("conditionVisited") => call.mode = "FindEnd"
  /\ calculated \in BOOLEAN /\ value \in BOOLEAN
  /\ phase \in {"idle", "call", "return", "closure", "apply", "revert"}
  /\ operation \in {"none", "construct", "Moves", "Apply", "Revert", "Reset"}
  /\ \A level \in ToSet(visited) \cup ToSet(results) :
       \A mark \in level : mark[1] \in DOMAIN game.blocks /\ mark[2] \in Vertices
  /\ \A step \in ToSet(applied) \cup UNION {ToSet(m) : m \in ToSet(moves)} :
       step[1] \in Vertices /\ step[2] \in Nat

\* The places of a stack of calls with a frame of some kind.
OfKind(stack, kind) == {i \in DOMAIN stack : stack[i].kind = kind}

\* Every modifier applied has a level of marks and of results of its own, and
\* every condition being run one more level of marks, however the calls that
\* pushed them return (modifying_application.cc, ConditionCheckTest::Check).
LevelsMatch ==
  /\ Len(results) = 1 + Len(applied)
  /\ Len(visited) = Len(results) + Cardinality(OfKind(frames, "condition"))

\* The piece counts that arithmetic reads are the numbers of pieces on the
\* board at every step of a search, undone steps included (BoardContent::set).
CountsMatch ==
  \A piece \in Pieces :
    position.counts[piece] = Cardinality({v \in Vertices : position.fields[v] = piece})

\* A search that is over has undone all it did: Moves() whatever it found,
\* and the keeper's search when it found nothing (block.h).
SearchRestores ==
  phase = "return" /\ frames = <<>> /\ (operation = "Moves" \/ ~value)
    => position = origin /\ applied = <<>>

\* Revert gives back the position Apply was called in, the keeper's own moves
\* undone as well (GameState::Revert).
RevertRestores == [][RevertReturn => position = Last(undos).position]_vars

\* Every call of the API comes to its end: the search is finite although the
\* automaton has loops and the keeper plays on its own.
CallsReturn == []<>Idle
====
