---- MODULE GameTypes_proof ----
(***************************************************************************)
(* The engine's state keeps its types in every search of every game, and   *)
(* the check of a condition is run by conditions alone: TypeOK.            *)
(*                                                                         *)
(* The types are not inductive: a variable may be given back the value a   *)
(* frame or an info has kept of it (ValuesInv), and a level of results     *)
(* gets the mark a frame has kept (MarksInv).  That the check of a         *)
(* condition is never met in another mode is a matter of where the engine  *)
(* is: whatever is called outside of conditions, now, when a frame is      *)
(* popped, or after a move that has been kept, is a block that leads to    *)
(* none of a condition's (OuterInv).                                       *)
(*                                                                         *)
(* The last section is about the numbers that pieces, players, variables   *)
(* and vertices have there: the tables of names_resolver.h.                *)
(***************************************************************************)
EXTENDS GameUndo_proof, NamesResolver

Typed(g, p) == p.vars \in [DOMAIN g.bounds -> Values] /\ p.player \in Players(g)

\* What an action saved, of a variable or of the player.
HasValue(g, a, saved) ==
  /\ a.type = "assign" => saved \in Values
  /\ a.type = "switch" => saved \in Players(g)

IsMark(g, m) == m[1] \in DOMAIN g.blocks /\ m[2] \in Squares(g)

TypedFrame(g, f) ==
  /\ f.kind \in {"shift", "modifier"} => HasValue(g, f.action, f.saved)
  /\ f.kind = "result" => IsMark(g, f.mark)

TypedInfos(g, is) == \A i \in ToSet(is) : HasValue(g, i.action, i.saved)

ValuesInv ==
  /\ Typed(game, position)
  /\ \A f \in ToSet(frames) : TypedFrame(game, f)
  /\ TypedInfos(game, infos) /\ \A u \in ToSet(undos) : TypedInfos(game, u.infos)

Marks(g, levels) == \A level \in ToSet(levels) : \A m \in level : IsMark(g, m)

MarksInv == Marks(game, visited) /\ Marks(game, results)

----
\* What is called in a mode of the search itself is a block of its own.
OuterCall(g, c) == c.mode # "FindEnd" => c.at[1] \in Outer(g)

OuterFrame(g, f) ==
  /\ f.kind \in {"branch", "condition"} => OuterCall(g, f.call)
  /\ f.kind = "branch" /\ f.call.mode # "FindEnd" => ToSet(f.rest) \subseteq Outer(g)

\* The switch that ends a path is one of the search's own.
Leads(g, path) == g.modifiers[Last(path)[2]] \in Outer(g)

OuterUndo(g, u) == u.block[1] \in Outer(g) /\ Leads(g, u.move)

OuterInv ==
  /\ phase = "call" => OuterCall(game, call)
  /\ \A f \in ToSet(frames) : OuterFrame(game, f)
  /\ currentBlock[1] \in Outer(game)
  /\ \A m \in ToSet(moves) : Leads(game, m)
  /\ Succeeding => Leads(game, applied)
  /\ \A n \in ToSet(nodes) : \A m \in ToSet(n.moves) : Leads(game, m)
  /\ \A u \in ToSet(undos) : OuterUndo(game, u)

FlagsOK ==
  /\ calculated \in BOOLEAN
  /\ operation \in {"none", "construct", "Moves", "Apply", "Revert", "Reset"}

TypesInv == ValuesInv /\ MarksInv /\ OuterInv /\ FlagsOK

----
\* The actions and the values of variables.

\* What the game says of the value an action assigns or the player it names.
Assigns(g, a) ==
  /\ a.type = "assign" => a.variable \in DOMAIN g.bounds /\ Computes(g, a.value)
  /\ a.type = "switch" => a.player \in Players(g)

\* The value of an expression fits a variable: what it reads does.
LEMMA ValueFits ==
  ASSUME NEW g, IsBoard(g), NEW p, IsPosition(g, p), Typed(g, p), NEW e, Computes(g, e)
  PROVE  Value(p, e) \in Values
<1> DEFINE read == [i \in Reads(e) |-> IF e[i].op = "var" THEN p.vars[e[i].variable]
                                      ELSE p.counts[e[i].piece]]
           token(i) == IF i \in Reads(e) THEN Constant(read[i]) ELSE e[i]
<1>1. ASSUME NEW piece \in PiecesOf(g)
      PROVE  p.counts[piece] \in Values
  <2>1. p.counts[piece] = Cardinality(Occupied(g, p.fields, piece))
    BY DEF IsPosition, Counted
  <2>2. /\ Cardinality(Occupied(g, p.fields, piece)) \in Nat
        /\ Cardinality(Occupied(g, p.fields, piece)) < Width
    BY OccupiedFinite
  <2> QED BY <2>1, <2>2, WidthAssumption DEF Values
<1>2. ASSUME NEW i \in Reads(e)
      PROVE  read[i] \in Values
  <2>1. e[i].op = "var" \/ e[i].op = "count"
    BY DEF Reads
  <2>2. CASE e[i].op = "var"
    <3>1. e[i].variable \in DOMAIN g.bounds
      BY <2>2 DEF Computes
    <3> QED BY <2>2, <3>1 DEF Typed
  <2>3. CASE e[i].op # "var"
    <3>1. e[i].piece \in PiecesOf(g)
      BY <2>1, <2>3 DEF Computes, PiecesOf
    <3> QED BY <1>1, <2>3, <3>1
  <2> QED BY <2>2, <2>3
<1>3. read \in [Reads(e) -> Values]
  BY <1>2
<1>4. Folded([i \in DOMAIN e |-> token(i)]) \in Values
  <2>1. \A r \in [Reads(e) -> Values] :
          Folded([i \in DOMAIN e |-> IF i \in Reads(e) THEN Constant(r[i]) ELSE e[i]]) \in Values
    BY DEF Computes
  <2> DEFINE r == read
  <2> HIDE DEF r
  <2> QED BY <1>3, <2>1 DEF r
<1>5. ASSUME NEW i \in DOMAIN e
      PROVE  Operand(p, e[i]) = token(i)
  <2>1. CASE e[i].op = "var"
    BY <2>1 DEF Operand, Reads
  <2>2. CASE e[i].op = "count"
    BY <2>2 DEF Operand, Reads
  <2>3. CASE e[i].op # "var" /\ e[i].op # "count"
    BY <2>3 DEF Operand, Reads
  <2> QED BY <2>1, <2>2, <2>3
<1>6. [i \in DOMAIN e |-> Operand(p, e[i])] = [i \in DOMAIN e |-> token(i)]
  <2> HIDE DEF token
  <2> QED BY <1>5
<1> QED BY <1>4, <1>6 DEF Value

\* An application keeps the types, and saves what has them.
LEMMA TypedApplied ==
  ASSUME NEW g, IsBoard(g), NEW p, IsPosition(g, p), Typed(g, p), p.pos \in Squares(g),
         NEW a, IsChange(g, a), Assigns(g, a)
  PROVE  Typed(g, Applied(g, a, p)) /\ HasValue(g, a, Saved(a, p))
<1> DEFINE q == Applied(g, a, p)
<1>1. CASE a.type = "shift"
  <2> DEFINE v == g.next[a.label][p.pos]
  <2>1. q = [p EXCEPT !.pos = v] /\ v \in 1 .. g.size
    BY <1>1, BoardFacts DEF Applied, IsChange
  <2> HIDE DEF v
  <2>2. q.vars = p.vars /\ q.player = p.player
    BY <2>1, Replaced
  <2> QED BY <1>1, <2>2 DEF Typed, HasValue
<1>2. CASE a.type = "off"
  <2>1. q = SetPiece(p, p.pos, a.piece) /\ a.piece \in PiecesOf(g)
    BY <1>2 DEF Applied, IsChange
  <2> DEFINE fields == [p.fields EXCEPT ![p.pos] = a.piece]
  <2>2. q = [pos |-> p.pos, vars |-> p.vars, player |-> p.player,
             fields |-> fields, counts |-> Counted(g, fields)]
    BY <2>1, PieceSet
  <2>3. q.vars = p.vars /\ q.player = p.player
    <3> HIDE DEF q, fields
    <3> QED BY <2>2
  <2> QED BY <1>2, <2>3 DEF Typed, HasValue
<1>3. CASE a.type = "assign"
  <2> DEFINE new == Value(p, a.value)
  <2>1. a.variable \in DOMAIN g.bounds /\ new \in Values
    BY <1>3, ValueFits DEF Assigns
  <2>2. q = [p EXCEPT !.vars[a.variable] = new] /\ Saved(a, p) = p.vars[a.variable]
    BY <1>3 DEF Applied, Saved
  <2> HIDE DEF new
  <2>3. q.vars = [p.vars EXCEPT ![a.variable] = new] /\ q.player = p.player
    BY <2>2, Replaced
  <2> QED BY <1>3, <2>1, <2>2, <2>3 DEF Typed, HasValue
<1>4. CASE a.type = "switch"
  <2>1. q = [p EXCEPT !.player = a.player] /\ Saved(a, p) = p.player
    BY <1>4 DEF Applied, Saved
  <2>2. q.vars = p.vars /\ q.player = a.player
    BY <2>1, Replaced
  <2> QED BY <1>4, <2>1, <2>2 DEF Typed, HasValue, Assigns
<1> QED BY <1>1, <1>2, <1>3, <1>4 DEF IsChange, ModifierTypes

LEMMA TypedReverted ==
  ASSUME NEW g, IsBoard(g), NEW p, IsPosition(g, p), Typed(g, p), NEW a, IsChange(g, a),
         NEW saved, IsSaved(g, a, saved), HasValue(g, a, saved),
         a.type = "shift" \/ p.pos \in Squares(g)
  PROVE  Typed(g, Reverted(a, p, saved))
<1> DEFINE q == Reverted(a, p, saved)
<1>1. CASE a.type = "shift"
  <2>1. q = [p EXCEPT !.pos = saved] /\ saved \in 1 .. g.size
    BY <1>1, BoardFacts DEF Reverted, IsSaved
  <2>2. q.vars = p.vars /\ q.player = p.player
    BY <2>1, Replaced
  <2> QED BY <2>2 DEF Typed
<1>2. CASE a.type = "off"
  <2>1. q = SetPiece(p, p.pos, saved) /\ saved \in PiecesOf(g) /\ p.pos \in Squares(g)
    BY <1>2 DEF Reverted, IsSaved
  <2> DEFINE fields == [p.fields EXCEPT ![p.pos] = saved]
  <2>2. q = [pos |-> p.pos, vars |-> p.vars, player |-> p.player,
             fields |-> fields, counts |-> Counted(g, fields)]
    BY <2>1, PieceSet
  <2>3. q.vars = p.vars /\ q.player = p.player
    <3> HIDE DEF q, fields
    <3> QED BY <2>2
  <2> QED BY <2>3 DEF Typed
<1>3. CASE a.type = "assign"
  <2>1. q = [p EXCEPT !.vars[a.variable] = saved] /\ saved \in Values
    BY <1>3 DEF Reverted, HasValue
  <2>2. q.vars = [p.vars EXCEPT ![a.variable] = saved] /\ q.player = p.player
    BY <2>1, Replaced
  <2> QED BY <2>1, <2>2 DEF Typed
<1>4. CASE a.type = "switch"
  <2>1. q = [p EXCEPT !.player = saved] /\ saved \in Players(g)
    BY <1>4 DEF Reverted, HasValue
  <2>2. q.vars = p.vars /\ q.player = saved
    BY <2>1, Replaced
  <2> QED BY <2>1, <2>2 DEF Typed
<1> QED BY <1>1, <1>2, <1>3, <1>4 DEF IsChange, ModifierTypes

----
\* What the game says of the action a call is at.
LEMMA ActionTyped ==
  ASSUME SafeInv, phase = "call", ~AtBranch
  PROVE  /\ Assigns(game, Action)
         /\ Action.type \in {"visited", "conditionVisited"} => Action.check \in DOMAIN game.blocks
         /\ call.at[1] \in Outer(game) =>
              /\ Action.type # "conditionVisited"
              /\ Action.type = "switch" => game.modifiers[Action.index] \in Outer(game)
<1> DEFINE b == call.at[1]
           i == call.at[2]
           acts == game.blocks[b].acts
<1>1. b \in DOMAIN game.blocks /\ i \in Nat \ {0}
  BY DEF SafeInv, GoodCall, IsPlace
<1>2. acts \in Seq(ToSet(acts)) /\ \A k \in DOMAIN acts : IsElement(game, acts, k)
  BY <1>1 DEF SafeInv, IsGame, AreBlocks
<1>3. Block.acts = acts /\ Action = acts[i]
  BY DEF Block, Action
<1>4. b \in Outer(game) => \A k \in DOMAIN acts :
        /\ acts[k].type # "conditionVisited"
        /\ acts[k].type = "switch" => game.modifiers[acts[k].index] \in Outer(game)
  BY DEF SafeInv, IsGame, AreConditionsApart
<1> HIDE DEF b, i, acts
<1>5. i \in DOMAIN acts
  BY <1>1, <1>2, <1>3 DEF AtBranch, i
<1>6. IsElement(game, acts, i)
  BY <1>2, <1>5
<1>7. /\ acts[i].type \in {"visited", "conditionVisited"} => acts[i].check \in DOMAIN game.blocks
      /\ acts[i].type = "assign" => /\ acts[i].variable \in DOMAIN game.bounds
                                    /\ Computes(game, acts[i].value)
      /\ acts[i].type = "switch" => acts[i].player \in Players(game)
  BY <1>6, Zenon DEF IsElement
<1> QED BY <1>3, <1>4, <1>5, <1>7 DEF Assigns, b

\* And of the modifier of a step of a move.
LEMMA StepAssigns ==
  ASSUME SafeInv, NEW index \in DOMAIN game.modifiers
  PROVE  Assigns(game, Modifier(game, index))
<1> DEFINE acts == game.blocks[game.modifiers[index]].acts
<1>1. /\ game.modifiers[index] \in DOMAIN game.blocks /\ acts # <<>>
  BY DEF SafeInv, IsGame, AreBlocks
<1>2. acts \in Seq(ToSet(acts)) /\ \A i \in DOMAIN acts : IsElement(game, acts, i)
  BY <1>1 DEF SafeInv, IsGame, AreBlocks
<1>3. Modifier(game, index) = acts[1]
  BY DEF Modifier
<1> HIDE DEF acts
<1>4. IsElement(game, acts, 1)
  <2>1. 1 \in DOMAIN acts
    BY <1>1, <1>2
  <2> QED BY <1>2, <2>1
<1>5. /\ acts[1].type = "assign" => /\ acts[1].variable \in DOMAIN game.bounds
                                    /\ Computes(game, acts[1].value)
      /\ acts[1].type = "switch" => acts[1].player \in Players(game)
  BY <1>4, Zenon DEF IsElement
<1> QED BY <1>3, <1>5 DEF Assigns

\* Blocks outside of conditions lead to such blocks.
LEMMA OuterFacts ==
  ASSUME SafeInv
  PROVE  /\ 1 \in Outer(game)
         /\ \A b \in Outer(game) : ToSet(game.blocks[b].nexts) \subseteq Outer(game)
         /\ game.keeper \in Players(game)
BY DEF SafeInv, IsGame, AreConditionsApart

----
\* Which steps change what.
LEMMA Changes ==
  ASSUME [Next]_vars
  PROVE  /\ game' = game
         /\ \/ frames' = frames \/ RunCondition \/ ReturnCondition
            \/ RunConditionVisitedCheck \/ ReturnResult \/ RunShift \/ ReturnShift
            \/ RunModifier \/ ReturnModifier \/ RunBranch \/ ReturnBranch
         /\ \/ position' = position \/ RunShift \/ ReturnShift \/ RunModifier
            \/ ReturnModifier \/ ApplySwitch \/ ApplyModifier \/ RevertModifier \/ Reset
         /\ \/ infos' = infos \/ RunModifier \/ ReturnModifier \/ ApplySwitch
            \/ ClosureEnd \/ ApplyModifier \/ Reset
         /\ \/ undos' = undos \/ ClosureEnd
            \/ (\E move \in ToSet(Last(nodes).moves) : Apply(move)) \/ RevertModifier
            \/ RevertReturn
         /\ \/ visited' = visited \/ RunVisitedCheck \/ RunCondition \/ ReturnCondition
            \/ RunConditionVisitedCheck \/ RunModifier \/ ReturnModifier \/ ApplySwitch
            \/ ClosureReturn \/ ApplySwitched \/ Reset
         /\ \/ results' = results \/ ReturnResult \/ RunModifier \/ ReturnModifier
            \/ ApplySwitch \/ ClosureReturn \/ ApplySwitched \/ Reset
         /\ \/ currentBlock' = currentBlock \/ ClosureReturn \/ ApplySwitched
            \/ RevertReturn \/ Reset
         /\ \/ moves' = moves \/ RunSwitch \/ ClosureRun \/ ClosureEnd \/ RevertReturn
            \/ Reset
         /\ \/ nodes' = nodes \/ ClosureEnd \/ MovesReturn \/ RevertReturn
<1>1. CASE RunTest
  BY <1>1 DEF RunTest, searchVars, apiVars
<1>2. CASE RunVisitedCheck
  BY <1>2 DEF RunVisitedCheck, searchVars, apiVars
<1>3. CASE RunCondition
  BY <1>3 DEF RunCondition, searchVars, apiVars
<1>4. CASE ReturnCondition
  BY <1>4 DEF ReturnCondition, searchVars, apiVars
<1>5. CASE RunConditionVisitedCheck
  BY <1>5 DEF RunConditionVisitedCheck, searchVars, apiVars
<1>6. CASE ReturnResult
  BY <1>6 DEF ReturnResult, searchVars, apiVars
<1>7. CASE RunShift
  BY <1>7 DEF RunShift, searchVars, apiVars
<1>8. CASE ReturnShift
  BY <1>8 DEF ReturnShift, searchVars, apiVars
<1>9. CASE RunModifier
  BY <1>9 DEF RunModifier, searchVars, apiVars, LevelPushed, LevelPopped
<1>10. CASE ReturnModifier
  BY <1>10 DEF ReturnModifier, searchVars, apiVars, LevelPushed, LevelPopped
<1>11. CASE RunSwitch
  BY <1>11 DEF RunSwitch, searchVars, apiVars
<1>12. CASE ApplySwitch
  BY <1>12 DEF ApplySwitch, searchVars, apiVars, LevelPushed, LevelPopped
<1>13. CASE RunBranch
  BY <1>13 DEF RunBranch, searchVars, apiVars
<1>14. CASE ReturnBranch
  BY <1>14 DEF ReturnBranch, searchVars, apiVars
<1>15. CASE ClosureRun
  BY <1>15 DEF ClosureRun, searchVars, apiVars
<1>16. CASE ClosureReturn
  BY <1>16 DEF ClosureReturn, searchVars, apiVars
<1>17. CASE ClosureEnd
  BY <1>17 DEF ClosureEnd, searchVars, apiVars
<1>18. CASE MovesReturn
  BY <1>18 DEF MovesReturn, searchVars, apiVars
<1>19. CASE ApplyModifier
  BY <1>19 DEF ApplyModifier, searchVars, apiVars, LevelPushed, LevelPopped
<1>20. CASE ApplySwitched
  BY <1>20 DEF ApplySwitched, searchVars, apiVars
<1>21. CASE RevertModifier
  BY <1>21 DEF RevertModifier, searchVars, apiVars, LevelPushed, LevelPopped
<1>22. CASE RevertReturn
  BY <1>22 DEF RevertReturn, searchVars, apiVars
<1>23. CASE FirstMoves
  BY <1>23 DEF FirstMoves, Moves, searchVars, apiVars
<1>24. CASE (\E move \in ToSet(Last(nodes).moves) : Apply(move))
  BY <1>24 DEF Apply, searchVars, apiVars
<1>25. CASE Revert
  BY <1>25 DEF Revert, searchVars, apiVars
<1>26. CASE Reset
  BY <1>26 DEF Reset, searchVars, apiVars
<1>27. CASE UNCHANGED vars
  BY <1>27 DEF vars, searchVars, apiVars
<1> QED BY <1>1, <1>2, <1>3, <1>4, <1>5, <1>6, <1>7, <1>8, <1>9, <1>10, <1>11, <1>12,
           <1>13, <1>14, <1>15, <1>16, <1>17, <1>18, <1>19, <1>20, <1>21, <1>22, <1>23,
           <1>24, <1>25, <1>26, <1>27 DEF Next, Step

----
\* What a step keeps on the stack of calls.
KeptFrames(g, fs) == \A f \in ToSet(fs) : TypedFrame(g, f) /\ OuterFrame(g, f)

LEMMA KeptPushed ==
  ASSUME NEW g, NEW fs, IsSeq(fs), KeptFrames(g, fs), NEW f, TypedFrame(g, f), OuterFrame(g, f)
  PROVE  KeptFrames(g, Append(fs, f))
<1>1. ToSet(Append(fs, f)) = ToSet(fs) \cup {f}
  BY Elements
<1> QED BY <1>1 DEF KeptFrames

LEMMA KeptPopped ==
  ASSUME NEW g, NEW fs, IsSeq(fs), KeptFrames(g, fs)
  PROVE  /\ KeptFrames(g, Front(fs))
         /\ fs # <<>> => TypedFrame(g, Last(fs)) /\ OuterFrame(g, Last(fs))
<1>1. ToSet(Front(fs)) \subseteq ToSet(fs) /\ (fs # <<>> => Last(fs) \in ToSet(fs))
  BY Elements
<1> QED BY <1>1 DEF KeptFrames

\* A mark that is made is one of a check of the game at a vertex of its board.
LEMMA MarkMade ==
  ASSUME SafeInv, At("visited") \/ At("conditionVisited")
  PROVE  IsMark(game, Mark(Action.check))
<1>1. phase = "call" /\ ~AtBranch /\ Action.type \in {"visited", "conditionVisited"}
  BY DEF At
<1>2. position.pos \in Squares(game)
  <2>1. ~ShiftPending
    BY <1>1 DEF ShiftPending, At
  <2> QED BY <2>1, OnTheBoard
<1>3. Action.check \in DOMAIN game.blocks
  BY <1>1, ActionTyped
<1> QED BY <1>2, <1>3 DEF IsMark, Mark

LEMMA FollowingOuter ==
  ASSUME SafeInv, LevelsInv, phase = "call", OuterCall(game, call)
  PROVE  OuterCall(game, Following)
<1>1. Following.at = <<call.at[1], call.at[2] + 1>> /\ Following.mode = call.mode
  BY GoodFollowing
<1> DEFINE c == Following
<1> HIDE DEF c
<1>2. c.at[1] = call.at[1] /\ c.mode = call.mode
  BY <1>1 DEF c
<1> QED BY <1>2 DEF OuterCall, c

LEMMA ConditionKept ==
  ASSUME SafeInv, LevelsInv, TypesInv, RunCondition
  PROVE  KeptFrames(game, frames')
<1> DEFINE f == [kind |-> "condition", negated |-> Action.negated, call |-> Following]
<1>1. frames' = Append(frames, f) /\ phase = "call" /\ OuterCall(game, call)
  BY DEF RunCondition, PushFrame, At, TypesInv, OuterInv
<1>2. f.kind = "condition" /\ OuterCall(game, f.call)
  BY <1>1, FollowingOuter
<1> HIDE DEF f
<1>3. TypedFrame(game, f) /\ OuterFrame(game, f)
  BY <1>2 DEF TypedFrame, OuterFrame
<1>4. IsSeq(frames) /\ KeptFrames(game, frames)
  BY DEF LevelsInv, TypesInv, ValuesInv, OuterInv, KeptFrames
<1> QED BY <1>1, <1>3, <1>4, KeptPushed

LEMMA ResultKept ==
  ASSUME SafeInv, LevelsInv, TypesInv, RunConditionVisitedCheck
  PROVE  KeptFrames(game, frames')
<1> DEFINE m == Mark(Action.check)
           f == [kind |-> "result", mark |-> m]
<1>1. frames' = frames \/ frames' = Append(frames, f)
  BY DEF RunConditionVisitedCheck, PushFrame
<1>2. IsMark(game, m)
  BY MarkMade DEF RunConditionVisitedCheck
<1> HIDE DEF m
<1>3. f.kind = "result" /\ f.mark = m
  OBVIOUS
<1> HIDE DEF f
<1>4. TypedFrame(game, f) /\ OuterFrame(game, f)
  BY <1>2, <1>3 DEF TypedFrame, OuterFrame
<1>5. IsSeq(frames) /\ KeptFrames(game, frames)
  BY DEF LevelsInv, TypesInv, ValuesInv, OuterInv, KeptFrames
<1> QED BY <1>1, <1>4, <1>5, KeptPushed

LEMMA ShiftKept ==
  ASSUME SafeInv, LevelsInv, TypesInv, RunShift
  PROVE  KeptFrames(game, frames')
<1> DEFINE f == [kind |-> "shift", mode |-> call.mode, action |-> Action,
                 saved |-> Saved(Action, position)]
<1>1. frames' = Append(frames, f) /\ Action.type = "shift"
  BY DEF RunShift, PushFrame, At
<1>2. f.kind = "shift" /\ f.action.type = "shift"
  BY <1>1
<1> HIDE DEF f
<1>3. TypedFrame(game, f) /\ OuterFrame(game, f)
  BY <1>2 DEF TypedFrame, OuterFrame, HasValue
<1>4. IsSeq(frames) /\ KeptFrames(game, frames)
  BY DEF LevelsInv, TypesInv, ValuesInv, OuterInv, KeptFrames
<1> QED BY <1>1, <1>3, <1>4, KeptPushed

\* A modifier or a switch that is run.
LEMMA ModifierTyped ==
  ASSUME SafeInv, LevelsInv, TypesInv, phase = "call", ~AtBranch,
         Action.type \in ModifierTypes \cup {"switch"}
  PROVE  /\ Typed(game, Applied(game, Action, position))
         /\ HasValue(game, Action, Saved(Action, position))
<1>1. /\ position.pos \in Squares(game) /\ IsBoard(game) /\ IsPosition(game, position)
      /\ IsChange(game, Action)
  BY ModifierFacts
<1>2. Assigns(game, Action) /\ Typed(game, position)
  BY ActionTyped DEF TypesInv, ValuesInv
<1> QED BY <1>1, <1>2, TypedApplied

LEMMA ModifierKept ==
  ASSUME SafeInv, LevelsInv, TypesInv, RunModifier
  PROVE  KeptFrames(game, frames')
<1> DEFINE f == [kind |-> "modifier", mode |-> call.mode, action |-> Action,
                 saved |-> Saved(Action, position)]
<1>1. /\ frames' = Append(frames, f) /\ phase = "call" /\ ~AtBranch
      /\ Action.type \in ModifierTypes \cup {"switch"}
  BY DEF RunModifier, PushFrame
<1>2. HasValue(game, Action, Saved(Action, position))
  BY <1>1, ModifierTyped
<1>3. f.kind = "modifier" /\ f.action = Action /\ f.saved = Saved(Action, position)
  OBVIOUS
<1> HIDE DEF f
<1>4. TypedFrame(game, f) /\ OuterFrame(game, f)
  BY <1>2, <1>3 DEF TypedFrame, OuterFrame
<1>5. IsSeq(frames) /\ KeptFrames(game, frames)
  BY DEF LevelsInv, TypesInv, ValuesInv, OuterInv, KeptFrames
<1> QED BY <1>1, <1>4, <1>5, KeptPushed

\* The blocks a branch leads to.
LEMMA NextsOuter ==
  ASSUME SafeInv, phase = "call", OuterCall(game, call), call.mode # "FindEnd"
  PROVE  /\ Block.nexts \in Seq(DOMAIN game.blocks)
         /\ ToSet(Block.nexts) \subseteq Outer(game)
<1>1. call.at[1] \in DOMAIN game.blocks /\ call.at[1] \in Outer(game)
  BY DEF SafeInv, GoodCall, IsPlace, OuterCall
<1>2. Block.nexts \in Seq(DOMAIN game.blocks)
  BY <1>1 DEF SafeInv, IsGame, AreBlocks, Block
<1> QED BY <1>1, <1>2, OuterFacts DEF Block

LEMMA TailOf ==
  ASSUME NEW S, NEW s \in Seq(S), s # <<>>
  PROVE  Head(s) \in ToSet(s) /\ ToSet(Tail(s)) \subseteq ToSet(s)
<1>1. Len(s) \in Nat /\ Len(s) >= 1 /\ DOMAIN s = 1 .. Len(s)
  OBVIOUS
<1>2. Head(s) = s[1] /\ 1 \in DOMAIN s
  BY <1>1
<1>3. /\ DOMAIN Tail(s) = 1 .. Len(s) - 1
      /\ \A i \in 1 .. Len(s) - 1 : Tail(s)[i] = s[i + 1]
  BY <1>1
<1>4. \A i \in 1 .. Len(s) - 1 : i + 1 \in DOMAIN s
  BY <1>1
<1> QED BY <1>2, <1>3, <1>4 DEF ToSet

LEMMA BranchKept ==
  ASSUME SafeInv, LevelsInv, TypesInv, RunBranch
  PROVE  KeptFrames(game, frames')
<1> DEFINE nexts == Block.nexts
           f == [kind |-> "branch", rest |-> Tail(nexts), call |-> call]
<1>1. /\ phase = "call" /\ OuterCall(game, call)
      /\ frames' = frames \/ (nexts # <<>> /\ frames' = Append(frames, f))
  BY DEF RunBranch, PushFrame, TypesInv, OuterInv
<1>2. nexts # <<>> /\ call.mode # "FindEnd" => ToSet(Tail(nexts)) \subseteq Outer(game)
  BY <1>1, NextsOuter, TailOf
<1>3. f.kind = "branch" /\ f.rest = Tail(nexts) /\ f.call = call
  OBVIOUS
<1> HIDE DEF f, nexts
<1>4. nexts # <<>> => TypedFrame(game, f) /\ OuterFrame(game, f)
  BY <1>1, <1>2, <1>3 DEF TypedFrame, OuterFrame
<1>5. IsSeq(frames) /\ KeptFrames(game, frames)
  BY DEF LevelsInv, TypesInv, ValuesInv, OuterInv, KeptFrames
<1> QED BY <1>1, <1>4, <1>5, KeptPushed

\* What is left of a branch when one of its blocks has returned.
LEMMA BranchTop ==
  ASSUME SafeInv, LevelsInv, TypesInv, Returning("branch")
  PROVE  /\ IsSeq(frames) /\ frames # <<>> /\ Frame = Last(frames)
         /\ TypedFrame(game, Frame) /\ OuterFrame(game, Frame) /\ Frame.kind = "branch"
         /\ IsCall(Frame.call) /\ OuterCall(game, Frame.call)
         /\ Frame = [kind |-> Frame.kind, rest |-> Frame.rest, call |-> Frame.call]
         /\ Frame.rest # <<>> /\ Frame.call.mode # "FindEnd" =>
              /\ Head(Frame.rest) \in Outer(game)
              /\ ToSet(Tail(Frame.rest)) \subseteq Outer(game)
<1>1. phase = "return" /\ frames # <<>> /\ Frame.kind = "branch" /\ Frame = Last(frames)
  BY DEF Returning, Frame
<1>2. IsSeq(frames) /\ KeptFrames(game, frames) /\ FramesOK(frames, Base)
  BY DEF LevelsInv, TypesInv, ValuesInv, OuterInv, KeptFrames
<1>3. TypedFrame(game, Frame) /\ OuterFrame(game, Frame)
  BY <1>1, <1>2, KeptPopped
<1>4. GoodFrame(game, Frame) /\ IsCall(Frame.call)
  BY <1>1, TopFrame
<1>5. Frame = [kind |-> Frame.kind, rest |-> Frame.rest, call |-> Frame.call]
  BY <1>1, <1>2, FramesPopped DEF IsFrame
<1>6. OuterCall(game, Frame.call)
  BY <1>1, <1>3 DEF OuterFrame
<1>7. ASSUME Frame.rest # <<>>, Frame.call.mode # "FindEnd"
      PROVE  Head(Frame.rest) \in Outer(game) /\ ToSet(Tail(Frame.rest)) \subseteq Outer(game)
  <2> DEFINE rest == Frame.rest
  <2>1. ToSet(rest) \subseteq Outer(game) /\ rest \in Seq(DOMAIN game.blocks)
    BY <1>1, <1>3, <1>4, <1>7 DEF OuterFrame, GoodFrame
  <2> HIDE DEF rest
  <2>2. Head(rest) \in Outer(game) /\ ToSet(Tail(rest)) \subseteq Outer(game)
    BY <1>7, <2>1, TailOf DEF rest
  <2> QED BY <2>2 DEF rest
<1> QED BY <1>1, <1>2, <1>3, <1>4, <1>5, <1>6, <1>7

LEMMA BranchReturnKept ==
  ASSUME SafeInv, LevelsInv, TypesInv, ReturnBranch
  PROVE  KeptFrames(game, frames')
<1> DEFINE f == [Frame EXCEPT !.rest = Tail(@)]
<1>1. \/ frames' = Front(frames)
      \/ Frame.rest # <<>> /\ frames' = Append(Front(frames), f)
  BY DEF ReturnBranch, PopFrame
<1>2. Returning("branch")
  BY DEF ReturnBranch
<1>3. IsSeq(Front(frames)) /\ KeptFrames(game, Front(frames))
  BY <1>2, BranchTop, Popped, KeptPopped DEF TypesInv, ValuesInv, OuterInv, KeptFrames
<1>4. /\ Frame.kind = "branch" /\ OuterCall(game, Frame.call)
      /\ Frame = [kind |-> Frame.kind, rest |-> Frame.rest, call |-> Frame.call]
      /\ Frame.rest # <<>> /\ Frame.call.mode # "FindEnd" =>
           ToSet(Tail(Frame.rest)) \subseteq Outer(game)
  BY <1>2, BranchTop
<1>5. f.kind = "branch" /\ f.rest = Tail(Frame.rest) /\ f.call = Frame.call
  <2> DEFINE r == Frame
  <2> HIDE DEF r
  <2>1. r = [kind |-> r.kind, rest |-> r.rest, call |-> r.call]
    BY <1>4 DEF r
  <2>2. /\ [r EXCEPT !.rest = Tail(@)].kind = r.kind
        /\ [r EXCEPT !.rest = Tail(@)].rest = Tail(r.rest)
        /\ [r EXCEPT !.rest = Tail(@)].call = r.call
    BY <2>1
  <2> QED BY <1>4, <2>2 DEF r
<1> HIDE DEF f
<1>6. Frame.rest # <<>> => TypedFrame(game, f) /\ OuterFrame(game, f)
  BY <1>4, <1>5 DEF TypedFrame, OuterFrame
<1> QED BY <1>1, <1>3, <1>6, KeptPushed

LEMMA FramesKept ==
  ASSUME SafeInv, LevelsInv, TypesInv, [Next]_vars
  PROVE  KeptFrames(game, frames')
<1>1. IsSeq(frames) /\ KeptFrames(game, frames)
  BY DEF LevelsInv, TypesInv, ValuesInv, OuterInv, KeptFrames
<1>2. CASE ReturnCondition \/ ReturnResult \/ ReturnShift \/ ReturnModifier
  <2>1. frames' = Front(frames)
    BY <1>2 DEF ReturnCondition, ReturnResult, ReturnShift, ReturnModifier, PopFrame
  <2> QED BY <1>1, <2>1, KeptPopped
<1>3. CASE frames' = frames
  BY <1>1, <1>3
<1> QED BY <1>2, <1>3, Changes, ConditionKept, ResultKept, ShiftKept, ModifierKept, BranchKept,
         BranchReturnKept

----
\* The position and what is kept to revert it.

\* The modifier that Apply plays next, from where it is played.
LEMMA Played ==
  ASSUME SafeInv, LevelsInv, TypesInv, ApplyModifier,
         NEW m, m = Playing[Len(infos) + 1], NEW a, a = Modifier(game, m[2]),
         NEW p, p = [position EXCEPT !.pos = m[1]]
  PROVE  /\ IsBoard(game) /\ IsPosition(game, p) /\ Typed(game, p) /\ p.pos \in Squares(game)
         /\ IsChange(game, a) /\ Assigns(game, a)
<1>1. phase = "apply" /\ Len(infos) < Len(Playing)
  BY DEF ApplyModifier
<1>2. frames = <<>> /\ undos # <<>>
  BY <1>1 DEF LevelsInv, LoopPhases, SafeInv, CallerOK
<1>3. /\ IsBoard(game) /\ IsPosition(game, position) /\ IsSeq(infos) /\ Typed(game, position)
  BY <1>2, LoopFacts DEF TypesInv, ValuesInv
<1>4. m \in Steps(game)
  <2>1. Playing \in Paths(game)
    BY <1>2, TopUndo DEF GoodUndo, Playing
  <2>2. Len(infos) \in Nat /\ Len(Playing) \in Nat
    BY <1>3, <2>1, IsSeqFacts DEF Paths
  <2>3. Len(infos) + 1 \in 1 .. Len(Playing)
    BY <1>1, <2>2
  <2> QED BY <2>1, <2>3, PathFacts
<1>5. m[1] \in Squares(game) /\ m[2] \in DOMAIN game.modifiers /\ m[1] \in 1 .. game.size
  BY <1>3, <1>4, BoardFacts DEF Steps
<1>6. IsChange(game, a) /\ Assigns(game, a)
  BY <1>5, StepFacts, StepAssigns
<1>7. /\ IsPosition(game, p) /\ p.pos = m[1]
      /\ p.vars = position.vars /\ p.player = position.player
  <2> DEFINE v == m[1]
  <2>1. v \in 1 .. game.size /\ p = [position EXCEPT !.pos = v]
    BY <1>5
  <2> HIDE DEF v
  <2>2. p = [pos |-> v, vars |-> position.vars, player |-> position.player,
             fields |-> position.fields, counts |-> position.counts]
    BY <1>3, <2>1, Replaced
  <2>3. p.pos = v /\ p.vars = position.vars /\ p.player = position.player
    BY <2>2
  <2>4. IsPosition(game, p)
    BY <1>3, <2>1, Moved
  <2> QED BY <2>3, <2>4 DEF v
<1>8. Typed(game, p)
  BY <1>3, <1>7 DEF Typed
<1> QED BY <1>3, <1>5, <1>6, <1>7, <1>8

\* The frame of an action that is reverted.
LEMMA FrameReverted ==
  ASSUME SafeInv, LevelsInv, TypesInv, Returning("shift") \/ Returning("modifier")
  PROVE  Typed(game, Reverted(Frame.action, position, Frame.saved))
<1>1. /\ phase = "return" /\ frames # <<>> /\ Frame.kind \in {"shift", "modifier"}
      /\ Frame = Last(frames)
  BY DEF Returning, Frame
<1>2. /\ IsChange(game, Frame.action) /\ IsSaved(game, Frame.action, Frame.saved)
      /\ Frame.kind = "shift" <=> Frame.action.type = "shift"
  BY <1>1, TopFrame DEF GoodFrame
<1>3. HasValue(game, Frame.action, Frame.saved)
  <2>1. IsSeq(frames) /\ KeptFrames(game, frames)
    BY DEF LevelsInv, TypesInv, ValuesInv, OuterInv, KeptFrames
  <2>2. TypedFrame(game, Frame)
    BY <1>1, <2>1, KeptPopped
  <2> QED BY <1>1, <2>2 DEF TypedFrame
<1>4. Frame.kind # "shift" => position.pos \in Squares(game)
  BY OnTheBoard DEF ShiftPending
<1>5. IsBoard(game) /\ IsPosition(game, position) /\ Typed(game, position)
  BY GameFacts DEF TypesInv, ValuesInv
<1> QED BY <1>2, <1>3, <1>4, <1>5, TypedReverted

LEMMA InfoReverted ==
  ASSUME SafeInv, LevelsInv, TypesInv, RevertModifier
  PROVE  Typed(game, position')
<1> DEFINE i == Last(Unwinding)
<1>1. phase = "revert" /\ Unwinding # <<>> /\ position' = Unwound(position, i)
  BY DEF RevertModifier
<1>2. frames = <<>> /\ undos # <<>>
  BY <1>1 DEF LevelsInv, LoopPhases, SafeInv, CallerOK
<1>3. IsSeq(undos) /\ Last(undos) \in ToSet(undos) /\ GoodInfos(game, Unwinding)
  BY <1>2, LoopFacts, TopUndo, Elements DEF Unwinding
<1>4. TypedInfos(game, Unwinding) /\ i \in ToSet(Unwinding)
  BY <1>1, <1>3, Elements DEF TypesInv, ValuesInv, Unwinding, GoodInfos
<1>5. GoodInfo(game, i) /\ HasValue(game, i.action, i.saved)
  BY <1>3, <1>4 DEF GoodInfos, TypedInfos
<1> HIDE DEF i
<1>6. /\ IsChange(game, i.action) /\ IsSaved(game, i.action, i.saved)
      /\ i.vertex \in Squares(game) /\ IsBoard(game) /\ IsPosition(game, position)
      /\ position.pos \in Squares(game) /\ Typed(game, position)
  BY <1>2, <1>5, LoopFacts DEF GoodInfo, TypesInv, ValuesInv
<1> DEFINE q == Reverted(i.action, position, i.saved)
<1>7. Typed(game, q) /\ IsPosition(game, q)
  BY <1>5, <1>6, TypedReverted, ChangeReverted
<1>8. position' = [q EXCEPT !.pos = i.vertex] /\ i.vertex \in 1 .. game.size
  BY <1>1, <1>6, BoardFacts DEF Unwound
<1> HIDE DEF q
<1> DEFINE v == i.vertex
<1>9. position' = [q EXCEPT !.pos = v] /\ v \in 1 .. game.size
  BY <1>8
<1> HIDE DEF v
<1>10. position' = [pos |-> v, vars |-> q.vars, player |-> q.player,
                    fields |-> q.fields, counts |-> q.counts]
  BY <1>7, <1>9, Replaced
<1> DEFINE o == position'
<1> HIDE DEF o
<1>11. o.vars = q.vars /\ o.player = q.player
  BY <1>10 DEF o
<1> QED BY <1>7, <1>11 DEF Typed, o

LEMMA BeginningTyped ==
  ASSUME NEW g, g.keeper \in Players(g)
  PROVE  Typed(g, InitialPosition(g))
<1>1. 0 \in Values
  BY WidthAssumption DEF Values
<1> QED BY <1>1 DEF Typed, InitialPosition

LEMMA PositionTyped ==
  ASSUME SafeInv, LevelsInv, TypesInv, [Next]_vars
  PROVE  Typed(game, position')
<1>1. Typed(game, position) /\ IsBoard(game) /\ IsPosition(game, position)
  BY GameFacts DEF TypesInv, ValuesInv
<1>2. CASE RunShift
  <2>1. /\ phase = "call" /\ ~AtBranch /\ Action.type = "shift" /\ ~ShiftPending
        /\ position' = Applied(game, Action, position)
    BY <1>2 DEF RunShift, At, ShiftPending
  <2>2. IsChange(game, Action) /\ Assigns(game, Action) /\ position.pos \in Squares(game)
    BY <2>1, ActionFacts, ActionTyped, OnTheBoard DEF IsChange, ModifierTypes
  <2> QED BY <1>1, <2>1, <2>2, TypedApplied
<1>3. CASE ReturnShift \/ ReturnModifier
  <2>1. /\ Returning("shift") \/ Returning("modifier")
        /\ \/ position' = position
           \/ position' = Reverted(Frame.action, position, Frame.saved)
    BY <1>3 DEF ReturnShift, ReturnModifier
  <2> QED BY <1>1, <2>1, FrameReverted
<1>4. CASE RunModifier \/ ApplySwitch
  <2>1. /\ phase = "call" /\ ~AtBranch /\ Action.type \in ModifierTypes \cup {"switch"}
        /\ position' = Applied(game, Action, position)
    BY <1>4 DEF RunModifier, ApplySwitch, At
  <2> QED BY <2>1, ModifierTyped
<1>5. CASE ApplyModifier
  <2> DEFINE m == Playing[Len(infos) + 1]
             a == Modifier(game, m[2])
             p == [position EXCEPT !.pos = m[1]]
  <2>1. position' = Applied(game, a, p)
    BY <1>5 DEF ApplyModifier
  <2>2. /\ IsBoard(game) /\ IsPosition(game, p) /\ Typed(game, p) /\ p.pos \in Squares(game)
        /\ IsChange(game, a) /\ Assigns(game, a)
    BY <1>5, Played
  <2> HIDE DEF m, a, p
  <2> QED BY <2>1, <2>2, TypedApplied
<1>6. CASE RevertModifier
  BY <1>6, InfoReverted
<1>7. CASE Reset
  BY <1>7, OuterFacts, BeginningTyped DEF Reset
<1> QED BY <1>1, <1>2, <1>3, <1>4, <1>5, <1>6, <1>7, Changes

----
LEMMA InfosTyped ==
  ASSUME SafeInv, LevelsInv, TypesInv, [Next]_vars
  PROVE  TypedInfos(game, infos')
<1>1. TypedInfos(game, infos) /\ IsSeq(infos)
  BY GameFacts DEF TypesInv, ValuesInv
<1>2. ASSUME NEW i, HasValue(game, i.action, i.saved)
      PROVE  TypedInfos(game, Append(infos, i))
  <2>1. ToSet(Append(infos, i)) = ToSet(infos) \cup {i}
    BY <1>1, Elements
  <2> QED BY <1>1, <1>2, <2>1 DEF TypedInfos
<1>3. TypedInfos(game, <<>>) /\ TypedInfos(game, Front(infos))
  <2>1. ToSet(<<>>) = {}
    BY DEF ToSet
  <2>2. ToSet(Front(infos)) \subseteq ToSet(infos)
    BY <1>1, Elements
  <2> QED BY <1>1, <2>1, <2>2 DEF TypedInfos
<1>4. CASE RunModifier \/ ApplySwitch
  <2>1. /\ phase = "call" /\ ~AtBranch /\ Action.type \in ModifierTypes \cup {"switch"}
        /\ infos' = infos \/ \E v : infos' = Append(infos, RevertInfo(v))
    BY <1>4 DEF RunModifier, ApplySwitch, At
  <2>2. HasValue(game, Action, Saved(Action, position))
    BY <2>1, ModifierTyped
  <2>3. \A v : HasValue(game, RevertInfo(v).action, RevertInfo(v).saved)
    BY <2>2 DEF RevertInfo
  <2> QED BY <1>1, <1>2, <2>1, <2>3
<1>5. CASE ReturnModifier
  BY <1>1, <1>3, <1>5 DEF ReturnModifier
<1>6. CASE ClosureEnd \/ Reset
  BY <1>3, <1>6 DEF ClosureEnd, Reset
<1>7. CASE ApplyModifier
  <2> DEFINE m == Playing[Len(infos) + 1]
             a == Modifier(game, m[2])
             p == [position EXCEPT !.pos = m[1]]
             i == [action |-> a, vertex |-> position.pos, saved |-> Saved(a, p)]
  <2>1. infos' = Append(infos, i)
    BY <1>7 DEF ApplyModifier
  <2>2. /\ IsBoard(game) /\ IsPosition(game, p) /\ Typed(game, p) /\ p.pos \in Squares(game)
        /\ IsChange(game, a) /\ Assigns(game, a)
    BY <1>7, Played
  <2> HIDE DEF m, a, p
  <2>3. HasValue(game, i.action, i.saved)
    BY <2>2, TypedApplied
  <2> HIDE DEF i
  <2> QED BY <1>2, <2>1, <2>3
<1> QED BY <1>1, <1>4, <1>5, <1>6, <1>7, Changes

\* What the caller keeps of an Apply.
TypedUndo(g, u) == TypedInfos(g, u.infos) /\ OuterUndo(g, u)

LEMMA UndosTyped ==
  ASSUME SafeInv, LevelsInv, TypesInv, [Next]_vars
  PROVE  \A u \in ToSet(undos') : TypedUndo(game, u)
<1>1. /\ \A u \in ToSet(undos) : TypedUndo(game, u)
      /\ TypedInfos(game, infos) /\ IsSeq(undos) /\ IsSeq(infos)
  BY GameFacts DEF TypesInv, ValuesInv, OuterInv, TypedUndo
<1>2. ASSUME undos # <<>>, NEW is, TypedInfos(game, is),
             undos' = [undos EXCEPT ![Len(undos)].infos = is]
      PROVE  \A u \in ToSet(undos') : TypedUndo(game, u)
  <2> DEFINE u == Last(undos)
             e == [u EXCEPT !.infos = is]
  <2>1. u = [block |-> u.block, infos |-> u.infos, move |-> u.move, position |-> u.position]
    BY <1>2, TopUndo DEF GoodUndo
  <2>2. u \in ToSet(undos) /\ u = undos[Len(undos)]
    BY <1>1, <1>2, Elements, Popped
  <2>3. undos' = [undos EXCEPT ![Len(undos)] = e]
    BY <1>2, <2>2
  <2>4. OuterUndo(game, u)
    BY <1>1, <2>2 DEF TypedUndo
  <2> HIDE DEF u
  <2>5. e.block = u.block /\ e.infos = is /\ e.move = u.move
    BY <2>1
  <2> HIDE DEF e
  <2>6. TypedUndo(game, e)
    BY <1>2, <2>4, <2>5 DEF TypedUndo, OuterUndo
  <2>7. ToSet(undos') \subseteq ToSet(undos) \cup {e}
    BY <1>1, <1>2, <2>3, Elements
  <2> QED BY <1>1, <2>6, <2>7
<1>3. CASE ClosureEnd
  <2>1. \/ operation = "Apply" /\ undos' = [undos EXCEPT ![Len(undos)].infos = infos]
        \/ undos' = <<>>
    BY <1>3 DEF ClosureEnd
  <2>2. operation = "Apply" => undos # <<>>
    BY DEF SafeInv, CallerOK
  <2>3. ToSet(<<>>) = {}
    BY DEF ToSet
  <2> QED BY <1>1, <1>2, <2>1, <2>2, <2>3
<1>4. CASE RevertModifier
  <2>1. /\ phase = "revert" /\ Unwinding = Last(undos).infos
        /\ undos' = [undos EXCEPT ![Len(undos)].infos = Front(Unwinding)]
    BY <1>4 DEF RevertModifier, Unwinding
  <2>2. undos # <<>>
    BY <2>1 DEF SafeInv, CallerOK
  <2>3. TypedInfos(game, Unwinding) /\ IsSeq(Unwinding)
    BY <1>1, <2>1, <2>2, Elements, TopUndo DEF TypedUndo, GoodInfos
  <2>4. TypedInfos(game, Front(Unwinding))
    BY <2>3, Elements DEF TypedInfos
  <2> QED BY <1>2, <2>1, <2>2, <2>4
<1>5. CASE RevertReturn
  <2>1. undos' = Front(undos)
    BY <1>5 DEF RevertReturn
  <2> QED BY <1>1, <2>1, Elements
<1>6. ASSUME NEW move \in ToSet(Last(nodes).moves), Apply(move)
      PROVE  \A u \in ToSet(undos') : TypedUndo(game, u)
  <2> DEFINE u == [block |-> currentBlock, infos |-> <<>>, move |-> move, position |-> position]
  <2>1. undos' = Append(undos, u) /\ phase = "idle"
    BY <1>6 DEF Apply, Idle
  <2>2. nodes # <<>> /\ IsSeq(nodes)
    <3>1. frames = <<>> /\ operation # "Apply"
      BY <2>1 DEF LevelsInv, SafeInv, CallerOK
    <3> QED BY <3>1, LoopFacts
  <2>3. Leads(game, move) /\ currentBlock[1] \in Outer(game)
    BY <2>2, Elements DEF TypesInv, OuterInv
  <2>4. TypedUndo(game, u)
    BY <2>3 DEF TypedUndo, OuterUndo, TypedInfos, ToSet
  <2> HIDE DEF u
  <2>5. ToSet(undos') = ToSet(undos) \cup {u}
    BY <1>1, <2>1, Elements
  <2> QED BY <1>1, <2>4, <2>5
<1> QED BY <1>1, <1>3, <1>4, <1>5, <1>6, Changes

----
\* The marks.
LEMMA MarksPushed ==
  ASSUME NEW g, NEW levels, IsSeq(levels), Marks(g, levels)
  PROVE  Marks(g, Push(levels)) /\ Marks(g, Pop(levels)) /\ Marks(g, <<{}>>)
<1>1. /\ ToSet(Push(levels)) = ToSet(levels) \cup {{}}
      /\ ToSet(Pop(levels)) \subseteq ToSet(levels)
  BY Elements DEF Push, Pop
<1>2. ToSet(<<{}>>) = {{}}
  BY DEF ToSet
<1> QED BY <1>1, <1>2 DEF Marks

LEMMA MarkAdded ==
  ASSUME NEW g, NEW levels, IsSeq(levels), levels # <<>>, Marks(g, levels), NEW m, IsMark(g, m)
  PROVE  Marks(g, WithMark(levels, m))
<1> DEFINE level == Last(levels) \cup {m}
<1>1. Last(levels) \in ToSet(levels) /\ Last(levels) = levels[Len(levels)]
  BY Elements, Popped
<1>2. WithMark(levels, m) = [levels EXCEPT ![Len(levels)] = level]
  BY <1>1 DEF WithMark
<1>3. \A n \in level : IsMark(g, n)
  BY <1>1 DEF Marks
<1> HIDE DEF level
<1>4. ToSet(WithMark(levels, m)) \subseteq ToSet(levels) \cup {level}
  BY <1>2, Elements
<1> QED BY <1>3, <1>4 DEF Marks

LEMMA MarksKept ==
  ASSUME SafeInv, LevelsInv, TypesInv, [Next]_vars
  PROVE  MarksInv'
<1>1. /\ IsSeq(visited) /\ visited # <<>> /\ Marks(game, visited)
      /\ IsSeq(results) /\ results # <<>> /\ Marks(game, results)
  BY LevelsFacts DEF TypesInv, MarksInv
<1>2. /\ \A levels \in {visited, results} :
           Marks(game, Push(levels)) /\ Marks(game, Pop(levels))
      /\ Marks(game, <<{}>>)
  BY <1>1, MarksPushed
<1>3. CASE RunVisitedCheck \/ RunConditionVisitedCheck
  <2> DEFINE m == Mark(Action.check)
  <2>1. visited' \in {visited, WithMark(visited, m)} /\ results' = results
    BY <1>3 DEF RunVisitedCheck, RunConditionVisitedCheck
  <2>2. IsMark(game, m)
    BY <1>3, MarkMade DEF RunVisitedCheck, RunConditionVisitedCheck
  <2> HIDE DEF m
  <2>3. Marks(game, visited') /\ Marks(game, results')
    BY <1>1, <2>1, <2>2, MarkAdded
  <2> QED BY <2>3, Changes DEF MarksInv
<1>4. CASE ReturnResult
  <2> DEFINE m == Frame.mark
  <2>1. /\ results' \in {results, WithMark(results, m)} /\ visited' = visited
        /\ frames # <<>> /\ Frame.kind = "result" /\ Frame = Last(frames)
    BY <1>4 DEF ReturnResult, Returning, Frame
  <2>2. IsMark(game, m)
    <3>1. IsSeq(frames) /\ KeptFrames(game, frames)
      BY DEF LevelsInv, TypesInv, ValuesInv, OuterInv, KeptFrames
    <3>2. TypedFrame(game, Frame)
      BY <2>1, <3>1, KeptPopped
    <3> QED BY <2>1, <3>2 DEF TypedFrame
  <2> HIDE DEF m
  <2>3. Marks(game, visited') /\ Marks(game, results')
    BY <1>1, <2>1, <2>2, MarkAdded
  <2> QED BY <2>3, Changes DEF MarksInv
<1>5. CASE RunCondition \/ ReturnCondition
  <2>1. visited' \in {Push(visited), Pop(visited)} /\ results' = results
    BY <1>5 DEF RunCondition, ReturnCondition
  <2>2. Marks(game, visited') /\ Marks(game, results')
    BY <1>1, <1>2, <2>1
  <2> QED BY <2>2, Changes DEF MarksInv
<1>6. CASE RunModifier \/ ReturnModifier \/ ApplySwitch
  <2>1. /\ visited' \in {visited, Push(visited), Pop(visited)}
        /\ results' \in {results, Push(results), Pop(results)}
    BY <1>6 DEF RunModifier, ReturnModifier, ApplySwitch, LevelPushed, LevelPopped
  <2>2. Marks(game, visited') /\ Marks(game, results')
    BY <1>1, <1>2, <2>1
  <2> QED BY <2>2, Changes DEF MarksInv
<1>7. CASE ClosureReturn \/ ApplySwitched \/ Reset
  <2>1. visited' = <<{}>> /\ results' = <<{}>>
    BY <1>7 DEF ClosureReturn, ApplySwitched, Reset, ResetStacks
  <2>2. Marks(game, visited') /\ Marks(game, results')
    BY <1>2, <2>1
  <2> QED BY <2>2, Changes DEF MarksInv
<1>8. CASE visited' = visited /\ results' = results
  BY <1>1, <1>8, Changes DEF MarksInv
<1> QED BY <1>3, <1>4, <1>5, <1>6, <1>7, <1>8, Changes

----
\* Where the next step calls, and how it may be coming back with a success.
LEMMA Turns ==
  ASSUME [Next]_vars
  PROVE  /\ phase' = "call" =>
              \/ phase = "call" /\ (call' = call \/ call' = Following)
              \/ RunCondition \/ ReturnCondition \/ RunModifier \/ RunBranch \/ ReturnBranch
              \/ ClosureRun \/ Moves
         /\ Succeeding' =>
              ApplySwitch \/ (Succeeding /\ (applied' = applied \/ ReturnModifier))
         /\ calculated' = calculated \/ calculated' \in BOOLEAN
         /\ \/ operation' = operation
            \/ operation' \in {"none", "construct", "Moves", "Apply", "Revert", "Reset"}
<1>1. CASE RunTest
  BY <1>1 DEF RunTest, Succeeding, Calls, Returns, Returning, searchVars, apiVars
<1>2. CASE RunVisitedCheck
  BY <1>2 DEF RunVisitedCheck, At, Succeeding, Calls, Returns, Returning, searchVars, apiVars
<1>3. CASE RunCondition
  BY <1>3 DEF RunCondition, Succeeding, Calls, Returns, Returning, searchVars, apiVars
<1>4. CASE ReturnCondition
  BY <1>4 DEF ReturnCondition, Succeeding, Calls, Returns, Returning, searchVars, apiVars
<1>5. CASE RunConditionVisitedCheck
  BY <1>5 DEF RunConditionVisitedCheck, At, Succeeding, Calls, Returns, searchVars, apiVars
<1>6. CASE ReturnResult
  BY <1>6 DEF ReturnResult, Succeeding, Calls, Returns, Returning, searchVars, apiVars
<1>7. CASE RunShift
  BY <1>7 DEF RunShift, At, Succeeding, Calls, Returns, Returning, searchVars, apiVars
<1>8. CASE ReturnShift
  BY <1>8 DEF ReturnShift, Succeeding, Calls, Returns, Returning, searchVars, apiVars
<1>9. CASE RunModifier
  BY <1>9 DEF RunModifier, Succeeding, Calls, Returns, Returning, searchVars, apiVars
<1>10. CASE ReturnModifier
  BY <1>10 DEF ReturnModifier, Succeeding, Calls, Returns, Returning, searchVars, apiVars
<1>11. CASE RunSwitch
  BY <1>11 DEF RunSwitch, Succeeding, Calls, Returns, Returning, searchVars, apiVars
<1>12. CASE ApplySwitch
  BY <1>12 DEF ApplySwitch, Succeeding, Calls, Returns, Returning, searchVars, apiVars
<1>13. CASE RunBranch
  BY <1>13 DEF RunBranch, Succeeding, Calls, Returns, Returning, searchVars, apiVars
<1>14. CASE ReturnBranch
  BY <1>14 DEF ReturnBranch, Succeeding, Calls, Returns, Returning, searchVars, apiVars
<1>15. CASE ClosureRun
  BY <1>15 DEF ClosureRun, Succeeding, Calls, Returns, Returning, searchVars, apiVars
<1>16. CASE ClosureReturn
  BY <1>16 DEF ClosureReturn, Succeeding, Calls, Returns, Returning, searchVars, apiVars
<1>17. CASE ClosureEnd
  BY <1>17 DEF ClosureEnd, Succeeding, Calls, Returns, Returning, searchVars, apiVars
<1>18. CASE MovesReturn
  BY <1>18 DEF MovesReturn, Succeeding, Calls, Returns, Returning, searchVars, apiVars
<1>19. CASE ApplyModifier
  BY <1>19 DEF ApplyModifier, Succeeding, Calls, Returns, Returning, searchVars, apiVars
<1>20. CASE ApplySwitched
  BY <1>20 DEF ApplySwitched, Succeeding, Calls, Returns, Returning, searchVars, apiVars
<1>21. CASE RevertModifier
  BY <1>21 DEF RevertModifier, Succeeding, Calls, Returns, Returning, searchVars, apiVars
<1>22. CASE RevertReturn
  BY <1>22 DEF RevertReturn, Succeeding, Calls, Returns, Returning, searchVars, apiVars
<1>23. CASE FirstMoves
  BY <1>23 DEF FirstMoves, Moves, Succeeding, Calls, Returns, Returning, searchVars, apiVars
<1>24. CASE (\E move \in ToSet(Last(nodes).moves) : Apply(move))
  BY <1>24 DEF Apply, Succeeding, searchVars, apiVars
<1>25. CASE Revert
  BY <1>25 DEF Revert, Succeeding, searchVars, apiVars
<1>26. CASE Reset
  BY <1>26 DEF Reset, Succeeding, searchVars, apiVars
<1>27. CASE UNCHANGED vars
  BY <1>27 DEF vars, Succeeding, searchVars, apiVars
<1> QED BY <1>1, <1>2, <1>3, <1>4, <1>5, <1>6, <1>7, <1>8, <1>9, <1>10, <1>11, <1>12,
           <1>13, <1>14, <1>15, <1>16, <1>17, <1>18, <1>19, <1>20, <1>21, <1>22, <1>23,
           <1>24, <1>25, <1>26, <1>27 DEF Next, Step

----
\* Blocks outside of conditions lead to each other.
LEMMA CallChanged ==
  ASSUME NEW c, IsCall(c), NEW b, NEW v
  PROVE  /\ [c EXCEPT !.at = <<b, 1>>].at[1] = b /\ [c EXCEPT !.at = <<b, 1>>].mode = c.mode
         /\ [c EXCEPT !.vertex = v].at = c.at /\ [c EXCEPT !.vertex = v].mode = c.mode
<1>1. c = [at |-> c.at, mode |-> c.mode, vertex |-> c.vertex]
  BY DEF IsCall
<1> QED BY <1>1

\* To the first of the blocks that follow, and to the next one of those left.
LEMMA BranchCalls ==
  ASSUME SafeInv, LevelsInv, TypesInv, RunBranch \/ ReturnBranch, phase' = "call"
  PROVE  OuterCall(game, call')
<1>1. ASSUME NEW c, IsCall(c), OuterCall(game, c), NEW b,
             c.mode # "FindEnd" => b \in Outer(game)
      PROVE  OuterCall(game, [c EXCEPT !.at = <<b, 1>>])
  <2> DEFINE d == [c EXCEPT !.at = <<b, 1>>]
  <2>1. d.at[1] = b /\ d.mode = c.mode
    BY <1>1, CallChanged
  <2> HIDE DEF d
  <2>2. OuterCall(game, d)
    BY <1>1, <2>1 DEF OuterCall
  <2> QED BY <2>2 DEF d
<1>2. CASE RunBranch
  <2> DEFINE nexts == Block.nexts
             b == nexts[1]
  <2>1. phase = "call" /\ OuterCall(game, call) /\ IsCall(call)
    BY <1>2, LevelsFacts DEF RunBranch, TypesInv, OuterInv
  <2>2. nexts \in Seq(DOMAIN game.blocks) /\ Len(nexts) \in Nat
    <3>1. call.at[1] \in DOMAIN game.blocks
      BY <2>1 DEF SafeInv, GoodCall, IsPlace
    <3> QED BY <3>1 DEF SafeInv, IsGame, AreBlocks, Block
  <2>3. nexts # <<>> /\ call' = [call EXCEPT !.at = <<b, 1>>]
    <3>1. CASE Len(nexts) = 0
      BY <1>2, <3>1 DEF RunBranch, Returns
    <3>2. CASE Len(nexts) # 0
      BY <1>2, <2>2, <3>2 DEF RunBranch, Calls
    <3> QED BY <3>1, <3>2
  <2>4. ASSUME call.mode # "FindEnd"
        PROVE  b \in Outer(game)
    <3>1. ToSet(nexts) \subseteq Outer(game) /\ 1 \in DOMAIN nexts
      BY <2>1, <2>2, <2>3, <2>4, NextsOuter
    <3> QED BY <3>1 DEF ToSet
  <2> HIDE DEF b
  <2> QED BY <1>1, <2>1, <2>3, <2>4
<1>3. CASE ReturnBranch
  <2> DEFINE b == Head(Frame.rest)
             c == Frame.call
  <2>1. Returning("branch") /\ phase = "return"
    BY <1>3 DEF ReturnBranch, Returning
  <2>2. Frame.rest # <<>> /\ call' = [c EXCEPT !.at = <<b, 1>>]
    BY <1>3, <2>1 DEF ReturnBranch, Calls
  <2>3. IsCall(c) /\ OuterCall(game, c) /\ (c.mode # "FindEnd" => b \in Outer(game))
    BY <2>1, <2>2, BranchTop
  <2> HIDE DEF b, c
  <2> QED BY <1>1, <2>2, <2>3
<1> QED BY <1>2, <1>3

LEMMA CallsOuter ==
  ASSUME SafeInv, LevelsInv, TypesInv, [Next]_vars, phase' = "call"
  PROVE  OuterCall(game, call')
<1>1. CASE phase = "call" /\ (call' = call \/ call' = Following)
  BY <1>1, FollowingOuter DEF TypesInv, OuterInv
<1>2. CASE RunCondition
  <2>1. call' = [at |-> <<Action.initial, 1>>, mode |-> "FindEnd", vertex |-> 0]
    BY <1>2 DEF RunCondition, Calls
  <2>2. call'.mode = "FindEnd"
    BY <2>1
  <2> QED BY <2>2 DEF OuterCall
<1>3. CASE ReturnCondition
  <2>1. /\ phase = "return" /\ frames # <<>> /\ Frame.kind = "condition" /\ Frame = Last(frames)
        /\ call' = Frame.call
    BY <1>3 DEF ReturnCondition, Returning, Frame, Calls, Returns
  <2>2. IsSeq(frames) /\ KeptFrames(game, frames)
    BY DEF LevelsInv, TypesInv, ValuesInv, OuterInv, KeptFrames
  <2>3. OuterFrame(game, Frame)
    BY <2>1, <2>2, KeptPopped
  <2> QED BY <2>1, <2>3 DEF OuterFrame
<1>4. CASE RunModifier
  <2> DEFINE c == Following
             d == [c EXCEPT !.vertex = position.pos]
  <2>1. phase = "call" /\ call' = d
    BY <1>4 DEF RunModifier, Calls
  <2>2. IsCall(c) /\ OuterCall(game, c)
    BY <2>1, FollowingOuter, FollowingCall, LevelsFacts DEF TypesInv, OuterInv
  <2> HIDE DEF c
  <2>3. d.at = c.at /\ d.mode = c.mode
    BY <2>2, CallChanged
  <2> HIDE DEF d
  <2>4. OuterCall(game, d)
    BY <2>2, <2>3 DEF OuterCall
  <2> QED BY <2>1, <2>4
<1>5. CASE RunBranch \/ ReturnBranch
  BY <1>5, BranchCalls
<1>6. CASE ClosureRun \/ Moves
  <2>1. call'.at = currentBlock
    <3>1. \/ call' = [at |-> currentBlock, mode |-> "ApplyFirst", vertex |-> position.pos]
          \/ call' = [at |-> currentBlock, mode |-> "Run", vertex |-> 0]
      BY <1>6 DEF ClosureRun, Moves, Calls
    <3> QED BY <3>1
  <2> QED BY <2>1 DEF OuterCall, TypesInv, OuterInv
<1> QED BY <1>1, <1>2, <1>3, <1>4, <1>5, <1>6, Turns

----
\* A path that ends at a switch leads on from there.
LEMMA SwitchLeads ==
  ASSUME SafeInv, LevelsInv, TypesInv, At("switch"), call.mode # "FindEnd"
  PROVE  Leads(game, Append(applied, Here))
<1> DEFINE h == Here
           path == Append(applied, h)
<1>1. phase = "call" /\ ~AtBranch /\ Action.type = "switch" /\ h[2] = Action.index
  BY DEF At, Here
<1>2. OuterCall(game, call)
  BY <1>1 DEF TypesInv, OuterInv
<1>3. game.modifiers[h[2]] \in Outer(game)
  BY <1>1, <1>2, ActionTyped DEF OuterCall
<1> HIDE DEF h
<1>4. Last(path) = h
  BY GameFacts, Lengths
<1> HIDE DEF path
<1>5. Leads(game, path)
  BY <1>3, <1>4 DEF Leads
<1> QED BY <1>5 DEF path, h

LEMMA SuccessLeads ==
  ASSUME SafeInv, LevelsInv, TypesInv, [Next]_vars, Succeeding'
  PROVE  Leads(game, applied')
<1>1. CASE ApplySwitch
  <2>1. At("switch") /\ call.mode # "FindEnd" /\ applied' = Append(applied, Here)
    BY <1>1 DEF ApplySwitch, LevelPushed
  <2> QED BY <2>1, SwitchLeads
<1>2. CASE Succeeding /\ applied' = applied
  BY <1>2 DEF TypesInv, OuterInv
<1>3. CASE Succeeding /\ ReturnModifier
  <2>1. /\ phase = "return" /\ frames # <<>> /\ Frame.kind = "modifier"
    BY <1>3 DEF ReturnModifier, Returning
  <2>2. Frame.mode = "ApplyFirst" /\ value
    BY <1>3, <2>1, TopFrame
  <2>3. applied' = applied
    BY <1>3, <2>2 DEF ReturnModifier
  <2> QED BY <1>3, <2>3 DEF TypesInv, OuterInv
<1> QED BY <1>1, <1>2, <1>3, Turns

LEMMA MovesLead ==
  ASSUME SafeInv, LevelsInv, TypesInv, [Next]_vars
  PROVE  \A m \in ToSet(moves') : Leads(game, m)
<1>1. IsSeq(moves) /\ \A m \in ToSet(moves) : Leads(game, m)
  BY GameFacts DEF TypesInv, OuterInv
<1>2. ToSet(<<>>) = {}
  BY DEF ToSet
<1>3. CASE RunSwitch
  <2> DEFINE path == Append(applied, Here)
  <2>1. At("switch") /\ call.mode # "FindEnd" /\ moves' = Append(moves, path)
    BY <1>3 DEF RunSwitch
  <2>2. Leads(game, path)
    BY <2>1, SwitchLeads
  <2> HIDE DEF path
  <2>3. ToSet(moves') = ToSet(moves) \cup {path}
    BY <1>1, <2>1, Elements
  <2> QED BY <1>1, <2>2, <2>3
<1>4. CASE ClosureRun \/ ClosureEnd \/ RevertReturn \/ Reset
  <2>1. moves' = moves \/ moves' = <<>>
    BY <1>4 DEF ClosureRun, ClosureEnd, RevertReturn, Reset
  <2> QED BY <1>1, <1>2, <2>1
<1> QED BY <1>1, <1>3, <1>4, Changes

LEMMA NodesLead ==
  ASSUME SafeInv, LevelsInv, TypesInv, [Next]_vars
  PROVE  \A n \in ToSet(nodes') : \A m \in ToSet(n.moves) : Leads(game, m)
<1> DEFINE Good(ns) == \A n \in ToSet(ns) : \A m \in ToSet(n.moves) : Leads(game, m)
<1>1. IsSeq(nodes) /\ Good(nodes)
  BY GameFacts DEF TypesInv, OuterInv
<1>2. CASE ClosureEnd
  <2> DEFINE n == NewNode
  <2>1. nodes' = Append(nodes, n) \/ nodes' = <<n>>
    BY <1>2 DEF ClosureEnd
  <2>2. ToSet(n.moves) = {}
    BY DEF NewNode, ToSet
  <2> HIDE DEF n
  <2>3. ToSet(Append(nodes, n)) = ToSet(nodes) \cup {n}
    BY <1>1, Elements
  <2>4. ToSet(<<n>>) = {n}
    BY DEF ToSet
  <2> QED BY <1>1, <2>1, <2>2, <2>3, <2>4
<1>3. CASE MovesReturn
  <2> DEFINE n == [known |-> TRUE, moves |-> moves]
  <2>1. /\ nodes' = [nodes EXCEPT ![Len(nodes)] = n]
        /\ frames = <<>> /\ operation = "Moves"
    BY <1>3 DEF MovesReturn
  <2>2. nodes # <<>>
    BY <2>1, LoopFacts
  <2>3. \A m \in ToSet(n.moves) : Leads(game, m)
    BY DEF TypesInv, OuterInv
  <2> HIDE DEF n
  <2>4. ToSet(nodes') \subseteq ToSet(nodes) \cup {n}
    BY <1>1, <2>1, <2>2, Elements
  <2> QED BY <1>1, <2>3, <2>4
<1>4. CASE RevertReturn
  <2>1. nodes' = Front(nodes)
    BY <1>4 DEF RevertReturn
  <2>2. ToSet(nodes') \subseteq ToSet(nodes)
    BY <1>1, <2>1, Elements
  <2> QED BY <1>1, <2>2
<1>5. CASE nodes' = nodes
  BY <1>1, <1>5
<1> QED BY <1>2, <1>3, <1>4, <1>5, Changes

\* And so does the block the next search begins in.
LEMMA BeginsOuter ==
  ASSUME SafeInv, LevelsInv, TypesInv, [Next]_vars
  PROVE  currentBlock'[1] \in Outer(game)
<1>1. currentBlock[1] \in Outer(game)
  BY DEF TypesInv, OuterInv
<1>2. \A path : Leads(game, path) => Switch(game, Last(path)[2])[1] \in Outer(game)
  BY DEF Leads, Switch
<1>3. CASE ClosureReturn
  <2>1. /\ phase = "return" /\ frames = <<>> /\ operation # "Moves"
        /\ IF value THEN currentBlock' = Switch(game, Last(applied)[2])
                    ELSE currentBlock' = currentBlock
    BY <1>3 DEF ClosureReturn
  <2>2. value => Succeeding
    <3>1. TopMode(frames, Base) = "ApplyFirst"
      BY <2>1, NoFrames DEF Base
    <3> QED BY <2>1, <3>1 DEF LevelsInv, Succeeding
  <2>3. value => Leads(game, applied)
    BY <2>2 DEF TypesInv, OuterInv
  <2> QED BY <1>1, <1>2, <2>1, <2>3
<1>4. CASE ApplySwitched
  <2>1. phase = "apply" /\ currentBlock' = Switch(game, Last(Last(undos).move)[2])
    BY <1>4 DEF ApplySwitched, Playing
  <2>2. undos # <<>> /\ IsSeq(undos)
    BY <2>1, GameFacts DEF SafeInv, CallerOK
  <2>3. OuterUndo(game, Last(undos))
    BY <2>2, Elements DEF TypesInv, OuterInv
  <2> QED BY <1>2, <2>1, <2>3 DEF OuterUndo
<1>5. CASE RevertReturn
  <2>1. phase = "revert" /\ currentBlock' = Last(undos).block
    BY <1>5 DEF RevertReturn
  <2>2. undos # <<>> /\ IsSeq(undos)
    BY <2>1, GameFacts DEF SafeInv, CallerOK
  <2>3. OuterUndo(game, Last(undos))
    BY <2>2, Elements DEF TypesInv, OuterInv
  <2> QED BY <2>1, <2>3 DEF OuterUndo
<1>6. CASE Reset
  <2>1. currentBlock' = <<1, 1>>
    BY <1>6 DEF Reset, Initial
  <2> QED BY <2>1, OuterFacts
<1> QED BY <1>1, <1>3, <1>4, <1>5, <1>6, Changes

----
LEMMA TypesInductive ==
  ASSUME SafeInv, LevelsInv, TypesInv, [Next]_vars
  PROVE  TypesInv'
<1>1. game' = game
  BY Changes
<1>2. ValuesInv'
  <2>1. Typed(game, position') /\ TypedInfos(game, infos')
    BY PositionTyped, InfosTyped
  <2>2. \A f \in ToSet(frames') : TypedFrame(game, f)
    BY FramesKept DEF KeptFrames
  <2>3. \A u \in ToSet(undos') : TypedInfos(game, u.infos)
    BY UndosTyped DEF TypedUndo
  <2> QED BY <1>1, <2>1, <2>2, <2>3 DEF ValuesInv
<1>3. MarksInv'
  BY MarksKept
<1>4. OuterInv'
  <2>1. phase' = "call" => OuterCall(game, call')
    BY CallsOuter
  <2>2. \A f \in ToSet(frames') : OuterFrame(game, f)
    BY FramesKept DEF KeptFrames
  <2>3. currentBlock'[1] \in Outer(game)
    BY BeginsOuter
  <2>4. \A m \in ToSet(moves') : Leads(game, m)
    BY MovesLead
  <2>5. Succeeding' => Leads(game, applied')
    BY SuccessLeads
  <2>6. \A n \in ToSet(nodes') : \A m \in ToSet(n.moves) : Leads(game, m)
    BY NodesLead
  <2>7. \A u \in ToSet(undos') : OuterUndo(game, u)
    BY UndosTyped DEF TypedUndo
  <2> QED BY <1>1, <2>1, <2>2, <2>3, <2>4, <2>5, <2>6, <2>7 DEF OuterInv
<1>5. FlagsOK'
  BY Turns DEF TypesInv, FlagsOK
<1> QED BY <1>2, <1>3, <1>4, <1>5 DEF TypesInv

LEMMA TypesInit ==
  ASSUME Init
  PROVE  TypesInv
<1>1. SafeInv
  BY SafeInit
<1>2. ToSet(<<>>) = {} /\ ToSet(<<{}>>) = {{}}
  BY DEF ToSet
<1>3. ValuesInv
  <2>1. Typed(game, InitialPosition(game))
    BY <1>1, OuterFacts, BeginningTyped
  <2> QED BY <1>2, <2>1 DEF Init, ValuesInv, TypedInfos
<1>4. MarksInv
  BY <1>2 DEF Init, MarksInv, Marks
<1>5. OuterInv
  <2>1. currentBlock[1] = 1 /\ 1 \in Outer(game)
    BY <1>1, OuterFacts DEF Init, Initial
  <2>2. \A n \in ToSet(nodes) : ToSet(n.moves) = {}
    <3> DEFINE n == NewNode
    <3>1. ToSet(n.moves) = {}
      BY <1>2 DEF NewNode
    <3> HIDE DEF n
    <3>2. ToSet(<<n>>) = {n}
      BY DEF ToSet
    <3> QED BY <3>1, <3>2 DEF Init, n
  <2>3. phase = "closure" /\ frames = <<>> /\ moves = <<>> /\ undos = <<>>
    BY DEF Init
  <2> QED BY <1>2, <2>1, <2>2, <2>3 DEF OuterInv, Succeeding
<1>6. FlagsOK
  BY DEF Init, FlagsOK
<1> QED BY <1>3, <1>4, <1>5, <1>6 DEF TypesInv

\* The position, by what is counted on its board.
LEMMA PositionHasType ==
  ASSUME SafeInv, TypesInv
  PROVE  position \in PositionType
<1> DEFINE p == position
<1>1. /\ IsBoard(game) /\ IsPosition(game, p) /\ Typed(game, p)
  BY GameFacts DEF TypesInv, ValuesInv
<1> HIDE DEF p
<1>2. p.counts \in [Pieces -> Values]
  <2>1. ASSUME NEW piece \in Pieces
        PROVE  Cardinality(Occupied(game, p.fields, piece)) \in Values
    <3>1. /\ Cardinality(Occupied(game, p.fields, piece)) \in Nat
          /\ Cardinality(Occupied(game, p.fields, piece)) < Width
      BY <1>1, OccupiedFinite
    <3> QED BY <3>1, WidthAssumption DEF Values
  <2>2. p.counts = [piece \in Pieces |-> Cardinality(Occupied(game, p.fields, piece))]
    BY <1>1 DEF IsPosition, Counted, PiecesOf, Pieces
  <2> QED BY <2>1, <2>2
<1>3. p.fields \in [Vertices \cup {0} -> Pieces]
  <2>1. Squares(game) = Vertices /\ PiecesOf(game) = Pieces
    BY DEF Squares, Vertices, PiecesOf, Pieces
  <2>2. {0} \cup Vertices = Vertices \cup {0}
    OBVIOUS
  <2> QED BY <1>1, <2>1, <2>2 DEF IsPosition, IsFields
<1>4. /\ p = [pos |-> p.pos, vars |-> p.vars, player |-> p.player,
              fields |-> p.fields, counts |-> p.counts]
      /\ p.pos \in 1 .. game.size
      /\ p.vars \in [DOMAIN game.bounds -> Values] /\ p.player \in Players(game)
  BY <1>1 DEF IsPosition, Typed
<1>5. p \in PositionType
  BY <1>2, <1>3, <1>4 DEF PositionType
<1> QED BY <1>5 DEF p

LEMMA StateHasType ==
  ASSUME SafeInv, LevelsInv, TypesInv
  PROVE  TypeOK
<1>1. position \in PositionType /\ OnBoard
  BY PositionHasType, SafeOnBoard
<1>2. At("conditionVisited") => call.mode = "FindEnd"
  <2>1. SUFFICES ASSUME At("conditionVisited"), call.mode # "FindEnd"
                 PROVE  FALSE
    OBVIOUS
  <2>2. phase = "call" /\ ~AtBranch /\ Action.type = "conditionVisited"
    BY <2>1 DEF At
  <2>3. call.at[1] \in Outer(game)
    BY <2>1, <2>2 DEF TypesInv, OuterInv, OuterCall
  <2> QED BY <2>2, <2>3, ActionTyped
<1>3. calculated \in BOOLEAN /\ value \in BOOLEAN
  BY DEF LevelsInv, TypesInv, FlagsOK
<1>4. phase \in {"idle", "call", "return", "closure", "apply", "revert"}
  BY DEF LevelsInv, LoopPhases
<1>5. operation \in {"none", "construct", "Moves", "Apply", "Revert", "Reset"}
  BY DEF TypesInv, FlagsOK
<1>6. \A level \in ToSet(visited) \cup ToSet(results) :
        \A mark \in level : mark[1] \in DOMAIN game.blocks /\ mark[2] \in Vertices
  BY DEF TypesInv, MarksInv, Marks, IsMark, Squares, Vertices
<1>7. \A step \in ToSet(applied) \cup UNION {ToSet(m) : m \in ToSet(moves)} :
        step[1] \in Vertices /\ step[2] \in Nat
  <2>1. \A step \in Steps(game) : step[1] \in Vertices /\ step[2] \in Nat
    <3>1. DOMAIN game.modifiers \subseteq Nat
      BY DEF SafeInv, IsGame, AreBlocks
    <3> QED BY <3>1 DEF Steps, Squares, Vertices
  <2>2. ToSet(applied) \subseteq Steps(game) /\ ToSet(moves) \subseteq Paths(game)
    BY GameFacts DEF ToSet
  <2>3. \A m \in Paths(game) : ToSet(m) \subseteq Steps(game)
    BY DEF Paths, ToSet
  <2> QED BY <2>1, <2>2, <2>3
<1> QED BY <1>1, <1>2, <1>3, <1>4, <1>5, <1>6, <1>7 DEF TypeOK

\* The engine's state keeps its types in every search, whatever it applies and
\* takes back: no action but the bounds test reads the board at vertices_count
\* (actions.h ShiftAction, OutOfBoundsTest), and the check of a condition is
\* never met elsewhere (actions.h:55, "shouldn't be run").
THEOREM TypesAlwaysHold == Spec => []TypeOK
<1>1. Init => SafeInv /\ LevelsInv /\ TypesInv
  BY LevelsInit, SafeInit, TypesInit
<1>2. (SafeInv /\ LevelsInv /\ TypesInv) /\ [Next]_vars =>
        (SafeInv /\ LevelsInv /\ TypesInv)'
  BY LevelsInductive, SafeInductive, TypesInductive
<1>3. SafeInv /\ LevelsInv /\ TypesInv => TypeOK
  BY StateHasType
<1> QED BY <1>1, <1>2, <1>3, PTL DEF Spec

----
(***************************************************************************)
(* The two tables of a resolver agree, whatever names are added to it in   *)
(* whatever order, and a number once given stays.                          *)
(***************************************************************************)
\* The vector and the map are inverse to each other.
TablesAgree(r) ==
  /\ r = [names |-> r.names, ids |-> r.ids]
  /\ r.names \in Seq(DOMAIN r.ids)
  /\ r.ids \in [DOMAIN r.ids -> Ids(r)]
  /\ \A name \in DOMAIN r.ids : Name(r, Id(r, name)) = name
  /\ \A id \in Ids(r) : Id(r, Name(r, id)) = id

\* A new resolver has no names (NamesResolver()).
THEOREM NoNamesInverse == TablesAgree(NoNames)
  BY DEF TablesAgree, NoNames, Ids, Name, Id

\* Adding a name, new or not, keeps the tables inverse, gives the name a
\* number, and leaves every number that was given with its name: what the
\* moves were created with stays valid (NamesResolver::AddName).
THEOREM AddNameInverse ==
  ASSUME NEW r, TablesAgree(r), NEW name
  PROVE  LET added == AddName(r, name)
         IN  /\ TablesAgree(added)
             /\ HasName(added, name)
             /\ \A old \in DOMAIN r.ids : HasName(added, old) /\ Id(added, old) = Id(r, old)
<1> DEFINE added == AddName(r, name)
<1>1. CASE HasName(r, name)
  BY <1>1 DEF AddName, HasName
<1>2. CASE ~HasName(r, name)
  <2> DEFINE domain == DOMAIN r.ids \cup {name}
             size   == Len(r.names)
  <2>1. /\ size \in Nat
        /\ \A i \in 1 .. size : r.names[i] \in DOMAIN r.ids
    BY DEF TablesAgree
  <2>2. /\ added.names = Append(r.names, name)
        /\ added.ids = [n \in domain |-> IF n = name THEN size ELSE r.ids[n]]
        /\ added = [names |-> added.names, ids |-> added.ids]
    BY <1>2 DEF AddName, HasName
  <2>3. DOMAIN added.ids = domain
    BY <2>2
  <2>4. added.names \in Seq(domain)
    BY <2>2 DEF TablesAgree
  <2>5. /\ Len(added.names) = size + 1
        /\ \A i \in 1 .. size : added.names[i] = r.names[i]
        /\ added.names[size + 1] = name
    BY <2>2 DEF TablesAgree
  <2>6. /\ \A n \in DOMAIN r.ids : added.ids[n] = r.ids[n]
        /\ added.ids[name] = size
    BY <1>2, <2>2 DEF HasName
  <2>7. \A n \in DOMAIN r.ids : r.ids[n] \in 0 .. size - 1
    BY DEF TablesAgree, Ids
  <2>8. added.ids \in [domain -> Ids(added)]
    BY <2>1, <2>2, <2>5, <2>7 DEF Ids
  <2>9. ASSUME NEW n \in domain
        PROVE  Name(added, Id(added, n)) = n
    <3>1. CASE n = name
      BY <3>1, <2>5, <2>6 DEF Name, Id
    <3>2. CASE n \in DOMAIN r.ids
      <4>1. added.ids[n] = r.ids[n] /\ r.ids[n] + 1 \in 1 .. size
        BY <3>2, <2>1, <2>6, <2>7
      <4>2. r.names[r.ids[n] + 1] = n
        BY <3>2 DEF TablesAgree, Name, Id
      <4> QED BY <4>1, <4>2, <2>5 DEF Name, Id
    <3> QED BY <3>1, <3>2
  <2>10. ASSUME NEW i \in Ids(added)
         PROVE  Id(added, Name(added, i)) = i
    <3>1. CASE i = size
      BY <3>1, <2>5, <2>6 DEF Name, Id
    <3>2. CASE i # size
      <4>1. i \in Ids(r) /\ i + 1 \in 1 .. size
        BY <3>2, <2>1, <2>5 DEF Ids
      <4>2. Name(added, i) = Name(r, i) /\ Name(r, i) \in DOMAIN r.ids
        BY <4>1, <2>1, <2>5 DEF Name
      <4> QED BY <4>1, <4>2, <2>6 DEF Id, TablesAgree
    <3> QED BY <3>1, <3>2
  <2>11. TablesAgree(added)
    BY <2>2, <2>3, <2>4, <2>8, <2>9, <2>10 DEF TablesAgree
  <2> QED
    BY <2>3, <2>6, <2>11 DEF HasName, Id
<1> QED BY <1>1, <1>2

\* Two names never share a number, and two numbers never stand for one name.
THEOREM NumbersAreUnique ==
  ASSUME NEW r, TablesAgree(r)
  PROVE  /\ \A m, n \in DOMAIN r.ids : Id(r, m) = Id(r, n) => m = n
         /\ \A i, j \in Ids(r) : Name(r, i) = Name(r, j) => i = j
  BY DEF TablesAgree
====
