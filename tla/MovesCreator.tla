---- MODULE MovesCreator ----
(***************************************************************************)
(* From the moves of the parser to those of the game manager, names        *)
(* replaced by numbers: src/src/game_description/construction/             *)
(* moves_creator.cc and arithmetic_creator.cc, as graph_creator.cc calls   *)
(* them for every move of the rules.                                       *)
(***************************************************************************)
EXTENDS Declarations

\* A name in an expression is a number of pieces or a variable.
VariableArithmeticCase(d, t) ==
  IF t.op # "name" THEN t
  ELSE IF HasName(d.pieces, t.name) THEN [op |-> "count", piece |-> Id(d.pieces, t.name)]
  ELSE [op |-> "var", variable |-> Id(d.variables, t.name)]

CreateArithmeticOperation(d, e) == [i \in DOMAIN e |-> VariableArithmeticCase(d, e[i])]

CreateMove(d, act) ==
  CASE act.type = "shift" ->
         [type |-> "shift", label |-> Id(d.edges, act.label)]
    [] act.type = "on" ->
         [type |-> "on", pieces |-> {Id(d.pieces, piece) : piece \in act.pieces}]
    [] act.type = "off" ->
         [type |-> "off", piece |-> Id(d.pieces, act.piece), index |-> act.index]
    [] act.type = "assign" ->
         [type |-> "assign", variable |-> Id(d.variables, act.variable), index |-> act.index,
          value |-> CreateArithmeticOperation(d, act.value)]
    [] act.type = "switch" ->
         [type |-> "switch", player |-> Id(d.players, act.player), index |-> act.index]
    [] act.type = "keeper" ->
         [type |-> "switch", player |-> d.keeper, index |-> act.index]
    [] act.type = "compare" ->
         [type |-> "compare", cmp |-> act.cmp,
          left |-> CreateArithmeticOperation(d, act.left),
          right |-> CreateArithmeticOperation(d, act.right)]

\* GraphCreator::GameMoveCase, for every move of the rules.
RECURSIVE Created(_, _)
Created(d, rule) ==
  CASE rule.k = "move" -> [rule EXCEPT !.act = CreateMove(d, @)]
    [] rule.k \in {"sum", "cat"} ->
         [rule EXCEPT !.args = [i \in DOMAIN @ |-> Created(d, @[i])]]
    [] rule.k \in {"star", "check"} -> [rule EXCEPT !.arg = Created(d, @)]
====
