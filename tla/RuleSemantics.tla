---- MODULE RuleSemantics ----
(***************************************************************************)
(* What the rules of a game mean: the reference the compiler and the       *)
(* engine are compared with.  It runs the syntax tree of the rules as the  *)
(* parser has it, by names: no automaton, no visited checks, no order of   *)
(* alternatives, nothing to undo, because a state is never shared.         *)
(*                                                                         *)
(* A game is a parsed game (Declarations) with its rule.  A state is       *)
(* [rest, pos]: the rules that are still to be followed and a position     *)
(* [pos, vars, player, fields] of names and values; pieces are counted     *)
(* where the rules ask for them.                                           *)
(***************************************************************************)
EXTENDS GameActions, FiniteSets

State(rest, p) == [rest |-> rest, pos |-> p]

IsSwitch(act) == act.type \in {"switch", "keeper"}

\* What follows a player switch, whose index is unique in the rules.
RECURSIVE Followers(_, _, _)
Followers(rule, rest, index) ==
  CASE rule.k = "move"  -> IF IsSwitch(rule.act) /\ rule.act.index = index
                           THEN {rest} ELSE {}
    [] rule.k = "sum"   -> UNION {Followers(arg, rest, index) : arg \in ToSet(rule.args)}
    [] rule.k = "cat"   -> UNION {Followers(rule.args[i],
                                            SubSeq(rule.args, i + 1, Len(rule.args)) \o rest,
                                            index) : i \in DOMAIN rule.args}
    [] rule.k = "star"  -> Followers(rule.arg, <<rule>> \o rest, index)
    [] rule.k = "check" -> {}

Beginning(g)       == <<g.rule>>
AfterSwitch(g, index) == CHOOSE rest \in Followers(g.rule, <<>>, index) : TRUE

\* The conditions of a rule.
RECURSIVE ChecksOf(_)
ChecksOf(rule) ==
  CASE rule.k = "move"          -> {}
    [] rule.k \in {"sum", "cat"} -> UNION {ChecksOf(arg) : arg \in ToSet(rule.args)}
    [] rule.k = "star"          -> ChecksOf(rule.arg)
    [] rule.k = "check"         -> {rule} \cup ChecksOf(rule.arg)

----
\* A path leaves no trace of its tests and shifts in the move.
IsLoud(rule) ==
  rule.k = "move" /\ (rule.act.type \in {"off", "assign"} \/ IsSwitch(rule.act))

\* A name in an expression that is a piece's is the number of such pieces.
Meaning(g, p, t) ==
  CASE t.op # "name"           -> t
    [] t.op = "name" /\ t.name \in ToSet(g.pieces) ->
         Constant(Cardinality({v \in DOMAIN p.fields : p.fields[v] = t.name}))
    [] OTHER                   -> Constant(p.vars[t.name])

Meant(g, p, e) == Folded([i \in DOMAIN e |-> Meaning(g, p, e[i])])

Compared(cmp, x, y) == CASE cmp = "eq"  -> x = y [] cmp = "neq" -> x # y
                         [] cmp = "lt"  -> x < y [] cmp = "leq" -> x <= y
                         [] cmp = "gt"  -> x > y [] cmp = "geq" -> x >= y

BoundOf(g, x) ==
  (CHOOSE d \in ToSet(g.players \o g.variables) : d.name = x).bound

\* What an action leads to from p: nothing if it fails.
Done(g, act, p) ==
  CASE act.type = "shift" ->
         {[p EXCEPT !.pos = g.edges[edge]] : edge \in {<<p.pos, act.label>>} \cap DOMAIN g.edges}
    [] act.type = "on" -> {q \in {p} : p.fields[p.pos] \in act.pieces}
    [] act.type = "compare" ->
         {q \in {p} : Compared(act.cmp, Meant(g, p, act.left), Meant(g, p, act.right))}
    [] act.type = "off" -> {[p EXCEPT !.fields[p.pos] = act.piece]}
    [] act.type = "assign" ->
         {[p EXCEPT !.vars[act.variable] = n] :
            n \in {Meant(g, p, act.value)} \cap (0 .. BoundOf(g, act.variable))}
    [] act.type = "switch" -> {[p EXCEPT !.player = act.player]}
    [] act.type = "keeper" -> {[p EXCEPT !.player = ">"]}

RECURSIVE Reachable(_, _, _)

\* A condition holds at a position from which all of it can be followed.
ConditionHolds(g, check, p) ==
  \E s \in Reachable(g, TRUE, {State(<<check.arg>>, p)}) : s.rest = <<>>

\* One step into the first of the rules.
StepInto(g, s) ==
  LET rule == Head(s.rest)
      rest == Tail(s.rest)
  IN  CASE rule.k = "move"  -> {State(rest, q) : q \in Done(g, rule.act, s.pos)}
        [] rule.k = "sum"   -> {State(<<arg>> \o rest, s.pos) : arg \in ToSet(rule.args)}
        [] rule.k = "cat"   -> {State(rule.args \o rest, s.pos)}
        [] rule.k = "star"  -> {State(rest, s.pos), State(<<rule.arg>> \o s.rest, s.pos)}
        [] rule.k = "check" -> IF ConditionHolds(g, rule, s.pos) # rule.negated
                               THEN {State(rest, s.pos)} ELSE {}

\* The states reached from those in S, up to the next modifier or switch or,
\* inside a condition, past those too.
Reachable(g, inside, S) ==
  LET open == {s \in S : s.rest # <<>> /\ (inside \/ ~IsLoud(Head(s.rest)))}
      next == UNION {StepInto(g, s) : s \in open}
  IN  IF next \subseteq S THEN S ELSE Reachable(g, inside, S \cup next)

\* All the ways to play up to the next player switch: the modifiers on the way
\* with the vertices they are applied at, and the state after the switch.
RECURSIVE Plays(_, _)
Plays(g, s) ==
  LET loud == {t \in Reachable(g, FALSE, {s}) : t.rest # <<>> /\ IsLoud(Head(t.rest))}
      act(t) == Head(t.rest).act
      step(t) == <<t.pos.pos, act(t).index>>
      onwards(t, u) == IF IsSwitch(act(t))
                       THEN {[move |-> <<>>, state |-> u]}
                       ELSE Plays(g, u)
  IN  UNION {UNION {{[play EXCEPT !.move = <<step(t)>> \o @] : play \in onwards(t, u)} :
                      u \in StepInto(g, t)} : t \in loud}

LegalMoves(g, s) == {play.move : play \in Plays(g, s)}
====
