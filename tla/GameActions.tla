---- MODULE GameActions ----
(***************************************************************************)
(* The actions of src/src/game_state/blocks/actions.h as operators on a    *)
(* game position: what a test answers, what an application changes, what   *)
(* it saves, and what reverting it with the saved value gives back.        *)
(*                                                                         *)
(* A game `g' is a record; the fields read here are                        *)
(*   size    vertices_count, "<out>" (vertex 0) included                   *)
(*   next    edge label -> vertex -> vertex; `size' where there is no edge *)
(*   bounds  variable -> largest value it may hold                         *)
(*   content initial fields and counts of the board                        *)
(* A position `p' is what an action can read or write:                     *)
(*   pos, vars, player, fields (vertex -> piece), counts (piece -> number) *)
(* Names are numbers here (Declarations).  Arithmetic expressions are in   *)
(* postfix form.                                                           *)
(***************************************************************************)
EXTENDS Integers, Sequences, FiniteSets, SequencesExt

CONSTANT Width   \* number of values of variable_value_t: 2^32 in the code

ASSUME WidthAssumption == Width \in Nat \ {0}

\* The board: every edge leads to a vertex or to vertices_count, and a count
\* of pieces fits a variable.
IsBoard(g) ==
  LET vertices == 1 .. g.size - 1
      pieces   == DOMAIN g.content.counts
  IN  /\ g.size \in Nat /\ 1 < g.size /\ g.size <= Width
      /\ \A label \in DOMAIN g.next, v \in vertices : g.next[label][v] \in 1 .. g.size
      /\ g.content.fields \in [{0} \cup vertices -> pieces]
      /\ g.content.counts = [piece \in pieces |->
           Cardinality({v \in vertices : g.content.fields[v] = piece})]

----
\* SumValue, SubtractionValue, ProductValue, DivisionValue on two operands.
\* Division by zero is undefined in the code; games here do not divide by 0.
Combined(op, x, y) == CASE op = "sum" -> (x + y) % Width
                        [] op = "sub" -> (x - y) % Width
                        [] op = "mul" -> (x * y) % Width
                        [] op = "div" -> x \div y

\* One token of an expression on the operand stack; an operator token says
\* how many operands (at least one) it folds from left to right.
Evaluated(operands, t) ==
  IF t.op = "const" THEN Append(operands, t.value % Width)
  ELSE LET rest  == Len(operands) - t.arity
           first == operands[rest + 1]
           more  == SubSeq(operands, rest + 2, Len(operands))
       IN  Append(SubSeq(operands, 1, rest),
                  FoldLeft(LAMBDA x, y : Combined(t.op, x, y), first, more))

\* The value of an expression of constants.
Folded(e) == Last(FoldLeft(Evaluated, <<>>, e))

Constant(n) == [op |-> "const", value |-> n]

\* VariableValue, PieceCountValue: what they read is a constant at p.
Operand(p, t) == CASE t.op = "var"   -> Constant(p.vars[t.variable])
                   [] t.op = "count" -> Constant(p.counts[t.piece])
                   [] OTHER          -> t

\* ArithmeticOperation::Value.
Value(p, e) == Folded([i \in DOMAIN e |-> Operand(p, e[i])])

Holds(cmp, x, y) == \/ cmp = "eq"  /\ x = y
                    \/ cmp = "neq" /\ x # y
                    \/ cmp = "lt"  /\ x < y
                    \/ cmp = "leq" /\ x <= y

----
\* Types of the actions of kind kCheck that only read the position.
TestTypes == {"inBounds", "on", "compare", "bound"}

\* Types of the actions of kind kModifier.
ModifierTypes == {"off", "assign"}

\* Mutant: the place past the last vertex is on the board.
PastInBounds(g, p) == p.pos <= g.size

\* OutOfBoundsTest.
InBounds(g, p) == p.pos < g.size

\* Check of OutOfBoundsTest, OnTest, the comparisons and VariableBoundsTest.
\* (PlayerTest is for a check that no rule can state: moves_creator.cc.)
Passes(g, a, p) ==
  /\ a.type = "inBounds" => InBounds(g, p)
  /\ a.type = "on" => p.fields[p.pos] \in a.pieces
  /\ a.type = "compare" => Holds(a.cmp, Value(p, a.left), Value(p, a.right))
  /\ a.type = "bound" => p.vars[a.variable] <= g.bounds[a.variable]

\* BoardContent::set keeps a count of every piece, in unsigned integers.
SetPiece(p, v, piece) ==
  LET lifted == [p EXCEPT !.counts[p.fields[v]] = (@ - 1) % Width]
  IN  [lifted EXCEPT !.fields[v] = piece, !.counts[piece] = (@ + 1) % Width]

\* Apply of ShiftAction, OffApplication, AssignmentAction and
\* PlayerSwitchApplication.
Applied(g, a, p) ==
  CASE a.type = "shift"  -> [p EXCEPT !.pos = g.next[a.label][@]]
    [] a.type = "off"    -> SetPiece(p, p.pos, a.piece)
    [] a.type = "assign" -> [p EXCEPT !.vars[a.variable] = Value(p, a.value)]
    [] a.type = "switch" -> [p EXCEPT !.player = a.player]

\* What Apply returns, to be handed to Revert.
Saved(a, p) == CASE a.type = "shift"  -> p.pos
                 [] a.type = "off"    -> p.fields[p.pos]
                 [] a.type = "assign" -> p.vars[a.variable]
                 [] a.type = "switch" -> p.player

\* Mutant: the piece is put back without counting it.
UncountedReverted(a, p, saved) ==
  CASE a.type = "shift"  -> [p EXCEPT !.pos = saved]
    [] a.type = "off"    -> [p EXCEPT !.fields[p.pos] = saved]
    [] a.type = "assign" -> [p EXCEPT !.vars[a.variable] = saved]
    [] a.type = "switch" -> [p EXCEPT !.player = saved]

\* Revert: it acts at the current position, whatever Apply's was.
Reverted(a, p, saved) ==
  CASE a.type = "shift"  -> [p EXCEPT !.pos = saved]
    [] a.type = "off"    -> SetPiece(p, p.pos, saved)
    [] a.type = "assign" -> [p EXCEPT !.vars[a.variable] = saved]
    [] a.type = "switch" -> [p EXCEPT !.player = saved]
====
