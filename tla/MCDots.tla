---- MODULE MCDots ----
(***************************************************************************)
(* Rules with dots for CreateNfa and the dots tools: most are those of the *)
(* tests of the tools.                                                     *)
(***************************************************************************)
EXTENDS DotsTools, TLC

CONSTANT Compiled   \* what RuleCompiler makes of the automata without dots:
                    \* [source, outs]

\* Rules, as in the parser's syntax tree.
Do(act)   == [k |-> "move", act |-> act]
If(arg)   == [k |-> "check", index |-> 1, negated |-> FALSE, arg |-> arg]

Go(label) == Do([type |-> "shift", label |-> label])
On(piece) == Do([type |-> "on", piece |-> piece])
Put(piece) == Do([type |-> "off", piece |-> piece])
To(player) == Do([type |-> "switch", player |-> player])
Left  == Go("left")
Right == Go("right")
Down  == Go("down")
Up    == Go("up")
E     == On("e")

----
\* Boards: the 2 x 2 rectangle of the tests and two fields in a ring.
Square == [vertices |-> 1 .. 4,
           next |-> [left  |-> <<0, 1, 0, 3>>, right |-> <<2, 0, 4, 0>>,
                     up    |-> <<0, 0, 1, 2>>, down  |-> <<3, 4, 0, 0>>]]
Ring   == [vertices |-> 1 .. 2,
           next |-> [left  |-> <<2, 1>>, right |-> <<2, 1>>, up |-> <<0, 0>>, down |-> <<0, 0>>]]

DotLefts == Sum(<<Cat(<<Dot, Star(Left)>>), Cat(<<Dot, Star(Right)>>)>>)

\* Dots that are not separated by modifiers.
DotRules ==
  { Cat(<<Sum(<<Right, Cat(<<Dot, Right>>)>>), To("blue")>>),
    Cat(<<DotLefts, Sum(<<Cat(<<Dot, Star(Up)>>), Cat(<<Dot, Star(Down)>>)>>), To("blue")>>),
    Cat(<<Sum(<<Right, E>>), Star(Cat(<<Dot, Right>>)), To("blue")>>),
    Cat(<<To("red"), Star(Cat(<<Sum(<<E, On("r")>>), Dot>>)), To("blue")>>),
    Cat(<<To("red"), Star(Cat(<<Dot, Down>>)),
          Sum(<<Star(Left), Cat(<<Dot, Star(Right)>>)>>), To("blue")>>),
    Cat(<<If(Cat(<<Right, E>>)), Dot, Star(Cat(<<Right, E, Left>>)), Dot, To("blue")>>),
    Cat(<<Right, Dot, Down, Sum(<<Cat(<<Left, Dot>>), Cat(<<E, Dot, Up>>)>>), To("blue")>>),
    Cat(<<To("red"), Dot, Star(Sum(<<Left, Right>>)), Dot, Dot, Put("r"), Dot, On("r"), Dot,
          Right, Dot, Sum(<<Up, Down>>), Dot, To("blue")>>),
    Cat(<<Put("e"), Sum(<<Cat(<<Dot, Left, Left>>), Cat(<<Dot, Right, Right>>)>>), Put("e"),
          To("blue")>>),
    Cat(<<Dot, Star(Right), Up, To("blue")>>) }

\* Dots between the same places.
DotsOnly == Cat(<<Sum(<<Dot, Dot>>), To("blue")>>)

\* Rules without dots, for the comparison with RuleCompiler.
PlainRules ==
  { Cat(<<To("red"), Star(Sum(<<Left, Right>>)), If(E), Star(Sum(<<Cat(<<E, E>>), Up>>)), To("blue")>>),
    Cat(<<Sum(<<Star(Left), Star(Right)>>), Star(Star(Up)), To("blue")>>),
    Star(Cat(<<Sum(<<Left, E, Cat(<<Right, Star(Up)>>)>>), To("blue")>>)) }

\* Dots that are all that a star repeats.
StarsOfDots ==
  { Cat(<<Right, Star(Dot), To("blue")>>),
    Cat(<<Star(Dot), Right, To("blue")>>),
    Cat(<<Star(Star(Dot)), Right, Star(Cat(<<Dot, Dot>>)), To("blue")>>) }

MCRules    == {ParseGame(<<r>>) : r \in {DotsOnly} \cup StarsOfDots \cup DotRules \cup PlainRules}
MCAutomata == {AutomatonOf(r) : r \in MCRules}
MCBoards   == {Square, Ring}
MCCompiled ==
  {[source |-> AutomatonOf(r),
    outs   |-> Compiler!HandleMultipleOutNodes(
                 Compiler!AddVisitedChecks(Compiler!ThompsonsConstruction(r)))] : r \in PlainRules}

\* Dots in loops with modifiers.
ModifierRules ==
  { Cat(<<To("red"), Star(Cat(<<E, Put("r"), On("r"), Dot>>)), To("blue")>>) }
MCModifierRules    == {ParseGame(<<r>>) : r \in ModifierRules}
MCModifierAutomata == {AutomatonOf(r) : r \in MCModifierRules}

\* A dot that is an alternative of its own.
MCChoiceRules    == {ParseGame(<<Cat(<<Sum(<<Dot, Right>>), To("blue")>>)>>)}
MCChoiceAutomata == {AutomatonOf(r) : r \in MCChoiceRules}

ASSUME DotsAssumption ==
  \A r \in DotRules \cup PlainRules : DotsApart(AutomatonOf(ParseGame(<<r>>)))

\* Options of add_dots.
MCOptions == [inSums : BOOLEAN, inStars : BOOLEAN, afterSums : BOOLEAN, afterStars : BOOLEAN,
              inTables : {"whatever", "exclusively", "exclude"}]

----
\* The edges of a node, in order, as types or actions and the nodes they lead to.
Kind(act) == IF act.type = "visited" THEN act.type ELSE act
OutsOf(n) ==
  LET order == SetToSortSeq(DOMAIN graph.outs[n], LAMBDA x, y : graph.outs[n][x] < graph.outs[n][y])
  IN  [k \in DOMAIN order |-> <<Kind(graph.edges[order[k]].act), graph.edges[order[k]].to>>]
CompiledOuts(out, n) == [k \in DOMAIN out[n] |-> <<Kind(out[n][k].act), out[n][k].to>>]

\* The nodes two graphs have in common when walked side by side.
RECURSIVE Matched(_, _)
Matched(out, R) ==
  LET more == R \cup UNION {{<<OutsOf(r[1])[k][2], CompiledOuts(out, r[2])[k][2]>> :
                              k \in DOMAIN OutsOf(r[1]) \cap DOMAIN out[r[2]]} : r \in R}
  IN  IF more = R THEN R ELSE Matched(out, more)

\* On rules without dots the passes give the graph RuleCompiler gives, the edges
\* of every node in the same order: the engine is checked on the latter.
CompilerAgrees ==
  pass = "done" /\ optimize =>
    \A c \in {x \in Compiled : x.source = source} :
      LET R == Matched(c.outs, {<<initial, 1>>})
          Kinds(os) == [k \in DOMAIN os |-> os[k][1]]
      IN  /\ \A r \in R : Kinds(OutsOf(r[1])) = Kinds(CompiledOuts(c.outs, r[2]))
          /\ \A q, r \in R : q[1] = r[1] <=> q[2] = r[2]

\* The search marks the illegal dots and no others (illegal_dots.h:8), for rules
\* whose dots are not in a loop with a modifier.
MarksExact == search = "found" => illegal = IllegalDotsOf(source, board)

\* A dot in a loop is not marked if there are modifiers in the loop
\* (tests/mark_illegal_dots_test.py:240).
OnlyIllegalMarked == search = "found" => illegal \subseteq IllegalDotsOf(source, board)
====
