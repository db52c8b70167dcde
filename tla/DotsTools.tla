---- MODULE DotsTools ----
(***************************************************************************)
(* The programs of apps/ that work on the dots of a game's rules:          *)
(*   move_illegal_dots      finds illegal dots and moves them, until there *)
(*                          is none left                                   *)
(*   remove_redundant_dots  erases dots determined by what is beside them  *)
(*   add_dots               puts dots where its options say                *)
(* Each parses the rules, may build an automaton (CreateNfa, without       *)
(* optimization) and its product with the board, and prints rules again.   *)
(* mark_illegal_dots and mark_redundant_dots stop where the first two have *)
(* found the dots.  The fourth tool here, "compile", is CreateNfa as the   *)
(* game state uses it.                                                     *)
(***************************************************************************)
EXTENDS DotsAnalyses, RulePrinters, DotsMeaning

CONSTANTS Rules,     \* rules of games, as parsed
          Options    \* options of add_dots

Compiler == INSTANCE RuleCompiler

VARIABLES
  tool,        \* the program run
  given,       \* the rules of its input
  rules        \* the rules as last parsed or printed

toolVars == <<tool, given, rules>>
allVars  == <<analysesVars, toolVars>>

\* A graph of graph.h with the nodes and edges given.
GraphOf(nodes, lastNode, es) ==
  FoldLeft(LAMBDA g, e : AddEdge(g, e.from, e.act, e.to),
           [edges |-> <<>>, nodes |-> nodes, outs |-> [n \in nodes |-> <<>>],
            ins |-> [n \in nodes |-> {}], lastNode |-> lastNode, lastEdge |-> 0, lastPlace |-> 0],
           es)

EndsOf(es) == UNION {{es[i].from, es[i].to} : i \in DOMAIN es}

\* CreateNfa without optimization: the automaton ThompsonsConstruction builds.
\* The graphs of conditions are left out.
AutomatonOf(rule) ==
  LET built == Compiler!ThompsonsConstruction(rule)
      es    == SelectSeq(built.edges, LAMBDA e : ~e.inner)
  IN  [graph |-> GraphOf(EndsOf(es), built.n, es), initial |-> 1, final |-> 2]

InitTools ==
  /\ InitAnalyses
  /\ given \in Rules /\ rules = given /\ source = AutomatonOf(rules)
  /\ tool \in IF optimize THEN {"compile"} ELSE {"move", "remove", "add"}

Places(es) == {source.graph.edges[e].act.place : e \in es}

----
(***************************************************************************)
(* move_illegal_dots.                                                      *)
(***************************************************************************)
FindIllegal == tool = "move" /\ progress = "reading" /\ DotsStep /\ UNCHANGED <<nfaVars, redundantVars, toolVars>>

\* The rules are printed, and read again if dots were moved.
Reread(text) ==
  /\ rules' = ParseGame(text)
  /\ source' = IF Parses(rules') THEN AutomatonOf(rules') ELSE source
  /\ graph' = source'.graph
  /\ UNCHANGED <<optimize, initial, final, pass, todo, queue, visited, node, cursor,
                 board, tool, given, asDots, determined>>

MoveIllegal ==
  /\ tool = "move" /\ progress = "reading" /\ search = "found" /\ illegal # {}
  /\ Reread(DotsMoved(rules, Places(illegal)).text)
  /\ progress' = IF Parses(rules') THEN "reading" ELSE "unparsable"
  /\ product' = NoProduct /\ explored' = {} /\ enteredAt' = <<>> /\ dotsAt' = <<>>
  /\ finished' = {} /\ time' = 0 /\ illegal' = {} /\ search' = "product"
  /\ UNCHANGED <<stack, dots>>

NoneIllegal ==
  /\ tool = "move" /\ progress = "reading" /\ search = "found" /\ illegal = {}
  /\ Reread(DotsMoved(rules, {}).text)
  /\ progress' = "written"
  /\ UNCHANGED dotsVars

----
(***************************************************************************)
(* remove_redundant_dots.                                                  *)
(***************************************************************************)
RedundantFound == tool = "remove" /\ FindRedundant /\ UNCHANGED toolVars

RemoveRedundant ==
  /\ tool = "remove" /\ progress = "found"
  /\ \E side \in {"left", "right"} :
       Reread(DotsErased(rules, Places({d \in DOMAIN determined : side \in determined[d]})))
  /\ progress' = "written"
  /\ UNCHANGED dotsVars

----
(***************************************************************************)
(* add_dots.                                                               *)
(***************************************************************************)
AddDots ==
  /\ tool = "add" /\ progress = "reading"
  /\ \E options \in Options : Reread(DotsAdded(rules, options))
  /\ progress' = "written"
  /\ UNCHANGED dotsVars

----
Compile == CreateNfaStep /\ UNCHANGED <<dotsVars, redundantVars, toolVars>>

ToolStep == FindIllegal \/ MoveIllegal \/ NoneIllegal \/ RedundantFound \/ RemoveRedundant \/ AddDots

NextTools == Compile \/ ToolStep

ToolsSpec == InitTools /\ [][NextTools]_allVars

----
\* The moves of a rule in the order they are written, each with the number of
\* stars and sums around it and of concatenations in concatenations.
RECURSIVE Written(_, _)
Written(rule, around) ==
  LET Inside(arg) == around + (IF rule.k = "cat" /\ arg.k # "cat" THEN 0 ELSE 1)
  IN  CASE rule.k = "move" -> << [isDot |-> rule.act.type = "noop", around |-> around] >>
        [] rule.k \in {"sum", "cat"} ->
             FlattenSeq([i \in DOMAIN rule.args |-> Written(rule.args[i], Inside(rule.args[i]))])
        [] rule.k \in {"star", "check"} -> Written(rule.arg, around + 1)

\* Rules written, by the program or for its next round.
IsWritten == \/ progress = "written"
             \/ tool = "move" /\ search = "product" /\ progress = "reading"

\* Every star repeats something besides dots.
RECURSIVE StarsRepeatActions(_)
StarsRepeatActions(rule) ==
  CASE rule.k = "move"             -> TRUE
    [] rule.k \in {"sum", "cat"}   -> \A i \in DOMAIN rule.args : StarsRepeatActions(rule.args[i])
    [] rule.k \in {"star", "check"} ->
         /\ StarsRepeatActions(rule.arg)
         /\ rule.k = "star" => \E move \in ToSet(Written(rule.arg, 0)) : ~move.isDot

\* The programs change dots only (move_illegal_dots.cc:17,
\* remove_redundant_dots.cc:3): rules they have written that can be read allow the
\* same sequences of actions as the rules they were given, if none of these has a
\* star that may be left without what it repeats.  The asterisk of such a star is
\* read as that of the item before it (move_illegal_dots.cc:110).
WritingKeepsActions ==
  StarsRepeatActions(given) /\ IsWritten /\ Parses(rules)
    => SameActions(AutomatonOf(given), source)

\* How far the dots are from the end of the rules.
Distance(rule) ==
  LET moves == Written(rule, 0)
      ToEnd(i) == moves[i].around + Cardinality({j \in i .. Len(moves) : ~moves[j].isDot})
  IN  FoldLeft(LAMBDA sum, i : sum + ToEnd(i), 0,
               SetToSeq({i \in DOMAIN moves : moves[i].isDot}))

\* Every round of move_illegal_dots brings the dots nearer to the end, so that
\* its loop ends (move_illegal_dots.cc:168), unless it has written what it cannot read.
MovingGoesOn ==
  [][illegal # {} /\ illegal' = {} /\ progress' # "unparsable"
       => Distance(rules') < Distance(rules)]_allVars
====
