---- MODULE RuleCompiler ----
(***************************************************************************)
(* From the rules of a game to the blocks the engine runs:                 *)
(* src/src/game_description/construction/graph_creator.cc (Thompson's      *)
(* construction, visited checks, splitting of nodes with several out       *)
(* edges) and src/src/game_state/construction/blocks_creator.cc.           *)
(*                                                                         *)
(* A rule is an expression of the parser's syntax tree:                    *)
(*   [k |-> "move", act]   [k |-> "cat", args]   [k |-> "sum", args]       *)
(*   [k |-> "star", arg]   [k |-> "check", index, negated, arg]            *)
(* A graph is [n, edges]: nodes 1 .. n and a sequence of edges.  The code  *)
(* keeps the edges leaving a node in a list; that list is in the order in  *)
(* which they were added, which is the order of `edges'.  The graph of a   *)
(* condition has nodes of its own (node ids are global in graph.h), so all *)
(* graphs of a game are kept in one, its conditions' edges marked `inner'. *)
(***************************************************************************)
EXTENDS Naturals, Sequences, FiniteSets, SequencesExt, FiniteSetsExt

\* Types of the actions of an epsilon edge.
Forward  == [type |-> "forward"]
Backward == [type |-> "backward"]
IsEmptyEdge(e) == e.act \in {Forward, Backward}

Edge(from, act, to, inner) ==
  [from |-> from, act |-> act, to |-> to, inner |-> inner]

\* The four edges StarCase adds around the body ci .. cf.
StarEdges(from, to, ci, cf, inner) ==
  << Edge(from, Forward, ci, inner), Edge(cf, Forward, to, inner),
     Edge(cf, Backward, ci, inner), Edge(from, Forward, to, inner) >>

\* The nodes a rule has besides its first and its last.
RECURSIVE InnerNodes(_)
InnerNodes(rule) ==
  LET ofArgs == FoldLeft(LAMBDA n, arg : n + InnerNodes(arg), 0, rule.args)
  IN  CASE rule.k = "move" -> 0
        [] rule.k = "sum"  -> ofArgs
        [] rule.k = "cat"  -> Len(rule.args) - 1 + ofArgs
        [] OTHER           -> 2 + InnerNodes(rule.arg)

\* GraphCreator: the edges of a rule from one node to another, its inner nodes
\* numbered from base + 1.  The code builds a child between two new nodes and
\* merges them into their neighbours; here the child is built between the
\* merged nodes from the start, and gets the same edges in the same order.
RECURSIVE Built(_, _, _, _, _)
Built(rule, from, to, base, inner) ==
  LET last == Len(rule.args)
      baseOf(i) == FoldLeft(LAMBDA n, arg : n + InnerNodes(arg), base,
                            SubSeq(rule.args, 1, i - 1))
      node(i) == CASE i = 0    -> from
                   [] i = last -> to
                   [] OTHER    -> base + InnerNodes(rule) - last + 1 + i
      ci == base + 1
      cf == base + 2
      condition == [type |-> "condition", index |-> rule.index,
                    negated |-> rule.negated, initial |-> ci]
  IN  CASE rule.k = "move" -> <<Edge(from, rule.act, to, inner)>>
        [] rule.k = "sum" ->
             FlattenSeq([i \in 1 .. last |->
                           Built(rule.args[i], from, to, baseOf(i), inner)])
        [] rule.k = "cat" ->
             FlattenSeq([i \in 1 .. last |->
                           Built(rule.args[i], node(i - 1), node(i), baseOf(i), inner)])
        [] rule.k = "star" ->
             Built(rule.arg, ci, cf, cf, inner) \o StarEdges(from, to, ci, cf, inner)
        [] rule.k = "check" ->
             Built(rule.arg, ci, cf, cf, TRUE) \o <<Edge(from, condition, to, inner)>>

\* ThompsonsConstruction: the rules run from node 1 to node 2.
ThompsonsConstruction(rule) ==
  [n |-> 2 + InnerNodes(rule), edges |-> Built(rule, 1, 2, 2, FALSE)]

\* The members of S, numbers up to n, in order.
InOrder(S, n) == SelectSeq([i \in 1 .. n |-> i], LAMBDA i : i \in S)

EdgesFrom(g, node) == SelectSeq(g.edges, LAMBDA e : e.from = node)
EdgesInto(g, node) == SelectSeq(g.edges, LAMBDA e : e.to = node)

----
\* The nodes no automaton enters from outside: its initial node is never
\* given a visited check.
Initials(g) ==
  {1} \cup {e.act.initial : e \in {x \in ToSet(g.edges) : x.act.type = "condition"}}

\* Mutant: only nodes entered by an epsilon loop are checked.
LoopOnlyJoins(g) ==
  {v \in 1 .. g.n \ Initials(g) : \E e \in ToSet(g.edges) : e.to = v /\ e.act = Backward}

\* Nodes that can be reached in more than one way.
Joins(g) == {v \in 1 .. g.n \ Initials(g) : Len(EdgesInto(g, v)) > 1}

\* AddVisitedChecks: every edge into a join goes through a node of its own
\* (n + v) that asks whether the join has been visited.  A check is known by
\* its node, where blocks_creator.cc numbers the checks of a game.
AddVisitedChecks(g) ==
  LET joins == Joins(g)
      Redirected(e) == IF e.to \in joins THEN [e EXCEPT !.to = g.n + e.to] ELSE e
      CheckOf(v) == Edge(g.n + v, [type |-> "visited", check |-> v], v,
                         EdgesInto(g, v)[1].inner)
  IN  [n     |-> 2 * g.n,
       edges |-> [i \in DOMAIN g.edges |-> Redirected(g.edges[i])]
                   \o [i \in 1 .. Cardinality(joins) |->
                         CheckOf(InOrder(joins, g.n)[i])]]

----
\* The first edge to each target, as HandleMultipleOutNodes leaves them.
FirstPerTarget(es) ==
  LET IsFirst(i) == \A j \in 1 .. i - 1 : es[j].to # es[i].to
      kept == InOrder({i \in DOMAIN es : IsFirst(i)}, Len(es))
  IN  [k \in DOMAIN kept |-> es[kept[k]]]

\* HandleMultipleOutNodes: where several edges leave a node they all become
\* epsilon edges.  An edge with an action gets a new node (n + its place) and
\* goes to the end of the node's list; duplicate epsilon edges are erased.
HandleMultipleOutNodes(g) ==
  LET places(node) == InOrder({i \in DOMAIN g.edges : g.edges[i].from = node}, Len(g.edges))
      empties(node) == SelectSeq(places(node), LAMBDA i : IsEmptyEdge(g.edges[i]))
      others(node) == SelectSeq(places(node), LAMBDA i : ~IsEmptyEdge(g.edges[i]))
      ToNew(i) == Edge(g.edges[i].from, Backward, g.n + i, g.edges[i].inner)
      split(node) ==
        FirstPerTarget([k \in DOMAIN empties(node) |-> g.edges[empties(node)[k]]]
                         \o [k \in DOMAIN others(node) |-> ToNew(others(node)[k])])
      new(i) == g.edges[i - g.n]
      isNew(i) == /\ i - g.n \in DOMAIN g.edges
                  /\ Len(places(new(i).from)) > 1
                  /\ ~IsEmptyEdge(new(i))
  IN  [i \in 1 .. g.n + Len(g.edges) |->
         CASE i > g.n /\ isNew(i) -> << [new(i) EXCEPT !.from = i] >>
           [] i > g.n /\ ~isNew(i) -> <<>>
           [] OTHER -> IF Len(places(i)) > 1
                       THEN split(i)
                       ELSE [k \in DOMAIN places(i) |-> g.edges[places(i)[k]]]]

----
\* There is a test for less and one for at most: for the others the sides
\* change places (BlockCreator::ArithmeticComparisonCase).
ComparisonTest(act) ==
  CASE act.cmp = "gt"  -> [act EXCEPT !.cmp = "lt", !.left = act.right, !.right = act.left]
    [] act.cmp = "geq" -> [act EXCEPT !.cmp = "leq", !.left = act.right, !.right = act.left]
    [] OTHER           -> act

\* BlockCreator, VisitedCheckCreator, ConditionVisitedCheckCreator and
\* ConditionCheckCreator: the elements of the block of an edge.
Elements(e) ==
  CASE IsEmptyEdge(e)       -> <<>>
    [] e.act.type = "shift" -> << e.act, [type |-> "inBounds"] >>
    [] e.act.type = "compare" -> << ComparisonTest(e.act) >>
    [] e.act.type = "assign" ->
         << e.act, [type |-> "bound", variable |-> e.act.variable] >>
    [] e.act.type = "visited" /\ e.inner ->
         << [type |-> "conditionVisited", check |-> e.act.check] >>
    [] OTHER                -> << e.act >>

\* CreateStepsInCollectionRecursive: the block of a node, from the edges that
\* leave it.  A block is known by its node.
BlockOf(es) == [acts  |-> IF Len(es) = 1 THEN Elements(es[1]) ELSE <<>>,
                nexts |-> [k \in DOMAIN es |-> es[k].to]]

\* CreateNfa and CreateSearchSteps (rules without noops).
CreateSearchSteps(rule) ==
  LET out == HandleMultipleOutNodes(AddVisitedChecks(ThompsonsConstruction(rule)))
  IN  [node \in DOMAIN out |-> BlockOf(out[node])]
====
