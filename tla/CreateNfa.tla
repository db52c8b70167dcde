---- MODULE CreateNfa ----
(***************************************************************************)
(* CreateNfa of graph_creator.cc, step by step on the graph of graph.h:    *)
(* EraseNoops, AddVisitedChecks and HandleMultipleOutNodes applied to the  *)
(* automaton of Thompson's construction.  RuleCompiler states what the     *)
(* last two passes come to for an automaton without dots; here their loops *)
(* run edge by edge.  The order in which the code meets the members of an  *)
(* unordered map is left open.                                             *)
(*                                                                         *)
(* The automata of conditions have graphs of their own, which the last two *)
(* passes treat in the same way; EraseNoops does not look into them.       *)
(***************************************************************************)
EXTENDS NfaMeaning, Sequences

CONSTANT Automata   \* the automata Thompson's construction may return:
                    \* [graph, initial, final]

IsAutomaton(a) == WellFormed(a.graph) /\ {a.initial, a.final} \subseteq a.graph.nodes

ASSUME AutomataAssumption == \A a \in Automata : IsAutomaton(a)

\* Thompson's construction gives a rule a first node, from which all others are
\* reached and which no edge enters, and a last one, to which all lead and which
\* none leaves.
HasEnds(a) ==
  /\ Led(a.graph, DOMAIN a.graph.edges, {a.initial}) = a.graph.nodes
  /\ \A n \in a.graph.nodes : a.final \in Led(a.graph, DOMAIN a.graph.edges, {n})
  /\ a.graph.ins[a.initial] = {} /\ DOMAIN a.graph.outs[a.final] = {}
  /\ a.initial # a.final

ASSUME EndsAssumption == \A a \in Automata : HasEnds(a)

VARIABLES
  source,    \* the automaton as built
  optimize,  \* the argument of CreateNfa
  graph, initial, final,
  pass,      \* "noops", "visited", "split", "done"; "broken" where the code reads
             \* an edge it has erased
  todo,      \* edges or nodes the loop of the pass has still to treat
  queue, visited,  \* to_visit and visited of AddVisitedChecks
  node,      \* node whose edges are being treated: a set of at most one node
  cursor     \* position of the last of its edges treated

nfaVars == <<source, optimize, graph, initial, final, pass, todo, queue, visited, node, cursor>>

ForwardEmpty  == [type |-> "forward"]
BackwardEmpty == [type |-> "backward"]
IsEmpty(e)    == graph.edges[e].act \in {ForwardEmpty, BackwardEmpty}

GetNoops(g) == {e \in DOMAIN g.edges : g.edges[e].act.type = "noop"}

\* No dots alone lead from where the rules begin or branch to where they join
\* or end.
DotsApart(a) ==
  LET g        == a.graph
      branches == {n \in g.nodes : Cardinality(DOMAIN g.outs[n]) > 1}
      onDots   == Led(g, GetNoops(g), branches \cup {a.initial})
  IN  \A e \in GetNoops(g) :
        g.edges[e].from \in onDots => g.ins[g.edges[e].to] = {e} /\ g.edges[e].to # a.final

Init ==
  /\ source \in Automata
  /\ optimize \in BOOLEAN
  /\ graph = source.graph /\ initial = source.initial /\ final = source.final
  /\ pass = IF optimize THEN "noops" ELSE "done"
  /\ todo = IF optimize THEN GetNoops(graph) ELSE {}
  /\ queue = <<>> /\ visited = {} /\ node = {} /\ cursor = 0

----
(***************************************************************************)
(* EraseNoops: the source of a noop is merged into its target.             *)
(***************************************************************************)

\* The initial node after the noop `t' is erased.
NextInitial(t) == IF t.from = initial THEN t.to ELSE initial

\* A noop that earlier merges made a loop is erased by the merge, with its
\* node, before EraseEdge(transition.id()) reads it.
EraseLoopedNoop ==
  /\ pass = "noops"
  /\ \E e \in todo :
       LET t == graph.edges[e]
       IN  /\ t.from = t.to
           /\ graph' = MergeWithNode(graph, t.to, t.from)
  /\ pass' = "broken"
  /\ UNCHANGED <<source, optimize, initial, final, todo, queue, visited, node, cursor>>

\* Mutant: the erased noop is left where it was, and the noops are looked for anew.
KeptNoop ==
  /\ pass = "noops"
  /\ \E e \in todo :
       LET t == graph.edges[e]
       IN  /\ t.from # t.to
           /\ initial' = NextInitial(t)
           /\ graph' = MergeWithNode(graph, t.to, t.from)
           /\ todo' = GetNoops(graph')
  /\ UNCHANGED <<source, optimize, final, pass, queue, visited, node, cursor>>

\* The code also means to follow the final node, but writes
\* `nfa.final = transition.to()' where that node is final already.
EraseNoop ==
  /\ pass = "noops"
  /\ \E e \in todo :
       LET t == graph.edges[e]
       IN  /\ t.from # t.to
           /\ initial' = NextInitial(t)
           /\ graph' = EraseEdge(MergeWithNode(graph, t.to, t.from), e)
           /\ todo' = todo \ {e}
  /\ UNCHANGED <<source, optimize, final, pass, queue, visited, node, cursor>>

NoopsErased ==
  /\ pass = "noops" /\ todo = {}
  /\ pass' = "visited"
  /\ queue' = <<initial>>
  /\ visited' = {initial}
  /\ UNCHANGED <<source, optimize, graph, initial, final, todo, node, cursor>>

----
(***************************************************************************)
(* AddVisitedChecks: breadth first from the initial node.                  *)
(***************************************************************************)
VisitNode ==
  /\ pass = "visited" /\ node = {} /\ queue # <<>>
  /\ node' = {Head(queue)}
  /\ queue' = Tail(queue)
  /\ cursor' = 0
  /\ UNCHANGED <<source, optimize, graph, initial, final, pass, todo, visited>>

\* Every edge into v is led to a new node, from which a check leads to v.
VisitedCheckAdded(v) ==
  LET entered == NewNode(graph)
      check   == entered.lastNode
  IN  AddEdge(ChangeEdgeTargets(entered, v, check),
              check, [type |-> "visited"], v)

\* Mutant: a node entered by two edges is not a join.
WideIsNewJoin(v) == v \notin visited /\ Cardinality(graph.ins[v]) > 2

IsNewJoin(v) == v \notin visited /\ Cardinality(graph.ins[v]) > 1

VisitEdge ==
  /\ pass = "visited"
  /\ \E u \in node :
       /\ After(graph.outs[u], cursor) # {}
       /\ LET e == First(graph.outs[u], After(graph.outs[u], cursor))
              v == graph.edges[e].to
          IN  /\ cursor' = graph.outs[u][e]
              /\ graph' = IF IsNewJoin(v) THEN VisitedCheckAdded(v) ELSE graph
              /\ queue' = IF v \in visited THEN queue ELSE Append(queue, v)
              /\ visited' = visited \cup {v}
                              \cup (IF IsNewJoin(v) THEN {graph.lastNode + 1} ELSE {})
  /\ UNCHANGED <<source, optimize, initial, final, pass, todo, node>>

LeaveNode ==
  /\ pass = "visited"
  /\ \E u \in node : After(graph.outs[u], cursor) = {}
  /\ node' = {}
  /\ UNCHANGED <<source, optimize, graph, initial, final, pass, todo, queue, visited, cursor>>

ChecksAdded ==
  /\ pass = "visited" /\ node = {} /\ queue = <<>>
  /\ pass' = "split"
  /\ todo' = {n \in graph.nodes : Cardinality(DOMAIN graph.outs[n]) > 1}
  /\ UNCHANGED <<source, optimize, graph, initial, final, queue, visited, node, cursor>>

----
(***************************************************************************)
(* HandleMultipleOutNodes: a node with several edges keeps epsilon edges   *)
(* only, to different nodes.  Treating a node adds no edge to another one  *)
(* that had any, so the nodes with several edges are known from the start. *)
(***************************************************************************)
TakeNode ==
  /\ pass = "split" /\ node = {}
  /\ \E n \in todo : node' = {n} /\ todo' = todo \ {n}
  /\ UNCHANGED <<source, optimize, graph, initial, final, pass, queue, visited, cursor>>

Effective(u) == {e \in DOMAIN graph.outs[u] : ~IsEmpty(e)}

\* Mutant: the epsilon edge leads from the new node, not to it.
MovedBehindNewNode(u, e) ==
  LET new == NewNode(graph)
  IN  ChangeEdgeSource(AddEdge(new, new.lastNode, BackwardEmpty, u), e, new.lastNode)

\* The edge leaves from a new node, an epsilon edge leads there.
MovedToNewNode(u, e) ==
  LET new == NewNode(graph)
  IN  ChangeEdgeSource(AddEdge(new, u, BackwardEmpty, new.lastNode), e, new.lastNode)

SplitEdge ==
  /\ pass = "split"
  /\ \E u \in node : /\ Effective(u) # {}
                     /\ graph' = MovedToNewNode(u, First(graph.outs[u], Effective(u)))
  /\ UNCHANGED <<source, optimize, initial, final, pass, todo, queue, visited, node, cursor>>

\* Mutant: the earlier of two edges to a node is erased.
FirstDuplicates(u) ==
  {e \in DOMAIN graph.outs[u] : \E x \in DOMAIN graph.outs[u] :
     graph.edges[x].to = graph.edges[e].to /\ graph.outs[u][e] < graph.outs[u][x]}

Duplicates(u) ==
  {e \in DOMAIN graph.outs[u] : \E x \in DOMAIN graph.outs[u] :
     graph.edges[x].to = graph.edges[e].to /\ graph.outs[u][x] < graph.outs[u][e]}

EraseDuplicates ==
  /\ pass = "split"
  /\ \E u \in node : /\ Effective(u) = {}
                     /\ graph' = EraseEdges(graph, Duplicates(u))
  /\ node' = {}
  /\ UNCHANGED <<source, optimize, initial, final, pass, todo, queue, visited, cursor>>

NfaCreated ==
  /\ pass = "split" /\ node = {} /\ todo = {}
  /\ pass' = "done"
  /\ UNCHANGED <<source, optimize, graph, initial, final, todo, queue, visited, node, cursor>>

CreateNfaStep == \/ EraseLoopedNoop \/ EraseNoop \/ NoopsErased
                 \/ VisitNode \/ VisitEdge \/ LeaveNode \/ ChecksAdded
                 \/ TakeNode \/ SplitEdge \/ EraseDuplicates \/ NfaCreated

Spec == Init /\ [][CreateNfaStep]_nfaVars

----
\* Whatever the passes do, the graph stays a graph: no dangling end, no edge
\* missing in a list or listed twice (graph.h keeps each edge in three places).
GraphWellFormed == WellFormed(graph)

\* The automaton the passes have come to.
Current == [graph |-> graph, initial |-> initial, final |-> final]

\* EraseNoops reads an edge it has erased only for rules whose dots are not apart
\* (graph_creator.cc:213).
OnlyMeetingDotsBreak == pass = "broken" => ~DotsApart(source)

\* No pass changes which sequences of actions the rules allow: a dot is an
\* edge without effect (edges_without_effect, graph_creator.cc:203).
ActionsKept == optimize /\ pass # "broken" /\ node = {} => SameActions(source, Current)

\* Once created, an automaton has no loop without a visited check, or a search
\* would not end (Block::Run).
NoLoopUnchecked == pass = "done" /\ optimize => LoopsChecked(graph)
====
