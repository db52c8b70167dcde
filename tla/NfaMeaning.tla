---- MODULE NfaMeaning ----
(***************************************************************************)
(* What an automaton means, whatever graph it has: the sequences of        *)
(* actions it allows, and the loops a search can get into.  An automaton   *)
(* is [graph, initial, final] with a graph of graph.h.                     *)
(***************************************************************************)
EXTENDS Graph, Closures

\* The nodes to which the edges of E lead from those of S, which are among them.
Led(g, E, S) ==
  Closure(g.nodes,
          [X \in SUBSET g.nodes |->
             {g.edges[e].to : e \in {x \in E : g.edges[x].from \in X}}],
          S)

\* What no action is taken for: an epsilon edge, a dot and a visited check.
NoEffect == {"forward", "backward", "noop", "visited"}

\* An action without the numbers of nodes in it: a condition is known by its index.
Effect(act) == IF act.type = "condition" THEN [act EXCEPT !.initial = 0] ELSE act

Silent(g) == {e \in DOMAIN g.edges : g.edges[e].act.type \in NoEffect}
Loud(g)   == DOMAIN g.edges \ Silent(g)
Acts(g)   == {Effect(g.edges[e].act) : e \in Loud(g)}

\* The nodes an automaton may be in without an action, and after one more.
Closed(g, S) == Led(g, Silent(g), S)

Taking(g, S, act) ==
  {e \in Loud(g) : g.edges[e].from \in S /\ Effect(g.edges[e].act) = act}

Stepped(g, S, act) == Closed(g, {g.edges[e].to : e \in Taking(g, S, act)})

\* The pairs of sets of nodes two automata may be in after the same actions.
Pairs(a, b) ==
  LET U    == (SUBSET a.graph.nodes) \X (SUBSET b.graph.nodes)
      acts == Acts(a.graph) \cup Acts(b.graph)
      Onwards(r) == {<<Stepped(a.graph, r[1], act), Stepped(b.graph, r[2], act)>> : act \in acts}
  IN  Closure(U, [R \in SUBSET U |-> UNION {Onwards(r) : r \in R}],
              {<<Closed(a.graph, {a.initial}), Closed(b.graph, {b.initial})>>})

\* Two automata allow the same sequences of actions.
SameActions(a, b) == \A r \in Pairs(a, b) : a.final \in r[1] <=> b.final \in r[2]

\* No loop of the graph is without a visited check.
Unchecked(g)    == {e \in DOMAIN g.edges : g.edges[e].act.type # "visited"}
LoopsChecked(g) ==
  \A e \in Unchecked(g) : g.edges[e].from \notin Led(g, Unchecked(g), {g.edges[e].to})
====
