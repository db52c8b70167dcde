---- MODULE Graph ----
(***************************************************************************)
(* src/src/utility/graph.h: a directed multigraph with numbered nodes and  *)
(* edges.  Every edge is kept in three places that must agree: in the map  *)
(* of edges, in the list of the edges leaving its source and in the set of *)
(* the edges entering its target.  The list is kept with a map from edge   *)
(* to position, by which an edge is taken out of it.                       *)
(*                                                                         *)
(* A graph `g' is a record:                                                *)
(*   edges   edge -> [from, act, to]                                       *)
(*   nodes   the nodes                                                     *)
(*   outs    node -> (edge -> position), a list in order of positions      *)
(*   ins     node -> set of edges                                          *)
(*   lastNode, lastEdge   the ids given out so far                         *)
(*   lastPlace            the positions given out so far: pushing an edge  *)
(*                        to the back of a list gives it a higher one      *)
(* The operations are written as what their loops amount to.               *)
(***************************************************************************)
EXTENDS Naturals, FiniteSets

\* EdgesSequence::Erase and PushBack.
Erased(list, e)    == [x \in DOMAIN list \ {e} |-> list[x]]
PushedBack(list, e, place) == [x \in DOMAIN list \cup {e} |-> IF x = e THEN place ELSE list[x]]

NewNode(g) ==
  LET n == g.lastNode + 1
  IN  [edges    |-> g.edges,
       nodes    |-> g.nodes \cup {n},
       outs     |-> [x \in g.nodes \cup {n} |-> IF x = n THEN <<>> ELSE g.outs[x]],
       ins      |-> [x \in g.nodes \cup {n} |-> IF x = n THEN {} ELSE g.ins[x]],
       lastNode |-> n, lastEdge |-> g.lastEdge, lastPlace |-> g.lastPlace]

AddEdge(g, from, act, to) ==
  LET e     == g.lastEdge + 1
      place == g.lastPlace + 1
      edge  == [from |-> from, act |-> act, to |-> to]
  IN  [edges |-> [x \in DOMAIN g.edges \cup {e} |-> IF x = e THEN edge ELSE g.edges[x]],
       nodes |-> g.nodes,
       outs  |-> [g.outs EXCEPT ![from] = PushedBack(@, e, place)],
       ins   |-> [g.ins EXCEPT ![to] = @ \cup {e}],
       lastNode |-> g.lastNode, lastEdge |-> e, lastPlace |-> place]

ChangeEdgeSource(g, e, n) ==
  LET left  == [g.outs EXCEPT ![g.edges[e].from] = Erased(@, e)]
      place == g.lastPlace + 1
  IN  [edges |-> [g.edges EXCEPT ![e] = [@ EXCEPT !.from = n]],
       nodes |-> g.nodes,
       outs  |-> [left EXCEPT ![n] = PushedBack(@, e, place)],
       ins   |-> g.ins,
       lastNode |-> g.lastNode, lastEdge |-> g.lastEdge, lastPlace |-> place]

\* ChangeEdgeSource to a for each edge that leaves b, in the order of b's list.
ChangeEdgeSources(g, b, a) ==
  LET moved == DOMAIN g.outs[b]
      list  == [x \in DOMAIN g.outs[a] \cup moved |->
                  IF x \in moved THEN g.lastPlace + g.outs[b][x] ELSE g.outs[a][x]]
  IN  [edges |-> [x \in DOMAIN g.edges |->
                    IF x \in moved THEN [g.edges[x] EXCEPT !.from = a] ELSE g.edges[x]],
       nodes |-> g.nodes,
       outs  |-> [n \in g.nodes |-> IF n = a THEN list ELSE IF n = b THEN <<>> ELSE g.outs[n]],
       ins   |-> g.ins,
       lastNode  |-> g.lastNode, lastEdge |-> g.lastEdge,
       lastPlace |-> g.lastPlace + g.lastPlace]

\* ChangeEdgeTarget to a for each edge that enters b.
ChangeEdgeTargets(g, b, a) ==
  LET moved == g.ins[b]
  IN  [edges |-> [x \in DOMAIN g.edges |->
                    IF x \in moved THEN [g.edges[x] EXCEPT !.to = a] ELSE g.edges[x]],
       nodes |-> g.nodes,
       outs  |-> g.outs,
       ins   |-> [n \in g.nodes |-> IF n = a THEN g.ins[a] \cup moved
                                    ELSE IF n = b THEN {} ELSE g.ins[n]],
       lastNode |-> g.lastNode, lastEdge |-> g.lastEdge, lastPlace |-> g.lastPlace]

\* Mutant: an erased edge stays among those that enter its target.
LeakyEraseEdges(g, S) ==
  [edges |-> [x \in DOMAIN g.edges \ S |-> g.edges[x]],
   nodes |-> g.nodes,
   outs  |-> [n \in g.nodes |-> [x \in DOMAIN g.outs[n] \ S |-> g.outs[n][x]]],
   ins   |-> g.ins,
   lastNode |-> g.lastNode, lastEdge |-> g.lastEdge, lastPlace |-> g.lastPlace]

\* EraseEdge for each edge of S.
EraseEdges(g, S) ==
  [edges |-> [x \in DOMAIN g.edges \ S |-> g.edges[x]],
   nodes |-> g.nodes,
   outs  |-> [n \in g.nodes |-> [x \in DOMAIN g.outs[n] \ S |-> g.outs[n][x]]],
   ins   |-> [n \in g.nodes |-> g.ins[n] \ S],
   lastNode |-> g.lastNode, lastEdge |-> g.lastEdge, lastPlace |-> g.lastPlace]

EraseEdge(g, e) == EraseEdges(g, {e})

\* The edges from and into n are erased first.
EraseNode(g, n) ==
  LET left == EraseEdges(g, DOMAIN g.outs[n] \cup g.ins[n])
  IN  [edges |-> left.edges,
       nodes |-> g.nodes \ {n},
       outs  |-> [x \in g.nodes \ {n} |-> left.outs[x]],
       ins   |-> [x \in g.nodes \ {n} |-> left.ins[x]],
       lastNode |-> g.lastNode, lastEdge |-> g.lastEdge, lastPlace |-> g.lastPlace]

\* The edges of b become edges of a, and b is erased.
MergeWithNode(g, a, b) == EraseNode(ChangeEdgeTargets(ChangeEdgeSources(g, b, a), b, a), b)

----
\* The edges of a list in their order: the first one after a position.
After(list, place)   == {e \in DOMAIN list : list[e] > place}
First(list, S)       == CHOOSE e \in S : \A x \in S : list[e] <= list[x]

----
(***************************************************************************)
(* What must hold of a graph between operations.                           *)
(***************************************************************************)

\* No edge has an end that was erased (GetNode and GetEdge would throw).
EndsExist(g) ==
  \A e \in DOMAIN g.edges : g.edges[e].from \in g.nodes /\ g.edges[e].to \in g.nodes

\* The list of a node holds the edges that leave it, its set those that enter.
ListsAgree(g) ==
  \A n \in g.nodes : /\ DOMAIN g.outs[n] = {e \in DOMAIN g.edges : g.edges[e].from = n}
                     /\ g.ins[n] = {e \in DOMAIN g.edges : g.edges[e].to = n}

\* No two edges of a list have one position, and the next ones are behind them.
PlacesDiffer(g) ==
  \A n \in g.nodes : \A x, y \in DOMAIN g.outs[n] :
    /\ g.outs[n][x] \in 1 .. g.lastPlace
    /\ g.outs[n][x] = g.outs[n][y] => x = y

\* The next id is new.
IdsFresh(g) == g.nodes \subseteq 1 .. g.lastNode /\ DOMAIN g.edges \subseteq 1 .. g.lastEdge

\* A graph's edges have their fields, its maps are maps and its counters numbers.
Shaped(g) ==
  /\ g.edges = [e \in DOMAIN g.edges |->
                  [from |-> g.edges[e].from, act |-> g.edges[e].act, to |-> g.edges[e].to]]
  /\ g.outs = [n \in g.nodes |-> g.outs[n]]
  /\ g.ins = [n \in g.nodes |-> g.ins[n]]
  /\ {g.lastNode, g.lastEdge, g.lastPlace} \subseteq Nat

WellFormed(g) ==
  Shaped(g) /\ EndsExist(g) /\ ListsAgree(g) /\ PlacesDiffer(g) /\ IdsFresh(g)
====
