---- MODULE BoardProduct ----
(***************************************************************************)
(* NfaBoardProduct of graph_creator.cc: the product of the graph of an     *)
(* automaton with the board.  A node is <<vertex, node>> and an edge       *)
(* <<vertex, edge>>: the edge of the automaton taken at that vertex.       *)
(* A board is [vertices, next], next[label][vertex] the vertex a shift     *)
(* leads to, 0 if there is none.                                           *)
(***************************************************************************)
EXTENDS Naturals, Sequences, SequencesExt, Closures

\* Where the edge e of the automaton leads from a vertex.  A condition leads
\* on from where it is asked.
Reachable(g, board, vertex, e) ==
  LET act == g.edges[e].act
  IN  IF act.type = "shift"
      THEN {board.next[act.label][vertex]} \ {0}
      ELSE {vertex}

NodeFrom(g, pe)      == <<pe[1], g.edges[pe[2]].from>>
NodeTo(g, board, pe) ==
  <<CHOOSE vertex \in Reachable(g, board, pe[1], pe[2]) : TRUE, g.edges[pe[2]].to>>

\* The edges that leave a node of the product before the cleanup.
Leaving(g, board, pn) ==
  {<<pn[1], e>> : e \in {x \in DOMAIN g.outs[pn[2]] : Reachable(g, board, pn[1], x) # {}}}

\* All pairs of a vertex and a node.
VertexNodes(g, board) == board.vertices \X g.nodes

\* The breadth first search from a set of nodes.
Visited(g, board, S) ==
  Closure(VertexNodes(g, board),
          [X \in SUBSET VertexNodes(g, board) |->
             {NodeTo(g, board, pe) : pe \in UNION {Leaving(g, board, pn) : pn \in X}}],
          S)

\* Mutant: a final node has no edges either.
HastyCleaned(g, board, final, S) ==
  {pn \in S : \E pe \in Leaving(g, board, pn) : NodeTo(g, board, pe) \in S}

\* The cleanup: nodes without edges are erased, with the edges into them, until
\* only final nodes are without.
Cleaned(g, board, final, S) ==
  S \ Closure(S,
              [X \in SUBSET S |->
                 {pn \in S : /\ pn[2] # final
                             /\ ~\E pe \in Leaving(g, board, pn) : NodeTo(g, board, pe) \in S \ X}],
              {})

\* The nodes of S from which those of T are reached within S.
Live(g, board, S, T) ==
  Closure(S,
          [X \in SUBSET S |->
             {pn \in S : \E pe \in Leaving(g, board, pn) : NodeTo(g, board, pe) \in X}],
          T)

\* The product started from the vertices `initials'.
NfaBoardProduct(g, board, initial, final, initials) ==
  LET nodes == Cleaned(g, board, final,
                       Visited(g, board, {<<vertex, initial>> : vertex \in initials}))
      Kept(pn) == {pe \in Leaving(g, board, pn) : NodeTo(g, board, pe) \in nodes}
      Earlier(pe, pf) == g.outs[g.edges[pe[2]].from][pe[2]] < g.outs[g.edges[pf[2]].from][pf[2]]
  IN  [nodes |-> nodes,
       to    |-> [pe \in UNION {Kept(pn) : pn \in nodes} |-> NodeTo(g, board, pe)],
       from  |-> [pn \in nodes |-> SetToSortSeq(Kept(pn), Earlier)]]
====
