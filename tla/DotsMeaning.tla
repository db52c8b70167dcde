---- MODULE DotsMeaning ----
(***************************************************************************)
(* What an illegal dot is (illegal_dots.h:8): one that would increase the  *)
(* number of moves if it was treated as a modifier.  It is said of paths,  *)
(* without a search.                                                       *)
(***************************************************************************)
EXTENDS BoardProduct, FiniteSets

Switches == {"keeper", "switch"}
Modifiers == Switches \cup {"off", "assign"}

\* The nodes reached by a stretch of a move without modifiers, each with the
\* vertices at which the dot d was applied on the way.  A stretch that applies
\* it more often than there are vertices has run through a loop.
RECURSIVE Stretches(_, _, _, _)
Stretches(g, board, d, R) ==
  LET Next(r) == {<<NodeTo(g, board, pe),
                    IF pe[2] = d THEN Append(r[2], pe[1]) ELSE r[2]>> :
                     pe \in {x \in Leaving(g, board, r[1]) :
                               g.edges[x[2]].act.type \notin Modifiers}}
      more == R \cup UNION {Next(r) : r \in {x \in R : Len(x[2]) <= Cardinality(board.vertices)}}
  IN  IF more = R THEN R ELSE Stretches(g, board, d, more)

\* The dots of the rules that are illegal: there are two ways to the same place
\* in a move, with the same modifiers before them, that apply the dot
\* differently.
IllegalDotsOf(a, board) ==
  LET g == a.graph
      N == Visited(g, board, {<<1, a.initial>>})
      edges == UNION {Leaving(g, board, pn) : pn \in N}
      ends == {pn \in N : pn[2] = a.final} \cup
              {NodeFrom(g, pe) : pe \in {x \in edges : g.edges[x[2]].act.type \in Switches}}
      live == Live(g, board, N, ends)
      starts == {<<1, a.initial>>} \cup
                {NodeTo(g, board, pe) : pe \in {x \in edges : g.edges[x[2]].act.type \in Modifiers}}
      Ambiguous(d, start) ==
        LET R == Stretches(g, board, d, {<<start, <<>>>>})
        IN  \E q, r \in R : q[1] = r[1] /\ q[2] # r[2] /\ q[1] \in live
  IN  {d \in DOMAIN g.edges : /\ g.edges[d].act.type = "noop"
                              /\ \E start \in starts : Ambiguous(d, start)}
====
