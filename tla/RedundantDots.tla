---- MODULE RedundantDots ----
(***************************************************************************)
(* FindRedundantNoops of redundant_dots.cc on the product of an automaton  *)
(* with a board: which dots are determined by a modifier or another dot    *)
(* before them (on the left) or after them (on the right).  `p' is a       *)
(* product of BoardProduct and `asDots' the argument modifiers_as_dots.    *)
(***************************************************************************)
EXTENDS BoardProduct, FiniteSets

LOCAL Switches  == {"keeper", "switch"}
LOCAL Modifiers == Switches \cup {"off", "assign"}

EdgesFrom(g, p, pn) == {pe \in DOMAIN p.to : NodeFrom(g, pe) = pn}
EdgesTo(p, pn)      == {pe \in DOMAIN p.to : p.to[pe] = pn}

\* What determines a dot next to it: a switch, another dot and, if modifiers
\* count as dots, any modifier.
IsMarker(g, asDots, pe) ==
  g.edges[pe[2]].act.type \in Switches \cup {"noop"} \cup (IF asDots THEN Modifiers ELSE {})

\* Mutant: a walk that ends at a fork is taken for one that ends the move.
AnyIsEnd(edges) == TRUE

IsEnd(edges) == Cardinality(edges) <= 1

\* Mutant: the walk follows the edge to the first node although there are others.
FirstOnward(g, asDots, edges) ==
  {pe \in edges : ~IsMarker(g, asDots, pe)
                    /\ \A x \in edges : g.edges[x[2]].to >= g.edges[pe[2]].to}

\* The edge a walk follows: one that is alone and no marker.
Onward(g, asDots, edges) ==
  {pe \in edges : Cardinality(edges) = 1 /\ ~IsMarker(g, asDots, pe)}

\* A walk ends where it has no edge to follow.
EndsAt(g, asDots, edges) == Onward(g, asDots, edges) = {}

\* The walk to the left ends at a fork, too, since its other branch walks around
\* the dot.
LeftWalk(g, p, asDots, pn) ==
  LET Next(at) == {pe \in Onward(g, asDots, EdgesTo(p, at)) :
                     Cardinality(EdgesFrom(g, p, at)) <= 1}
  IN  Closure(p.nodes,
              [X \in SUBSET p.nodes |-> {NodeFrom(g, pe) : pe \in UNION {Next(at) : at \in X}}],
              {pn})

IsLeftDetermined(g, p, asDots, pn) ==
  /\ Cardinality(EdgesFrom(g, p, pn)) <= 1
  /\ \E at \in LeftWalk(g, p, asDots, pn) :
       EndsAt(g, asDots, EdgesTo(p, at)) /\ IsEnd(EdgesTo(p, at))

RightWalk(g, p, asDots, pn) ==
  LET Next(at) == Onward(g, asDots, EdgesFrom(g, p, at))
  IN  Closure(p.nodes,
              [X \in SUBSET p.nodes |-> {p.to[pe] : pe \in UNION {Next(at) : at \in X}}],
              {pn})

\* "yes", "no", or "endless": the code follows a loop that nothing leaves.
IsRightDetermined(g, p, asDots, pn) ==
  LET ends == {at \in RightWalk(g, p, asDots, pn) : EndsAt(g, asDots, EdgesFrom(g, p, at))}
  IN  CASE ends = {}                                                -> "endless"
        [] \E at \in ends : IsEnd(EdgesFrom(g, p, at))              -> "yes"
        [] ends # {} /\ \A at \in ends : ~IsEnd(EdgesFrom(g, p, at)) -> "no"

----
\* Where the dot d is in the product: its places before and after.
PlacesOf(p, board, node) == {<<vertex, node>> : vertex \in board.vertices} \cap p.nodes

LeftDetermined(g, p, board, asDots, d) ==
  \A pn \in PlacesOf(p, board, g.edges[d].from) : IsLeftDetermined(g, p, asDots, pn)

RightOutcomes(g, p, board, asDots, d) ==
  {IsRightDetermined(g, p, asDots, pn) : pn \in PlacesOf(p, board, g.edges[d].to)}

\* The sides on which each dot is determined.
FindRedundantNoops(g, p, board, asDots) ==
  [d \in {e \in DOMAIN g.edges : g.edges[e].act.type = "noop"} |->
     {side \in {"left", "right"} :
        \/ side = "left" /\ LeftDetermined(g, p, board, asDots, d)
        \/ side = "right" /\ RightOutcomes(g, p, board, asDots, d) \subseteq {"yes"}}]

NeverReturns(g, p, board, asDots) ==
  \E d \in {e \in DOMAIN g.edges : g.edges[e].act.type = "noop"} :
    "endless" \in RightOutcomes(g, p, board, asDots, d)
====
