---- MODULE DotsAnalyses ----
(***************************************************************************)
(* What the programs find out about the dots of an automaton: those that   *)
(* are illegal (mark_illegal_dots, move_illegal_dots) and those that are   *)
(* redundant (mark_redundant_dots, remove_redundant_dots).                 *)
(***************************************************************************)
EXTENDS IllegalDots, RedundantDots

VARIABLES
  asDots,      \* modifiers_as_dots
  determined,  \* noops_determined_state: dot -> sides
  progress     \* "reading", "found", "written"; "unparsable" when rules that a
               \* program printed cannot be read again, "endless" when it hangs

redundantVars == <<asDots, determined, progress>>
analysesVars  == <<vars, redundantVars>>

InitAnalyses == InitDots /\ asDots = TRUE /\ determined = <<>> /\ progress = "reading"

FindRedundant ==
  /\ progress = "reading" /\ pass = "done" /\ ~optimize
  /\ product' = NfaBoardProduct(graph, board, initial, final, {1})
  /\ asDots' \in BOOLEAN
  /\ determined' = FindRedundantNoops(graph, product', board, asDots')
  /\ progress' = IF NeverReturns(graph, product', board, asDots') THEN "endless" ELSE "found"
  /\ UNCHANGED <<nfaVars, board, explored, stack, enteredAt, dotsAt, finished, dots, time,
                 illegal, search>>

AnalysesSpec ==
  InitAnalyses /\ [][(Next /\ UNCHANGED redundantVars) \/ FindRedundant]_analysesVars

----
\* A product as it was built, before any use of it.
ProductNew == \/ search \in {"search", "broken"} /\ explored = {}
              \/ progress \in {"found", "endless"}

\* The places of a move from which it can be completed.
OnTheWay == LET all == Visited(graph, board, {InitialNode})
            IN  Live(graph, board, all, {pn \in all : pn[2] = final})

\* The cleanup of a product erases nodes, and nodes erased lose others their
\* edges, but it keeps every place of a move that can be completed and every
\* step from there to another (NfaBoardProduct, graph_creator.cc:304).
CompletionsKept ==
  ProductNew => /\ OnTheWay \subseteq product.nodes
                /\ \A pn \in OnTheWay : \A pe \in Leaving(graph, board, pn) :
                     NodeTo(graph, board, pe) \in OnTheWay
                       => pe \in EdgesFrom(graph, product, pn)

\* remove_redundant_dots hangs only where the cleanup has kept places that do not
\* lead to the final node: its walk to the right, which does not remember where it
\* was, ends on all rules in which every move begun can be completed
\* (IsRightDetermined, redundant_dots.cc:46).
EndlessOnlyInTraps == progress = "endless" => ~(product.nodes \subseteq OnTheWay)

\* Edges of the product through which a search may go on without meeting a marker.
Plain   == {pe \in DOMAIN product.to : ~IsMarker(graph, asDots, pe)}
Markers == DOMAIN product.to \ Plain

\* The places from which one of S is reached without a marker, and those reached.
Behind(S) ==
  Closure(product.nodes,
          [X \in SUBSET product.nodes |->
             {NodeFrom(graph, pe) : pe \in {x \in Plain : product.to[x] \in X}}],
          S)
Ahead(S) ==
  Closure(product.nodes,
          [X \in SUBSET product.nodes |->
             {product.to[pe] : pe \in {x \in Plain : NodeFrom(graph, x) \in X}}],
          S)

\* What is next to a use of a dot: markers, and the ends of a move.
Previous(pe) ==
  LET behind == Behind({NodeFrom(graph, pe)})
  IN  {x \in Markers : product.to[x] \in behind} \cup ({InitialNode} \cap behind)
Following(pe) ==
  LET ahead == Ahead({product.to[pe]})
  IN  {x \in Markers : NodeFrom(graph, x) \in ahead} \cup {pn \in ahead : pn[2] = final}

\* A redundant dot is determined by a modifier or another dot before or after it
\* (redundant_dots.h:16), or by the start or the end of the move: wherever it is
\* used, there is one of them on that side and no other.
DeterminedByOne ==
  progress = "found" =>
    \A pe \in {x \in DOMAIN product.to : x[2] \in DOMAIN determined} :
      /\ "left" \in determined[pe[2]] => Cardinality(Previous(pe)) = 1
      /\ "right" \in determined[pe[2]] => Cardinality(Following(pe)) = 1
====
