---- MODULE CreateNfa_proof ----
(***************************************************************************)
(* Every operation of a graph gives a well-formed graph if it is given     *)
(* one, and so CreateNfa keeps its graph well formed: for graphs and       *)
(* automata of any size.  What an automaton allows is a closure, and for   *)
(* rules whose dots are apart the passes keep it, put a check on every     *)
(* loop and never read an edge they have erased.                           *)
(***************************************************************************)
EXTENDS CreateNfa, FiniteSetTheorems, WellFoundedInduction, SequenceTheorems, TLAPS

----
(***************************************************************************)
(* The operations of a graph.                                              *)
(***************************************************************************)
\* The edges of a graph with their ends at b moved to a: sources, targets, both.
SourcesMoved(g, b, a) ==
  [x \in DOMAIN g.edges |-> [from |-> IF g.edges[x].from = b THEN a ELSE g.edges[x].from,
                             act  |-> g.edges[x].act, to |-> g.edges[x].to]]

TargetsMoved(g, b, a) ==
  [x \in DOMAIN g.edges |-> [from |-> g.edges[x].from, act |-> g.edges[x].act,
                             to   |-> IF g.edges[x].to = b THEN a ELSE g.edges[x].to]]

EndsMoved(g, b, a) ==
  [x \in DOMAIN g.edges |-> [from |-> IF g.edges[x].from = b THEN a ELSE g.edges[x].from,
                             act  |-> g.edges[x].act,
                             to   |-> IF g.edges[x].to = b THEN a ELSE g.edges[x].to]]

\* The edges of a graph that do not touch a node.
EdgesWithout(g, n) ==
  [x \in {y \in DOMAIN g.edges : g.edges[y].from # n /\ g.edges[y].to # n} |-> g.edges[x]]

\* The edges of a graph that are not of a set.
OtherEdges(g, S) == [x \in DOMAIN g.edges \ S |-> g.edges[x]]

\* A new node has an id of its own and no edges.
LEMMA NewNodeWellFormed ==
  ASSUME NEW g, WellFormed(g)
  PROVE  /\ WellFormed(NewNode(g))
         /\ NewNode(g).nodes = g.nodes \cup {g.lastNode + 1}
         /\ NewNode(g).lastNode = g.lastNode + 1
         /\ g.lastNode + 1 \notin g.nodes
         /\ NewNode(g).edges = g.edges
<1> DEFINE n == g.lastNode + 1
           h == NewNode(g)
<1>1. n \notin g.nodes /\ n \in Nat
  BY DEF WellFormed, IdsFresh, Shaped
<1>2. h = [edges |-> g.edges, nodes |-> g.nodes \cup {n},
           outs |-> [x \in g.nodes \cup {n} |-> IF x = n THEN <<>> ELSE g.outs[x]],
           ins |-> [x \in g.nodes \cup {n} |-> IF x = n THEN {} ELSE g.ins[x]],
           lastNode |-> n, lastEdge |-> g.lastEdge, lastPlace |-> g.lastPlace]
  BY DEF NewNode
<1>3. Shaped(h)
  BY <1>1, <1>2 DEF WellFormed, Shaped
<1>4. EndsExist(h)
  BY <1>2 DEF WellFormed, EndsExist
<1>5. ListsAgree(h)
  BY <1>1, <1>2 DEF WellFormed, ListsAgree, EndsExist
<1>6. PlacesDiffer(h)
  BY <1>1, <1>2 DEF WellFormed, PlacesDiffer
<1>7. IdsFresh(h)
  BY <1>1, <1>2 DEF WellFormed, IdsFresh, Shaped
<1>8. QED
  BY <1>1, <1>2, <1>3, <1>4, <1>5, <1>6, <1>7 DEF WellFormed

\* A new edge has an id of its own and is listed at both ends.
LEMMA AddEdgeWellFormed ==
  ASSUME NEW g, WellFormed(g), NEW from \in g.nodes, NEW act, NEW to \in g.nodes
  PROVE  /\ WellFormed(AddEdge(g, from, act, to))
         /\ AddEdge(g, from, act, to).nodes = g.nodes
         /\ AddEdge(g, from, act, to).lastNode = g.lastNode
         /\ DOMAIN AddEdge(g, from, act, to).edges = DOMAIN g.edges \cup {g.lastEdge + 1}
<1> DEFINE e == g.lastEdge + 1
           place == g.lastPlace + 1
           h == AddEdge(g, from, act, to)
           edge == [from |-> from, act |-> act, to |-> to]
<1>1. e \notin DOMAIN g.edges /\ e \in Nat /\ place \in Nat
  BY DEF WellFormed, IdsFresh, Shaped
<1>2. /\ h.edges = [x \in DOMAIN g.edges \cup {e} |-> IF x = e THEN edge ELSE g.edges[x]]
      /\ h.nodes = g.nodes
      /\ h.outs = [g.outs EXCEPT ![from] = PushedBack(@, e, place)]
      /\ h.ins = [g.ins EXCEPT ![to] = @ \cup {e}]
      /\ h.lastNode = g.lastNode /\ h.lastEdge = e /\ h.lastPlace = place
  BY DEF AddEdge
<1>3. DOMAIN g.outs = g.nodes /\ DOMAIN g.ins = g.nodes
  BY DEF WellFormed, Shaped
<1> HIDE DEF h
<1>4. Shaped(h)
  <2>1. h.edges = [x \in DOMAIN h.edges |->
                    [from |-> h.edges[x].from, act |-> h.edges[x].act, to |-> h.edges[x].to]]
    BY <1>1, <1>2 DEF WellFormed, Shaped
  <2>2. h.outs = [n \in h.nodes |-> h.outs[n]] /\ h.ins = [n \in h.nodes |-> h.ins[n]]
    BY <1>2, <1>3, SMTT(30)
  <2>3. {h.lastNode, h.lastEdge, h.lastPlace} \subseteq Nat
    BY <1>1, <1>2 DEF WellFormed, Shaped
  <2>4. QED
    BY <2>1, <2>2, <2>3 DEF Shaped
<1>5. EndsExist(h)
  BY <1>2 DEF WellFormed, EndsExist
<1>6. ListsAgree(h)
  BY <1>1, <1>2, <1>3 DEF WellFormed, ListsAgree, PushedBack
<1>7. PlacesDiffer(h)
  <2>1. SUFFICES ASSUME NEW n \in g.nodes, NEW x \in DOMAIN h.outs[n], NEW y \in DOMAIN h.outs[n]
                 PROVE  /\ h.outs[n][x] \in 1 .. h.lastPlace
                        /\ h.outs[n][x] = h.outs[n][y] => x = y
    BY <1>2 DEF PlacesDiffer
  <2>2. g.lastPlace \in Nat /\ h.lastPlace = g.lastPlace + 1
    BY <1>2 DEF WellFormed, Shaped
  <2>3. \A z \in DOMAIN g.outs[n] : g.outs[n][z] \in 1 .. g.lastPlace
    BY DEF WellFormed, PlacesDiffer
  <2>4. CASE n = from
    <3>1. h.outs[n] = [z \in DOMAIN g.outs[n] \cup {e} |-> IF z = e THEN place ELSE g.outs[n][z]]
      BY <1>2, <1>3, <2>4 DEF PushedBack
    <3>2. e \notin DOMAIN g.outs[n]
      BY <1>1 DEF WellFormed, ListsAgree
    <3>3. \A z \in DOMAIN g.outs[n] : z # e /\ h.outs[n][z] = g.outs[n][z]
      BY <3>1, <3>2
    <3>4. h.outs[n][e] = place
      BY <3>1
    <3>5. g.outs[n][x] = g.outs[n][y] => x = y \/ x = e \/ y = e
      BY <3>1 DEF WellFormed, PlacesDiffer
    <3>6. x \in DOMAIN g.outs[n] \cup {e} /\ y \in DOMAIN g.outs[n] \cup {e}
      BY <3>1
    <3>7. QED
      BY <2>2, <2>3, <3>3, <3>4, <3>5, <3>6
  <2>5. CASE n # from
    <3>1. h.outs[n] = g.outs[n]
      BY <1>2, <1>3, <2>5
    <3>2. QED
      BY <2>2, <2>3, <3>1 DEF WellFormed, PlacesDiffer
  <2>6. QED
    BY <2>4, <2>5
<1>8. IdsFresh(h)
  BY <1>1, <1>2 DEF WellFormed, IdsFresh, Shaped
<1>9. WellFormed(h)
  BY <1>4, <1>5, <1>6, <1>7, <1>8 DEF WellFormed
<1>10. QED
  BY <1>2, <1>9 DEF h

\* An edge whose source changes is listed there and not where it was.
LEMMA ChangeEdgeSourceWellFormed ==
  ASSUME NEW g, WellFormed(g), NEW e \in DOMAIN g.edges, NEW n \in g.nodes
  PROVE  /\ WellFormed(ChangeEdgeSource(g, e, n))
         /\ ChangeEdgeSource(g, e, n).nodes = g.nodes
<1> DEFINE m == g.edges[e].from
           place == g.lastPlace + 1
           h == ChangeEdgeSource(g, e, n)
           left == [g.outs EXCEPT ![m] = Erased(@, e)]
<1>1. m \in g.nodes /\ DOMAIN g.outs = g.nodes /\ DOMAIN g.ins = g.nodes
  BY DEF WellFormed, Shaped, EndsExist
<1>2. /\ h.edges = [g.edges EXCEPT ![e] = [@ EXCEPT !.from = n]]
      /\ h.nodes = g.nodes
      /\ h.outs = [left EXCEPT ![n] = PushedBack(@, e, place)]
      /\ h.ins = g.ins
      /\ h.lastNode = g.lastNode /\ h.lastEdge = g.lastEdge /\ h.lastPlace = place
  BY DEF ChangeEdgeSource
<1>3. g.lastPlace \in Nat /\ place \in Nat
  BY DEF WellFormed, Shaped
<1> HIDE DEF h
<1>4. /\ DOMAIN h.edges = DOMAIN g.edges
      /\ \A x \in DOMAIN g.edges \ {e} : h.edges[x] = g.edges[x]
      /\ h.edges[e] = [from |-> n, act |-> g.edges[e].act, to |-> g.edges[e].to]
  BY <1>2 DEF WellFormed, Shaped
<1>5. ASSUME NEW k \in g.nodes
      PROVE  /\ DOMAIN left[k] = DOMAIN g.outs[k] \ {e}
             /\ \A x \in DOMAIN left[k] : left[k][x] = g.outs[k][x]
  <2>1. CASE k = m
    BY <1>1, <2>1 DEF Erased
  <2>2. CASE k # m
    <3>1. left[k] = g.outs[k]
      BY <1>1, <2>2
    <3>2. e \notin DOMAIN g.outs[k]
      BY <2>2 DEF WellFormed, ListsAgree
    <3>3. QED
      BY <3>1, <3>2
  <2>3. QED
    BY <2>1, <2>2
<1> HIDE DEF left
<1>6. ASSUME NEW k \in g.nodes
      PROVE  /\ DOMAIN h.outs[k] = IF k = n THEN DOMAIN g.outs[k] \cup {e}
                                            ELSE DOMAIN g.outs[k] \ {e}
             /\ \A x \in DOMAIN h.outs[k] :
                  h.outs[k][x] = IF x = e THEN place ELSE g.outs[k][x]
  <2>1. DOMAIN left = g.nodes
    BY <1>1 DEF left
  <2>2. CASE k = n
    <3>1. h.outs[k] = PushedBack(left[k], e, place)
      BY <1>2, <2>1, <2>2
    <3>2. DOMAIN h.outs[k] = DOMAIN g.outs[k] \cup {e}
      BY <1>5, <3>1 DEF PushedBack
    <3>3. ASSUME NEW x \in DOMAIN h.outs[k]
          PROVE  h.outs[k][x] = IF x = e THEN place ELSE g.outs[k][x]
      <4>1. x \in DOMAIN left[k] \cup {e}
        BY <1>5, <3>2
      <4>2. h.outs[k][x] = IF x = e THEN place ELSE left[k][x]
        BY <3>1, <4>1 DEF PushedBack
      <4>3. QED
        BY <1>5, <4>1, <4>2
    <3>4. QED
      BY <2>2, <3>2, <3>3
  <2>3. CASE k # n
    <3>1. h.outs[k] = left[k]
      BY <1>2, <2>1, <2>3
    <3>2. QED
      BY <1>5, <2>3, <3>1
  <2>4. QED
    BY <2>2, <2>3
<1>7. Shaped(h)
  <2>1. h.edges = [x \in DOMAIN h.edges |->
                    [from |-> h.edges[x].from, act |-> h.edges[x].act, to |-> h.edges[x].to]]
    BY <1>2 DEF WellFormed, Shaped
  <2>2. h.outs = [k \in h.nodes |-> h.outs[k]] /\ h.ins = [k \in h.nodes |-> h.ins[k]]
    BY <1>1, <1>2 DEF left, WellFormed, Shaped
  <2>3. QED
    BY <1>2, <1>3, <2>1, <2>2 DEF WellFormed, Shaped
<1>8. EndsExist(h)
  BY <1>2, <1>4 DEF WellFormed, EndsExist
<1>9. ListsAgree(h)
  <2>1. SUFFICES ASSUME NEW k \in g.nodes
                 PROVE  /\ DOMAIN h.outs[k] = {x \in DOMAIN h.edges : h.edges[x].from = k}
                        /\ h.ins[k] = {x \in DOMAIN h.edges : h.edges[x].to = k}
    BY <1>2 DEF ListsAgree
  <2>2. /\ DOMAIN g.outs[k] = {x \in DOMAIN g.edges : g.edges[x].from = k}
        /\ g.ins[k] = {x \in DOMAIN g.edges : g.edges[x].to = k}
    BY DEF WellFormed, ListsAgree
  <2>3. \A x \in DOMAIN g.edges : h.edges[x].to = g.edges[x].to
    BY <1>4
  <2>4. \A x \in DOMAIN g.edges : h.edges[x].from = IF x = e THEN n ELSE g.edges[x].from
    BY <1>4
  <2>5. h.ins[k] = {x \in DOMAIN h.edges : h.edges[x].to = k}
    BY <1>2, <1>4, <2>2, <2>3
  <2>6. DOMAIN h.outs[k] = {x \in DOMAIN h.edges : h.edges[x].from = k}
    BY <1>4, <1>6, <2>2, <2>4, ZenonT(40)
  <2>7. QED
    BY <2>5, <2>6
<1>10. PlacesDiffer(h)
  <2>1. SUFFICES ASSUME NEW k \in g.nodes, NEW x \in DOMAIN h.outs[k], NEW y \in DOMAIN h.outs[k]
                 PROVE  /\ h.outs[k][x] \in 1 .. h.lastPlace
                        /\ h.outs[k][x] = h.outs[k][y] => x = y
    BY <1>2 DEF PlacesDiffer
  <2>2. \A z \in DOMAIN g.outs[k] : g.outs[k][z] \in 1 .. g.lastPlace
    BY DEF WellFormed, PlacesDiffer
  <2>3. \A z \in DOMAIN h.outs[k] \ {e} : z \in DOMAIN g.outs[k] /\ h.outs[k][z] = g.outs[k][z]
    BY <1>6
  <2>4. e \in DOMAIN h.outs[k] => h.outs[k][e] = place
    BY <1>6
  <2>5. \A v, w \in DOMAIN g.outs[k] : g.outs[k][v] = g.outs[k][w] => v = w
    BY DEF WellFormed, PlacesDiffer
  <2>6. h.lastPlace = place
    BY <1>2
  <2>7. QED
    BY <1>3, <2>2, <2>3, <2>4, <2>5, <2>6
<1>11. IdsFresh(h)
  BY <1>2, <1>4 DEF WellFormed, IdsFresh
<1>12. WellFormed(h)
  BY <1>7, <1>8, <1>9, <1>10, <1>11 DEF WellFormed
<1>13. QED
  BY <1>2, <1>12 DEF h

\* The edges into a node enter another one.
LEMMA ChangeEdgeTargetsWellFormed ==
  ASSUME NEW g, WellFormed(g), NEW b \in g.nodes, NEW a \in g.nodes
  PROVE  /\ WellFormed(ChangeEdgeTargets(g, b, a))
         /\ ChangeEdgeTargets(g, b, a).nodes = g.nodes
         /\ ChangeEdgeTargets(g, b, a).lastNode = g.lastNode
         /\ ChangeEdgeTargets(g, b, a).edges = TargetsMoved(g, b, a)
<1> DEFINE h == ChangeEdgeTargets(g, b, a)
           moved == g.ins[b]
<1>1. moved = {x \in DOMAIN g.edges : g.edges[x].to = b}
  BY DEF WellFormed, ListsAgree
<1>2. /\ h.edges = [x \in DOMAIN g.edges |->
                      IF x \in moved THEN [g.edges[x] EXCEPT !.to = a] ELSE g.edges[x]]
      /\ h.nodes = g.nodes /\ h.outs = g.outs
      /\ h.ins = [n \in g.nodes |-> IF n = a THEN g.ins[a] \cup moved
                                     ELSE IF n = b THEN {} ELSE g.ins[n]]
      /\ h.lastNode = g.lastNode /\ h.lastEdge = g.lastEdge /\ h.lastPlace = g.lastPlace
  BY DEF ChangeEdgeTargets
<1> HIDE DEF h, moved
<1>3. h.edges = [x \in DOMAIN g.edges |->
                 [from |-> g.edges[x].from, act |-> g.edges[x].act,
                  to   |-> IF g.edges[x].to = b THEN a ELSE g.edges[x].to]]
  <2>1. ASSUME NEW x \in DOMAIN g.edges
        PROVE  h.edges[x] = [from |-> g.edges[x].from, act |-> g.edges[x].act,
                             to   |-> IF g.edges[x].to = b THEN a ELSE g.edges[x].to]
    <3>1. g.edges[x] = [from |-> g.edges[x].from, act |-> g.edges[x].act, to |-> g.edges[x].to]
      BY DEF WellFormed, Shaped
    <3>2. h.edges[x] = IF x \in moved THEN [g.edges[x] EXCEPT !.to = a] ELSE g.edges[x]
      BY <1>2
    <3>3. QED
      BY <1>1, <3>1, <3>2
  <2>2. QED
    BY <1>2, <2>1
<1>4. Shaped(h)
  BY <1>2, <1>3 DEF WellFormed, Shaped
<1>5. EndsExist(h)
  BY <1>2, <1>3 DEF WellFormed, EndsExist
<1>6. ListsAgree(h)
  BY <1>1, <1>2, <1>3 DEF WellFormed, ListsAgree
<1>7. PlacesDiffer(h)
  BY <1>2 DEF WellFormed, PlacesDiffer
<1>8. IdsFresh(h)
  BY <1>2, <1>3 DEF WellFormed, IdsFresh
<1>9. WellFormed(h)
  BY <1>4, <1>5, <1>6, <1>7, <1>8 DEF WellFormed
<1>10. QED
  BY <1>2, <1>3, <1>9 DEF h, TargetsMoved

\* The edges from a node leave another one, behind those that left it.
LEMMA ChangeEdgeSourcesWellFormed ==
  ASSUME NEW g, WellFormed(g), NEW b \in g.nodes, NEW a \in g.nodes
  PROVE  /\ WellFormed(ChangeEdgeSources(g, b, a))
         /\ ChangeEdgeSources(g, b, a).nodes = g.nodes
         /\ ChangeEdgeSources(g, b, a).edges = SourcesMoved(g, b, a)
<1> DEFINE h == ChangeEdgeSources(g, b, a)
           moved == DOMAIN g.outs[b]
           list  == [x \in DOMAIN g.outs[a] \cup moved |->
                       IF x \in moved THEN g.lastPlace + g.outs[b][x] ELSE g.outs[a][x]]
<1>1. moved = {x \in DOMAIN g.edges : g.edges[x].from = b}
  BY DEF WellFormed, ListsAgree
<1>2. /\ h.edges = [x \in DOMAIN g.edges |->
                      IF x \in moved THEN [g.edges[x] EXCEPT !.from = a] ELSE g.edges[x]]
      /\ h.nodes = g.nodes /\ h.ins = g.ins
      /\ h.outs = [n \in g.nodes |-> IF n = a THEN list ELSE IF n = b THEN <<>> ELSE g.outs[n]]
      /\ h.lastNode = g.lastNode /\ h.lastEdge = g.lastEdge
      /\ h.lastPlace = g.lastPlace + g.lastPlace
  BY DEF ChangeEdgeSources
<1> HIDE DEF h
<1>3. h.edges = [x \in DOMAIN g.edges |->
                 [from |-> IF g.edges[x].from = b THEN a ELSE g.edges[x].from,
                  act  |-> g.edges[x].act, to |-> g.edges[x].to]]
  <2>1. ASSUME NEW x \in DOMAIN g.edges
        PROVE  h.edges[x] = [from |-> IF g.edges[x].from = b THEN a ELSE g.edges[x].from,
                             act  |-> g.edges[x].act, to |-> g.edges[x].to]
    <3>1. g.edges[x] = [from |-> g.edges[x].from, act |-> g.edges[x].act, to |-> g.edges[x].to]
      BY DEF WellFormed, Shaped
    <3>2. h.edges[x] = IF x \in moved THEN [g.edges[x] EXCEPT !.from = a] ELSE g.edges[x]
      BY <1>2
    <3>3. QED
      BY <1>1, <3>1, <3>2
  <2>2. QED
    BY <1>2, <2>1
<1>4. Shaped(h)
  BY <1>2, <1>3 DEF WellFormed, Shaped
<1>5. EndsExist(h)
  BY <1>2, <1>3 DEF WellFormed, EndsExist
<1>6. /\ DOMAIN h.outs[a] = DOMAIN g.outs[a] \cup moved
      /\ a # b => DOMAIN h.outs[b] = {}
  BY <1>2
<1>7. ListsAgree(h)
  <2>1. SUFFICES ASSUME NEW k \in g.nodes
                 PROVE  /\ DOMAIN h.outs[k] = {x \in DOMAIN h.edges : h.edges[x].from = k}
                        /\ h.ins[k] = {x \in DOMAIN h.edges : h.edges[x].to = k}
    BY <1>2 DEF ListsAgree
  <2>2. /\ DOMAIN g.outs[k] = {x \in DOMAIN g.edges : g.edges[x].from = k}
        /\ g.ins[k] = {x \in DOMAIN g.edges : g.edges[x].to = k}
    BY DEF WellFormed, ListsAgree
  <2>3. h.ins[k] = {x \in DOMAIN h.edges : h.edges[x].to = k}
    BY <1>2, <1>3, <2>2
  <2>4. DOMAIN h.edges = DOMAIN g.edges
    BY <1>3
  <2>5. \A x \in DOMAIN g.edges :
          h.edges[x].from = IF g.edges[x].from = b THEN a ELSE g.edges[x].from
    BY <1>3
  <2>6. DOMAIN h.outs[k] = {x \in DOMAIN h.edges : h.edges[x].from = k}
    <3>1. CASE k = a
      BY <1>1, <1>6, <2>2, <2>4, <2>5, <3>1
    <3>2. CASE k = b /\ k # a
      BY <1>6, <2>4, <2>5, <3>2
    <3>3. CASE k # a /\ k # b
      <4>1. h.outs[k] = g.outs[k]
        BY <1>2, <3>3
      <4>2. QED
        BY <2>2, <2>4, <2>5, <3>3, <4>1
    <3>4. QED
      BY <3>1, <3>2, <3>3
  <2>7. QED
    BY <2>3, <2>6
<1>8. PlacesDiffer(h)
  <2>1. SUFFICES ASSUME NEW k \in g.nodes, NEW x \in DOMAIN h.outs[k], NEW y \in DOMAIN h.outs[k]
                 PROVE  /\ h.outs[k][x] \in 1 .. h.lastPlace
                        /\ h.outs[k][x] = h.outs[k][y] => x = y
    BY <1>2 DEF PlacesDiffer
  <2>2. g.lastPlace \in Nat /\ h.lastPlace = g.lastPlace + g.lastPlace
    BY <1>2 DEF WellFormed, Shaped
  <2>3. \A n \in g.nodes : \A z \in DOMAIN g.outs[n] : g.outs[n][z] \in 1 .. g.lastPlace
    BY DEF WellFormed, PlacesDiffer
  <2>4. \A n \in g.nodes : \A v, w \in DOMAIN g.outs[n] : g.outs[n][v] = g.outs[n][w] => v = w
    BY DEF WellFormed, PlacesDiffer
  <2>5. CASE k = a
    <3>1. /\ \A z \in moved : /\ h.outs[k][z] = g.lastPlace + g.outs[b][z]
                              /\ g.outs[b][z] \in 1 .. g.lastPlace
          /\ \A z \in DOMAIN g.outs[a] \ moved : /\ h.outs[k][z] = g.outs[a][z]
                                                /\ g.outs[a][z] \in 1 .. g.lastPlace
      BY <1>2, <2>3, <2>5
    <3>2. x \in DOMAIN g.outs[a] \cup moved /\ y \in DOMAIN g.outs[a] \cup moved
      BY <1>6, <2>5
    <3>3. /\ \A v, w \in DOMAIN g.outs[a] : g.outs[a][v] = g.outs[a][w] => v = w
          /\ \A v, w \in moved : g.outs[b][v] = g.outs[b][w] => v = w
      BY <2>4
    <3> HIDE DEF moved, list
    <3>4. h.outs[k][x] \in 1 .. h.lastPlace
      BY <2>2, <3>1, <3>2
    <3>5. h.outs[k][x] = h.outs[k][y] => x = y
      BY <2>2, <3>1, <3>2, <3>3
    <3>6. QED
      BY <3>4, <3>5
  <2>6. CASE k = b /\ k # a
    BY <1>6, <2>6
  <2>7. CASE k # a /\ k # b
    <3>1. h.outs[k] = g.outs[k]
      BY <1>2, <2>7
    <3>2. QED
      BY <2>2, <2>3, <2>4, <3>1
  <2>8. QED
    BY <2>5, <2>6, <2>7, SMTT(30)
<1>9. IdsFresh(h)
  BY <1>2, <1>3 DEF WellFormed, IdsFresh
<1>10. WellFormed(h)
  BY <1>4, <1>5, <1>7, <1>8, <1>9 DEF WellFormed
<1>11. QED
  BY <1>2, <1>3, <1>10 DEF h, SourcesMoved

\* Edges erased are gone from every list.
LEMMA EraseEdgesWellFormed ==
  ASSUME NEW g, WellFormed(g), NEW S
  PROVE  /\ WellFormed(EraseEdges(g, S))
         /\ EraseEdges(g, S).nodes = g.nodes
         /\ EraseEdges(g, S).edges = OtherEdges(g, S)
<1> DEFINE h == EraseEdges(g, S)
<1>1. /\ h.edges = [x \in DOMAIN g.edges \ S |-> g.edges[x]]
      /\ h.nodes = g.nodes
      /\ h.outs = [n \in g.nodes |-> [x \in DOMAIN g.outs[n] \ S |-> g.outs[n][x]]]
      /\ h.ins = [n \in g.nodes |-> g.ins[n] \ S]
      /\ h.lastNode = g.lastNode /\ h.lastEdge = g.lastEdge /\ h.lastPlace = g.lastPlace
  BY DEF EraseEdges
<1> HIDE DEF h
<1>2. Shaped(h)
  BY <1>1 DEF WellFormed, Shaped
<1>3. EndsExist(h)
  BY <1>1 DEF WellFormed, EndsExist
<1>4. ListsAgree(h)
  BY <1>1 DEF WellFormed, ListsAgree
<1>5. PlacesDiffer(h)
  BY <1>1 DEF WellFormed, PlacesDiffer
<1>6. IdsFresh(h)
  BY <1>1 DEF WellFormed, IdsFresh
<1>7. WellFormed(h)
  BY <1>2, <1>3, <1>4, <1>5, <1>6 DEF WellFormed
<1>8. QED
  BY <1>1, <1>7 DEF h, OtherEdges

\* A node is erased with its edges.
LEMMA EraseNodeWellFormed ==
  ASSUME NEW g, WellFormed(g), NEW n \in g.nodes
  PROVE  /\ WellFormed(EraseNode(g, n))
         /\ EraseNode(g, n).nodes = g.nodes \ {n}
         /\ EraseNode(g, n).edges = EdgesWithout(g, n)
<1> DEFINE S == DOMAIN g.outs[n] \cup g.ins[n]
           left == EraseEdges(g, S)
           h == EraseNode(g, n)
<1>1. S = {y \in DOMAIN g.edges : g.edges[y].from = n \/ g.edges[y].to = n}
  BY DEF WellFormed, ListsAgree
<1>2. WellFormed(left) /\ left.nodes = g.nodes
  BY EraseEdgesWellFormed
<1>3. left.edges = [x \in DOMAIN g.edges \ S |-> g.edges[x]]
  BY EraseEdgesWellFormed DEF OtherEdges
<1>4. left.lastNode = g.lastNode /\ left.lastEdge = g.lastEdge /\ left.lastPlace = g.lastPlace
  BY DEF EraseEdges
<1>5. /\ h.edges = left.edges
      /\ h.nodes = g.nodes \ {n}
      /\ h.outs = [x \in g.nodes \ {n} |-> left.outs[x]]
      /\ h.ins = [x \in g.nodes \ {n} |-> left.ins[x]]
      /\ h.lastNode = g.lastNode /\ h.lastEdge = g.lastEdge /\ h.lastPlace = g.lastPlace
  BY DEF EraseNode
<1> HIDE DEF S, left, h
<1>6. h.edges = [x \in {y \in DOMAIN g.edges : g.edges[y].from # n /\ g.edges[y].to # n} |->
                   g.edges[x]]
  BY <1>1, <1>3, <1>5
<1>7. Shaped(h)
  BY <1>2, <1>4, <1>5 DEF WellFormed, Shaped
<1>8. EndsExist(h)
  BY <1>5, <1>6 DEF WellFormed, EndsExist
<1>9. ListsAgree(h)
  BY <1>2, <1>5 DEF WellFormed, ListsAgree
<1>10. PlacesDiffer(h)
  BY <1>2, <1>4, <1>5 DEF WellFormed, PlacesDiffer
<1>11. IdsFresh(h)
  BY <1>5, <1>6 DEF WellFormed, IdsFresh
<1>12. WellFormed(h)
  BY <1>7, <1>8, <1>9, <1>10, <1>11 DEF WellFormed
<1>13. QED
  BY <1>5, <1>6, <1>12 DEF h, EdgesWithout

\* Of edges of a list there is a first one: positions are natural numbers.
LEMMA FirstIsMember ==
  ASSUME NEW list, NEW S, S # {}, \A x \in S : list[x] \in Nat
  PROVE  First(list, S) \in S /\ \A x \in S : list[First(list, S)] <= list[x]
<1> DEFINE R == OpToRel(<, Nat)
           places == {list[x] : x \in S}
<1>1. IsWellFoundedOn(R, Nat)
  BY NatLessThanWellFounded
<1>2. \E m \in places : \A k \in places : <<k, m>> \notin R
  <2>1. places \subseteq Nat /\ places # {}
    OBVIOUS
  <2> HIDE DEF R, places
  <2>2. QED
    BY <1>1, <2>1, WFMin
<1>3. PICK m \in places : \A k \in places : ~(k < m)
  BY <1>2 DEF OpToRel
<1>4. \E e \in S : \A x \in S : list[e] <= list[x]
  BY <1>3
<1>5. QED
  BY <1>4 DEF First

----
(***************************************************************************)
(* MergeWithNode (graph.h:222) contracts two nodes: the node b is gone,    *)
(* every edge is kept with its content, and an end at b is an end at a.    *)
(* Merging a node with itself erases it instead, with all its edges:       *)
(* that is what EraseNoops comes to for the dots of `(. + .)'.             *)
(***************************************************************************)
THEOREM MergeContracts ==
  ASSUME NEW g, WellFormed(g), NEW a \in g.nodes, NEW b \in g.nodes
  PROVE  /\ WellFormed(MergeWithNode(g, a, b))
         /\ MergeWithNode(g, a, b).nodes = g.nodes \ {b}
         /\ MergeWithNode(g, a, b).edges = IF a = b THEN EdgesWithout(g, b) ELSE EndsMoved(g, b, a)
<1> DEFINE i == ChangeEdgeSources(g, b, a)
           j == ChangeEdgeTargets(i, b, a)
           h == EraseNode(j, b)
<1>1. WellFormed(i) /\ i.nodes = g.nodes
  BY ChangeEdgeSourcesWellFormed
<1>2. i.edges = [x \in DOMAIN g.edges |->
                  [from |-> IF g.edges[x].from = b THEN a ELSE g.edges[x].from,
                   act  |-> g.edges[x].act, to |-> g.edges[x].to]]
  BY ChangeEdgeSourcesWellFormed DEF SourcesMoved
<1> HIDE DEF i
<1>3. a \in i.nodes /\ b \in i.nodes
  BY <1>1
<1>4. WellFormed(j) /\ j.nodes = i.nodes
  BY <1>1, <1>3, ChangeEdgeTargetsWellFormed
<1>5. j.edges = TargetsMoved(i, b, a)
  BY <1>1, <1>3, ChangeEdgeTargetsWellFormed
<1> HIDE DEF j
<1>6. b \in j.nodes
  BY <1>3, <1>4
<1>7. WellFormed(h) /\ h.nodes = j.nodes \ {b}
  BY <1>4, <1>6, EraseNodeWellFormed
<1>8. h.edges = EdgesWithout(j, b)
  BY <1>4, <1>6, EraseNodeWellFormed, Zenon
<1> HIDE DEF h
<1>9. DOMAIN j.edges = DOMAIN g.edges
  BY <1>2, <1>5, Zenon DEF TargetsMoved
<1>10. ASSUME NEW x \in DOMAIN g.edges
       PROVE  j.edges[x] = [from |-> IF g.edges[x].from = b THEN a ELSE g.edges[x].from,
                            act  |-> g.edges[x].act,
                            to   |-> IF g.edges[x].to = b THEN a ELSE g.edges[x].to]
  <2>1. i.edges[x] = [from |-> IF g.edges[x].from = b THEN a ELSE g.edges[x].from,
                      act  |-> g.edges[x].act, to |-> g.edges[x].to]
    BY <1>2
  <2>2. x \in DOMAIN i.edges
    BY <1>2
  <2>3. j.edges[x] = [from |-> i.edges[x].from, act |-> i.edges[x].act,
                      to   |-> IF i.edges[x].to = b THEN a ELSE i.edges[x].to]
    BY <1>5, <2>2 DEF TargetsMoved
  <2>4. QED
    BY <2>1, <2>3
<1>11. ASSUME a # b
       PROVE  h.edges = EndsMoved(g, b, a)
  <2>1. {y \in DOMAIN j.edges : j.edges[y].from # b /\ j.edges[y].to # b} = DOMAIN g.edges
    <3>1. \A x \in DOMAIN g.edges : j.edges[x].from # b /\ j.edges[x].to # b
      <4>1. SUFFICES ASSUME NEW x \in DOMAIN g.edges
                     PROVE  j.edges[x].from # b /\ j.edges[x].to # b
        OBVIOUS
      <4>2. /\ j.edges[x].from = IF g.edges[x].from = b THEN a ELSE g.edges[x].from
            /\ j.edges[x].to = IF g.edges[x].to = b THEN a ELSE g.edges[x].to
        <5>1. j.edges[x] = [from |-> IF g.edges[x].from = b THEN a ELSE g.edges[x].from,
                            act  |-> g.edges[x].act,
                            to   |-> IF g.edges[x].to = b THEN a ELSE g.edges[x].to]
          BY <1>10
        <5>2. QED
          BY <5>1
      <4>3. QED
        BY <1>11, <4>2
    <3>2. QED
      BY <1>9, <3>1
  <2>2. h.edges = [x \in DOMAIN g.edges |-> j.edges[x]]
    BY <1>8, <2>1 DEF EdgesWithout
  <2>3. QED
    BY <1>10, <2>2 DEF EndsMoved
<1>12. ASSUME a = b
       PROVE  h.edges = EdgesWithout(g, b)
  <2>1. ASSUME NEW x \in DOMAIN g.edges
        PROVE  j.edges[x] = g.edges[x]
    <3>1. g.edges[x] = [from |-> g.edges[x].from, act |-> g.edges[x].act, to |-> g.edges[x].to]
      BY DEF WellFormed, Shaped
    <3>2. QED
      BY <1>10, <1>12, <3>1
  <2>2. {y \in DOMAIN j.edges : j.edges[y].from # b /\ j.edges[y].to # b}
          = {y \in DOMAIN g.edges : g.edges[y].from # b /\ g.edges[y].to # b}
    BY <1>9, <2>1
  <2>3. QED
    BY <1>8, <2>1, <2>2 DEF EdgesWithout
<1>13. h = MergeWithNode(g, a, b)
  BY DEF h, j, i, MergeWithNode
<1>14. h.nodes = g.nodes \ {b}
  BY <1>1, <1>4, <1>7
<1>15. QED
  BY <1>7, <1>11, <1>12, <1>13, <1>14

----
(***************************************************************************)
(* The inductive invariant.  The operations of a graph need the nodes and  *)
(* edges they are given to be there, so the loops of the passes may hold   *)
(* none that was erased: neither in what they have still to treat, nor in  *)
(* the queue, nor as the node they are at or the initial node.             *)
(***************************************************************************)
LoopsHoldNoErased ==
  /\ node \subseteq graph.nodes
  /\ queue \in Seq(graph.nodes)
  /\ pass \in {"noops", "visited", "split"} => initial \in graph.nodes
  /\ pass = "visited" \/ queue = <<>>
  /\ pass = "noops" => todo \subseteq DOMAIN graph.edges /\ node = {}
  /\ pass = "split" => todo \subseteq graph.nodes

NfaInv == GraphWellFormed /\ LoopsHoldNoErased

----
\* Leading the edges into a node through a check adds one node.
LEMMA VisitedCheckAddedWellFormed ==
  ASSUME WellFormed(graph), NEW v \in graph.nodes
  PROVE  /\ WellFormed(VisitedCheckAdded(v))
         /\ VisitedCheckAdded(v).nodes = graph.nodes \cup {graph.lastNode + 1}
<1> DEFINE entered == NewNode(graph)
           check   == entered.lastNode
           led     == ChangeEdgeTargets(entered, v, check)
<1>1. /\ WellFormed(entered) /\ check = graph.lastNode + 1
      /\ entered.nodes = graph.nodes \cup {check}
  BY NewNodeWellFormed
<1>2. VisitedCheckAdded(v) = AddEdge(led, check, [type |-> "visited"], v)
  BY DEF VisitedCheckAdded
<1> HIDE DEF entered, check
<1>3. v \in entered.nodes /\ check \in entered.nodes
  BY <1>1
<1>4. WellFormed(led) /\ led.nodes = entered.nodes
  BY <1>1, <1>3, ChangeEdgeTargetsWellFormed
<1> HIDE DEF led
<1>5. v \in led.nodes /\ check \in led.nodes
  BY <1>3, <1>4
<1>6. /\ WellFormed(VisitedCheckAdded(v))
      /\ VisitedCheckAdded(v).nodes = led.nodes
  BY <1>2, <1>4, <1>5, AddEdgeWellFormed
<1>7. QED
  BY <1>1, <1>4, <1>6

\* Moving an edge to a node of its own adds that node.
LEMMA MovedToNewNodeWellFormed ==
  ASSUME WellFormed(graph), NEW u \in graph.nodes, NEW e \in DOMAIN graph.edges
  PROVE  /\ WellFormed(MovedToNewNode(u, e))
         /\ MovedToNewNode(u, e).nodes = graph.nodes \cup {graph.lastNode + 1}
<1> DEFINE new   == NewNode(graph)
           n     == new.lastNode
           added == AddEdge(new, u, BackwardEmpty, n)
<1>1. /\ WellFormed(new) /\ n = graph.lastNode + 1
      /\ new.nodes = graph.nodes \cup {n} /\ new.edges = graph.edges
  BY NewNodeWellFormed
<1>2. MovedToNewNode(u, e) = ChangeEdgeSource(added, e, n)
  BY DEF MovedToNewNode
<1> HIDE DEF new, n
<1>3. u \in new.nodes /\ n \in new.nodes
  BY <1>1
<1>4. WellFormed(added) /\ added.nodes = new.nodes
  BY <1>1, <1>3, AddEdgeWellFormed
<1>5. DOMAIN new.edges \subseteq DOMAIN added.edges
  BY <1>1, <1>3, AddEdgeWellFormed
<1> HIDE DEF added
<1>6. e \in DOMAIN added.edges /\ n \in added.nodes
  BY <1>1, <1>3, <1>4, <1>5
<1>7. WellFormed(MovedToNewNode(u, e)) /\ MovedToNewNode(u, e).nodes = added.nodes
  BY <1>2, <1>4, <1>6, ChangeEdgeSourceWellFormed
<1>8. QED
  BY <1>1, <1>4, <1>7

\* Erasing a noop between two nodes leaves the target of the noop.
LEMMA NoopErasedWellFormed ==
  ASSUME NEW g, WellFormed(g), NEW e, NEW a \in g.nodes, NEW b \in g.nodes
  PROVE  /\ WellFormed(EraseEdge(MergeWithNode(g, a, b), e))
         /\ EraseEdge(MergeWithNode(g, a, b), e).nodes = g.nodes \ {b}
<1> DEFINE merged == MergeWithNode(g, a, b)
           h == EraseEdges(merged, {e})
<1>1. WellFormed(merged) /\ merged.nodes = g.nodes \ {b}
  BY MergeContracts
<1> HIDE DEF merged
<1>2. WellFormed(h) /\ h.nodes = merged.nodes
  BY <1>1, EraseEdgesWellFormed
<1>3. h = EraseEdge(MergeWithNode(g, a, b), e)
  BY DEF merged, EraseEdge
<1>4. QED
  BY <1>1, <1>2, <1>3

\* It leaves all the other edges.
LEMMA NoopErasedEdges ==
  ASSUME NEW g, WellFormed(g), NEW e, NEW a \in g.nodes, NEW b \in g.nodes, a # b
  PROVE  DOMAIN EraseEdge(MergeWithNode(g, a, b), e).edges = DOMAIN g.edges \ {e}
<1> DEFINE merged == MergeWithNode(g, a, b)
           h == EraseEdges(merged, {e})
<1>1. WellFormed(merged)
  BY MergeContracts
<1>2. merged.edges = EndsMoved(g, b, a)
  BY MergeContracts
<1> HIDE DEF merged
<1>3. h.edges = OtherEdges(merged, {e})
  BY <1>1, EraseEdgesWellFormed
<1> HIDE DEF h
<1>4. DOMAIN h.edges = DOMAIN g.edges \ {e}
  BY <1>2, <1>3 DEF EndsMoved, OtherEdges
<1>5. h = EraseEdge(MergeWithNode(g, a, b), e)
  BY DEF h, merged, EraseEdge
<1>6. QED
  BY <1>4, <1>5

\* A sequence of one element.
LEMMA SingletonSeq ==
  ASSUME NEW S, NEW x \in S
  PROVE  <<x>> \in Seq(S)
OBVIOUS

\* The edges of a list are edges of the graph.
LEMMA ListedExists ==
  ASSUME NEW g, WellFormed(g), NEW u \in g.nodes,
         NEW S, S \subseteq DOMAIN g.outs[u], S # {}
  PROVE  First(g.outs[u], S) \in S /\ S \subseteq DOMAIN g.edges
<1>1. \A x \in DOMAIN g.outs[u] : g.outs[u][x] \in 1 .. g.lastPlace
  BY DEF WellFormed, PlacesDiffer
<1>2. g.lastPlace \in Nat
  BY DEF WellFormed, Shaped
<1>3. \A x \in S : g.outs[u][x] \in Nat
  BY <1>1, <1>2
<1>4. First(g.outs[u], S) \in S
  BY <1>3, FirstIsMember
<1>5. DOMAIN g.outs[u] = {x \in DOMAIN g.edges : g.edges[x].from = u}
  BY DEF WellFormed, ListsAgree
<1>6. QED
  BY <1>4, <1>5

----
\* The automaton of Thompson's construction is well formed.
LEMMA NfaInvInit == Init => NfaInv
<1> SUFFICES ASSUME Init PROVE NfaInv
  OBVIOUS
<1>1. IsAutomaton(source) /\ graph = source.graph /\ initial = source.initial
  BY AutomataAssumption DEF Init
<1>2. GraphWellFormed
  BY <1>1 DEF IsAutomaton, GraphWellFormed
<1>3. LoopsHoldNoErased
  BY <1>1 DEF Init, LoopsHoldNoErased, IsAutomaton, GetNoops
<1>4. QED
  BY <1>2, <1>3 DEF NfaInv

\* EraseNoops: the noops still to erase survive the merge of another one.
LEMMA NfaInvNoops ==
  NfaInv /\ (EraseLoopedNoop \/ EraseNoop \/ NoopsErased) => NfaInv'
<1> USE DEF NfaInv, GraphWellFormed
<1>1. ASSUME NfaInv, EraseLoopedNoop
      PROVE  NfaInv'
  <2>1. pass = "noops" /\ pass' = "broken" /\ node' = node /\ queue' = queue
    BY <1>1 DEF EraseLoopedNoop
  <2>2. PICK e \in todo : graph' = MergeWithNode(graph, graph.edges[e].to, graph.edges[e].from)
    BY <1>1 DEF EraseLoopedNoop
  <2>3. graph.edges[e].to \in graph.nodes /\ graph.edges[e].from \in graph.nodes
    BY <1>1, <2>1 DEF WellFormed, EndsExist, LoopsHoldNoErased
  <2>4. WellFormed(graph')
    BY <1>1, <2>2, <2>3, MergeContracts
  <2>5. node' = {} /\ queue' = <<>>
    BY <1>1, <2>1 DEF LoopsHoldNoErased
  <2>6. LoopsHoldNoErased'
    BY <2>1, <2>5 DEF LoopsHoldNoErased
  <2>7. QED
    BY <2>4, <2>6
<1>2. ASSUME NfaInv, EraseNoop
      PROVE  NfaInv'
  <2>1. pass = "noops" /\ pass' = pass /\ node' = node /\ queue' = queue
    BY <1>2 DEF EraseNoop
  <2>2. PICK e \in todo :
          /\ graph.edges[e].from # graph.edges[e].to
          /\ initial' = NextInitial(graph.edges[e])
          /\ graph' = EraseEdge(MergeWithNode(graph, graph.edges[e].to, graph.edges[e].from), e)
          /\ todo' = todo \ {e}
    BY <1>2 DEF EraseNoop
  <2> DEFINE a == graph.edges[e].to
             b == graph.edges[e].from
  <2>3. /\ a \in graph.nodes /\ b \in graph.nodes /\ a # b
        /\ WellFormed(graph)
    BY <1>2, <2>1, <2>2 DEF WellFormed, EndsExist, LoopsHoldNoErased
  <2>4. /\ initial' = IF b = initial THEN a ELSE initial
        /\ graph' = EraseEdge(MergeWithNode(graph, a, b), e)
    BY <2>2 DEF NextInitial
  <2> HIDE DEF a, b
  <2>5. /\ WellFormed(graph')
        /\ graph'.nodes = graph.nodes \ {b}
        /\ DOMAIN graph'.edges = DOMAIN graph.edges \ {e}
    <3>1. WellFormed(graph') /\ graph'.nodes = graph.nodes \ {b}
      BY <2>3, <2>4, NoopErasedWellFormed
    <3>2. DOMAIN graph'.edges = DOMAIN graph.edges \ {e}
      BY <2>3, <2>4, NoopErasedEdges
    <3>3. QED
      BY <3>1, <3>2
  <2>6. /\ node = {} /\ queue = <<>>
        /\ todo \subseteq DOMAIN graph.edges /\ initial \in graph.nodes
    BY <1>2, <2>1 DEF LoopsHoldNoErased
  <2>7. initial' \in graph'.nodes
    BY <2>3, <2>4, <2>5, <2>6
  <2>8. todo' \subseteq DOMAIN graph'.edges
    BY <2>2, <2>5, <2>6
  <2>9. LoopsHoldNoErased'
    BY <2>1, <2>6, <2>7, <2>8 DEF LoopsHoldNoErased
  <2>10. QED
    BY <2>5, <2>9
<1>3. ASSUME NfaInv, NoopsErased
      PROVE  NfaInv'
  <2>1. initial \in graph.nodes /\ graph' = graph /\ initial' = initial /\ node' = node
    BY <1>3 DEF NoopsErased, LoopsHoldNoErased
  <2>2. queue' = <<initial>> /\ pass' = "visited"
    BY <1>3 DEF NoopsErased
  <2>3. <<initial>> \in Seq(graph.nodes)
    BY <2>1, SingletonSeq
  <2>4. LoopsHoldNoErased'
    BY <1>3, <2>1, <2>2, <2>3 DEF LoopsHoldNoErased
  <2>5. QED
    BY <1>3, <2>1, <2>4
<1>4. QED
  BY <1>1, <1>2, <1>3

\* AddVisitedChecks: what the search has to visit stays.
LEMMA NfaInvVisited ==
  NfaInv /\ (VisitNode \/ VisitEdge \/ LeaveNode \/ ChecksAdded) => NfaInv'
<1> USE DEF NfaInv, GraphWellFormed
<1>1. ASSUME NfaInv, VisitNode
      PROVE  NfaInv'
  <2>1. queue \in Seq(graph.nodes) /\ queue # <<>>
    BY <1>1 DEF VisitNode, LoopsHoldNoErased
  <2>2. Head(queue) \in graph.nodes /\ Tail(queue) \in Seq(graph.nodes)
    BY <2>1, HeadTailProperties
  <2>3. QED
    BY <1>1, <2>2 DEF VisitNode, LoopsHoldNoErased
<1>2. ASSUME NfaInv, VisitEdge
      PROVE  NfaInv'
  <2>1. pass = "visited" /\ pass' = pass /\ node' = node /\ initial' = initial
    BY <1>2 DEF VisitEdge
  <2> DEFINE S(u)    == After(graph.outs[u], cursor)
             Edge(u) == First(graph.outs[u], S(u))
             To(u)   == graph.edges[Edge(u)].to
  <2>2. PICK u \in node :
          /\ S(u) # {}
          /\ graph' = IF IsNewJoin(To(u)) THEN VisitedCheckAdded(To(u)) ELSE graph
          /\ queue' = IF To(u) \in visited THEN queue ELSE Append(queue, To(u))
    BY <1>2 DEF VisitEdge
  <2>3. u \in graph.nodes /\ node \subseteq graph.nodes
    BY <1>2 DEF LoopsHoldNoErased
  <2>4. S(u) \subseteq DOMAIN graph.outs[u]
    BY DEF After
  <2>5. Edge(u) \in DOMAIN graph.edges
    <3> HIDE DEF S
    <3>1. QED
      BY <1>2, <2>2, <2>3, <2>4, ListedExists
  <2>6. To(u) \in graph.nodes
    <3> HIDE DEF Edge
    <3>1. QED
      BY <1>2, <2>5 DEF WellFormed, EndsExist
  <2> HIDE DEF To
  <2>7. WellFormed(graph') /\ graph.nodes \subseteq graph'.nodes
    BY <1>2, <2>2, <2>6, VisitedCheckAddedWellFormed
  <2>8. queue \in Seq(graph'.nodes)
    BY <1>2, <2>7, SeqMonotonic DEF LoopsHoldNoErased
  <2>9. queue' \in Seq(graph'.nodes)
    BY <2>2, <2>6, <2>7, <2>8, AppendProperties
  <2>10. LoopsHoldNoErased'
    BY <1>2, <2>1, <2>3, <2>7, <2>9 DEF LoopsHoldNoErased
  <2>11. QED
    BY <2>7, <2>10
<1>3. ASSUME NfaInv, LeaveNode
      PROVE  NfaInv'
  BY <1>3 DEF LeaveNode, LoopsHoldNoErased
<1>4. ASSUME NfaInv, ChecksAdded
      PROVE  NfaInv'
  BY <1>4 DEF ChecksAdded, LoopsHoldNoErased
<1>5. QED
  BY <1>1, <1>2, <1>3, <1>4

\* HandleMultipleOutNodes: the nodes with several edges stay.
LEMMA NfaInvSplit ==
  NfaInv /\ (TakeNode \/ SplitEdge \/ EraseDuplicates \/ NfaCreated) => NfaInv'
<1> USE DEF NfaInv, GraphWellFormed
<1>1. ASSUME NfaInv, TakeNode
      PROVE  NfaInv'
  BY <1>1 DEF TakeNode, LoopsHoldNoErased
<1>2. ASSUME NfaInv, SplitEdge
      PROVE  NfaInv'
  <2>1. /\ pass = "split" /\ pass' = pass /\ node' = node /\ initial' = initial
        /\ todo' = todo /\ queue' = queue
    BY <1>2 DEF SplitEdge
  <2> DEFINE Edge(u) == First(graph.outs[u], Effective(u))
  <2>2. PICK u \in node : Effective(u) # {} /\ graph' = MovedToNewNode(u, Edge(u))
    BY <1>2 DEF SplitEdge
  <2>3. u \in graph.nodes /\ node \subseteq graph.nodes
    BY <1>2 DEF LoopsHoldNoErased
  <2>4. Effective(u) \subseteq DOMAIN graph.outs[u]
    BY DEF Effective
  <2>5. Edge(u) \in DOMAIN graph.edges
    BY <1>2, <2>2, <2>3, <2>4, ListedExists
  <2> HIDE DEF Edge
  <2>6. WellFormed(graph') /\ graph.nodes \subseteq graph'.nodes
    BY <1>2, <2>2, <2>3, <2>5, MovedToNewNodeWellFormed
  <2>7. queue' \in Seq(graph'.nodes)
    BY <1>2, <2>1, <2>6, SeqMonotonic DEF LoopsHoldNoErased
  <2>8. LoopsHoldNoErased'
    BY <1>2, <2>1, <2>6, <2>7 DEF LoopsHoldNoErased
  <2>9. QED
    BY <2>6, <2>8
<1>3. ASSUME NfaInv, EraseDuplicates
      PROVE  NfaInv'
  <2>1. /\ pass = "split" /\ pass' = pass /\ node' = {} /\ initial' = initial
        /\ todo' = todo /\ queue' = queue
    BY <1>3 DEF EraseDuplicates
  <2>2. PICK u \in node : graph' = EraseEdges(graph, Duplicates(u))
    BY <1>3 DEF EraseDuplicates
  <2>3. WellFormed(graph') /\ graph'.nodes = graph.nodes
    BY <1>3, <2>2, EraseEdgesWellFormed
  <2>4. LoopsHoldNoErased'
    BY <1>3, <2>1, <2>3 DEF LoopsHoldNoErased
  <2>5. QED
    BY <2>3, <2>4
<1>4. ASSUME NfaInv, NfaCreated
      PROVE  NfaInv'
  <2>1. /\ pass = "split" /\ pass' = "done" /\ graph' = graph /\ initial' = initial
        /\ node' = {} /\ queue' = queue
    BY <1>4 DEF NfaCreated
  <2>2. LoopsHoldNoErased'
    BY <1>4, <2>1 DEF LoopsHoldNoErased
  <2>3. QED
    BY <1>4, <2>1, <2>2
<1>5. QED
  BY <1>1, <1>2, <1>3, <1>4

----
(***************************************************************************)
(* Whatever automaton CreateNfa is given, and in whatever order it meets   *)
(* the noops and the nodes, its graph stays well formed: every edge it     *)
(* touches has both ends, and stands in the list of its source and in the  *)
(* set of its target and nowhere else.                                     *)
(***************************************************************************)
THEOREM NfaGraphWellFormed == Spec => []GraphWellFormed
<1>1. Init => NfaInv
  BY NfaInvInit
<1>2. NfaInv /\ [CreateNfaStep]_nfaVars => NfaInv'
  <2>1. NfaInv /\ UNCHANGED nfaVars => NfaInv'
    BY DEF NfaInv, GraphWellFormed, LoopsHoldNoErased, nfaVars
  <2>2. QED
    BY <2>1, NfaInvNoops, NfaInvVisited, NfaInvSplit DEF CreateNfaStep
<1>3. NfaInv => GraphWellFormed
  BY DEF NfaInv
<1>4. QED
  BY <1>1, <1>2, <1>3, PTL DEF Spec

----
(***************************************************************************)
(* Closures.  The recursion of Closure ends since U is finite, and what it *)
(* comes to is the least set that has S in it and that Next leads nowhere  *)
(* out of.                                                                 *)
(***************************************************************************)
\* The members of all such sets.
Common(U, Next, S) == {u \in U : \A D \in SUBSET U : S \subseteq D /\ Next[D] \subseteq D => u \in D}

IsMonotone(U, Next) ==
  /\ Next \in [SUBSET U -> SUBSET U]
  /\ \A X, Y \in SUBSET U : X \subseteq Y => Next[X] \subseteq Next[Y]

\* A step of the recursion leaves the members in common as they are.
LEMMA CommonUnfolds ==
  ASSUME NEW U, NEW Next, IsMonotone(U, Next), NEW X \in SUBSET U
  PROVE  /\ Next[X] \subseteq X => Common(U, Next, X) = X
         /\ Common(U, Next, X) = Common(U, Next, X \cup Next[X])
<1>1. ASSUME NEW D \in SUBSET U, Next[D] \subseteq D
      PROVE  X \subseteq D <=> X \cup Next[X] \subseteq D
  BY <1>1 DEF IsMonotone
<1>2. Common(U, Next, X) = Common(U, Next, X \cup Next[X])
  BY <1>1 DEF Common
<1>3. Next[X] \subseteq X => Common(U, Next, X) = X
  BY DEF Common
<1>4. QED
  BY <1>2, <1>3

\* A step that adds anything leaves less to add.
LEMMA FewerLeft ==
  ASSUME NEW U, IsFiniteSet(U), NEW X \in SUBSET U, NEW Y \in SUBSET U, ~(Y \subseteq X)
  PROVE  /\ Cardinality(U \ (X \cup Y)) \in Nat /\ Cardinality(U \ X) \in Nat
         /\ Cardinality(U \ (X \cup Y)) < Cardinality(U \ X)
<1>1. IsFiniteSet(U \ X) /\ IsFiniteSet(U \ (X \cup Y))
  BY FS_Subset
<1>2. U \ (X \cup Y) \subseteq U \ X /\ U \ (X \cup Y) # U \ X
  OBVIOUS
<1>3. QED
  BY <1>1, <1>2, FS_Subset, FS_CardinalityType

\* So the recursion comes to the members in common.
LEMMA ClosureIsCommon ==
  ASSUME NEW U, IsFiniteSet(U), NEW Next, IsMonotone(U, Next), NEW S \in SUBSET U
  PROVE  Closure(U, Next, S) = Common(U, Next, S)
<1> DEFINE Steps(f) == [X \in SUBSET U |-> IF Next[X] \subseteq X THEN X ELSE f[X \cup Next[X]]]
           common == [X \in SUBSET U |-> Common(U, Next, X)]
           all == CHOOSE f : f = Steps(f)
<1>1. \A X \in SUBSET U : Next[X] \in SUBSET U /\ X \cup Next[X] \in SUBSET U
  BY DEF IsMonotone
<1>2. common = Steps(common)
  <2>1. ASSUME NEW X \in SUBSET U
        PROVE  common[X] = IF Next[X] \subseteq X THEN X ELSE common[X \cup Next[X]]
    <3>1. /\ common[X] = Common(U, Next, X)
          /\ common[X \cup Next[X]] = Common(U, Next, X \cup Next[X])
      BY <1>1
    <3>2. /\ Next[X] \subseteq X => Common(U, Next, X) = X
          /\ Common(U, Next, X) = Common(U, Next, X \cup Next[X])
      BY CommonUnfolds
    <3> HIDE DEF common
    <3>3. QED
      BY <3>1, <3>2
  <2>2. QED
    BY <2>1
<1>3. all = Steps(all)
  <2>1. \E f : f = Steps(f)
    BY <1>2
  <2> HIDE DEF Steps
  <2>2. QED
    BY <2>1
<1>4. \A X \in SUBSET U : all[X] = IF Next[X] \subseteq X THEN X ELSE all[X \cup Next[X]]
  BY <1>3, Zenon
<1> HIDE DEF all
<1> DEFINE Left(X) == Cardinality(U \ X)
           Wrong == {X \in SUBSET U : all[X] # Common(U, Next, X)}
           R == OpToRel(<, Nat)
<1>5. Wrong = {}
  <2>1. SUFFICES ASSUME Wrong # {} PROVE FALSE
    OBVIOUS
  <2>2. IsWellFoundedOn(R, Nat)
    BY NatLessThanWellFounded
  <2>3. \A m, n \in Nat : m < n => <<m, n>> \in R
    BY Zenon DEF OpToRel
  <2>4. \A X \in SUBSET U : Left(X) \in Nat
    BY FS_Subset, FS_CardinalityType
  <2> DEFINE numbers == {Left(X) : X \in Wrong}
  <2> HIDE DEF R
  <2>5. numbers \subseteq Nat /\ numbers # {}
    BY <2>1, <2>4
  <2>6. PICK m \in numbers : \A k \in numbers : ~(<<k, m>> \in R)
    BY <2>2, <2>5, WFMin
  <2>7. PICK X \in Wrong : m = Left(X)
    OBVIOUS
  <2>8. ~(Next[X] \subseteq X)
    BY <1>4, CommonUnfolds
  <2>9. Left(X \cup Next[X]) \in Nat /\ Left(X) \in Nat /\ Left(X \cup Next[X]) < Left(X)
    BY <1>1, <2>8, FewerLeft
  <2>10. X \cup Next[X] \in Wrong
    <3>1. all[X] = all[X \cup Next[X]]
      BY <1>4, <2>8
    <3>2. Common(U, Next, X) = Common(U, Next, X \cup Next[X])
      <4>1. X \in SUBSET U
        OBVIOUS
      <4>2. QED
        BY <4>1, CommonUnfolds
    <3>3. QED
      BY <1>1, <3>1, <3>2
  <2>11. Left(X \cup Next[X]) \in numbers
    BY <2>10
  <2> HIDE DEF numbers, Left
  <2>12. QED
    BY <2>3, <2>5, <2>6, <2>7, <2>9, <2>11
<1>6. all[S] = Common(U, Next, S)
  BY <1>5
<1>7. Closure(U, Next, S) = all[S]
  BY DEF Closure, all
<1>8. QED
  BY <1>6, <1>7

\* The closure of a set has it, is led nowhere out of, and is the least such set.
LEMMA ClosureIsLeast ==
  ASSUME NEW U, IsFiniteSet(U), NEW Next, IsMonotone(U, Next), NEW S \in SUBSET U
  PROVE  LET C == Closure(U, Next, S)
         IN  /\ C \in SUBSET U /\ S \subseteq C /\ Next[C] \subseteq C
             /\ \A D \in SUBSET U : S \subseteq D /\ Next[D] \subseteq D => C \subseteq D
<1> DEFINE C == Closure(U, Next, S)
<1>1. C = Common(U, Next, S)
  BY ClosureIsCommon
<1> HIDE DEF C
<1>2. C \in SUBSET U /\ S \subseteq C
  BY <1>1 DEF Common
<1>3. \A D \in SUBSET U : S \subseteq D /\ Next[D] \subseteq D => C \subseteq D
  BY <1>1 DEF Common
<1>4. Next[C] \subseteq C
  <2>1. SUFFICES ASSUME NEW u \in Next[C], NEW D \in SUBSET U, S \subseteq D, Next[D] \subseteq D
                 PROVE  u \in U /\ u \in D
    <3>1. U \in SUBSET U /\ S \subseteq U /\ Next[U] \subseteq U
      BY DEF IsMonotone
    <3>2. QED
      BY <1>1, <3>1, <2>1 DEF Common
  <2>2. Next[C] \subseteq Next[D] /\ Next[C] \subseteq U
    BY <1>2, <1>3, <2>1 DEF IsMonotone
  <2>3. QED
    BY <2>1, <2>2
<1>5. QED
  BY <1>2, <1>3, <1>4 DEF C

----
\* No edge of E leads out of a set of nodes.
Keeps(g, E, D) == \A e \in E : g.edges[e].from \in D => g.edges[e].to \in D

\* A graph has finitely many nodes.
LEMMA NodesFinite ==
  ASSUME NEW g, WellFormed(g)
  PROVE  IsFiniteSet(g.nodes)
<1>1. g.nodes \subseteq 1 .. g.lastNode /\ g.lastNode \in Int
  BY DEF WellFormed, IdsFresh, Shaped
<1>2. IsFiniteSet(1 .. g.lastNode)
  BY <1>1, FS_Interval
<1>3. QED
  BY <1>1, <1>2, FS_Subset

\* What is led to is the least set with S in it that no edge leads out of.
LEMMA LedIsLeast ==
  ASSUME NEW g, WellFormed(g), NEW E \in SUBSET DOMAIN g.edges, NEW S \in SUBSET g.nodes
  PROVE  /\ Led(g, E, S) \in SUBSET g.nodes
         /\ S \subseteq Led(g, E, S)
         /\ Keeps(g, E, Led(g, E, S))
         /\ \A D \in SUBSET g.nodes : S \subseteq D /\ Keeps(g, E, D) => Led(g, E, S) \subseteq D
<1> DEFINE Next == [X \in SUBSET g.nodes |->
                      {g.edges[e].to : e \in {x \in E : g.edges[x].from \in X}}]
<1>1. Led(g, E, S) = Closure(g.nodes, Next, S)
  BY DEF Led
<1>2. \A X \in SUBSET g.nodes :
        Next[X] = {g.edges[e].to : e \in {x \in E : g.edges[x].from \in X}}
  OBVIOUS
<1>3. Next \in [SUBSET g.nodes -> SUBSET g.nodes]
  BY DEF WellFormed, EndsExist
<1> HIDE DEF Next
<1>4. IsMonotone(g.nodes, Next)
  BY <1>2, <1>3 DEF IsMonotone
<1>5. \A D \in SUBSET g.nodes : Next[D] \subseteq D <=> Keeps(g, E, D)
  BY <1>2 DEF Keeps
<1>6. QED
  <2> DEFINE C == Closure(g.nodes, Next, S)
  <2>1. /\ C \in SUBSET g.nodes /\ S \subseteq C /\ Next[C] \subseteq C
        /\ \A D \in SUBSET g.nodes : S \subseteq D /\ Next[D] \subseteq D => C \subseteq D
    BY <1>4, NodesFinite, ClosureIsLeast
  <2> HIDE DEF C
  <2>2. QED
    BY <1>1, <1>5, <2>1 DEF C

\* The same for edges without effect.
LEMMA ClosedIsLeast ==
  ASSUME NEW g, WellFormed(g), NEW S \in SUBSET g.nodes
  PROVE  /\ Closed(g, S) \in SUBSET g.nodes
         /\ S \subseteq Closed(g, S)
         /\ Keeps(g, Silent(g), Closed(g, S))
         /\ \A D \in SUBSET g.nodes :
              S \subseteq D /\ Keeps(g, Silent(g), D) => Closed(g, S) \subseteq D
<1>1. Silent(g) \in SUBSET DOMAIN g.edges
  BY DEF Silent
<1> HIDE DEF Silent
<1>2. QED
  BY <1>1, LedIsLeast DEF Closed

\* Where an action leads to.
Targets(g, S, act) == {g.edges[e].to : e \in Taking(g, S, act)}

\* An action leads to nodes.
LEMMA TargetsAreNodes ==
  ASSUME NEW g, WellFormed(g), NEW S, NEW act
  PROVE  /\ Targets(g, S, act) \in SUBSET g.nodes
         /\ Stepped(g, S, act) = Closed(g, Targets(g, S, act))
         /\ Stepped(g, S, act) \in SUBSET g.nodes
<1>1. Targets(g, S, act) \in SUBSET g.nodes
  BY DEF Targets, Taking, Loud, WellFormed, EndsExist
<1>2. Stepped(g, S, act) = Closed(g, Targets(g, S, act))
  BY DEF Stepped, Targets
<1>3. QED
  BY <1>1, <1>2, ClosedIsLeast

----
\* The pairs of sets of nodes of two automata.
NodePairs(a, b) == (SUBSET a.graph.nodes) \X (SUBSET b.graph.nodes)
Start(a)        == Closed(a.graph, {a.initial})
AllActs(a, b)   == Acts(a.graph) \cup Acts(b.graph)

\* A set of pairs that no action leads out of.
Follows(a, b, Z) ==
  \A r \in Z : \A act \in AllActs(a, b) :
    <<Stepped(a.graph, r[1], act), Stepped(b.graph, r[2], act)>> \in Z

\* An automaton starts in nodes.
LEMMA StartIsNodes ==
  ASSUME NEW a, IsAutomaton(a)
  PROVE  Start(a) \in SUBSET a.graph.nodes
<1>1. WellFormed(a.graph) /\ {a.initial} \in SUBSET a.graph.nodes
  BY DEF IsAutomaton
<1>2. QED
  BY <1>1, ClosedIsLeast DEF Start

\* The pairs met are the least set with the first one that actions lead nowhere out of.
LEMMA PairsAreLeast ==
  ASSUME NEW a, NEW b, IsAutomaton(a), IsAutomaton(b)
  PROVE  /\ Pairs(a, b) \in SUBSET NodePairs(a, b)
         /\ <<Start(a), Start(b)>> \in Pairs(a, b)
         /\ Follows(a, b, Pairs(a, b))
         /\ \A Z \in SUBSET NodePairs(a, b) :
              <<Start(a), Start(b)>> \in Z /\ Follows(a, b, Z) => Pairs(a, b) \subseteq Z
<1> DEFINE U == NodePairs(a, b)
           Onwards(r) == {<<Stepped(a.graph, r[1], act), Stepped(b.graph, r[2], act)>> :
                            act \in AllActs(a, b)}
           Next == [R \in SUBSET U |-> UNION {Onwards(r) : r \in R}]
           S == {<<Start(a), Start(b)>>}
<1>1. Pairs(a, b) = Closure(U, Next, S)
  BY DEF Pairs, NodePairs, AllActs, Start
<1>2. WellFormed(a.graph) /\ WellFormed(b.graph)
  BY DEF IsAutomaton
<1>3. IsFiniteSet(U)
  BY <1>2, NodesFinite, FS_SUBSET, FS_Product DEF NodePairs
<1>4. S \in SUBSET U
  BY StartIsNodes DEF NodePairs
<1>5. \A r \in U : Onwards(r) \in SUBSET U
  <2>1. SUFFICES ASSUME NEW r \in U, NEW act \in AllActs(a, b)
                 PROVE  <<Stepped(a.graph, r[1], act), Stepped(b.graph, r[2], act)>> \in U
    OBVIOUS
  <2>2. /\ Stepped(a.graph, r[1], act) \in SUBSET a.graph.nodes
        /\ Stepped(b.graph, r[2], act) \in SUBSET b.graph.nodes
    BY <1>2, TargetsAreNodes
  <2>3. QED
    BY <2>2 DEF NodePairs
<1>6. \A R \in SUBSET U : Next[R] = UNION {Onwards(r) : r \in R}
  OBVIOUS
<1>7. \A R \in SUBSET U : Next[R] \subseteq R <=> Follows(a, b, R)
  BY <1>6 DEF Follows
<1>8. Next \in [SUBSET U -> SUBSET U]
  <2>1. \A R \in SUBSET U : UNION {Onwards(r) : r \in R} \in SUBSET U
    BY <1>5
  <2>2. QED
    BY <2>1
<1>9. \A X, Y \in SUBSET U : X \subseteq Y => Next[X] \subseteq Next[Y]
  BY <1>6
<1> HIDE DEF U, Next, S
<1>10. IsMonotone(U, Next)
  BY <1>8, <1>9 DEF IsMonotone
<1> DEFINE C == Closure(U, Next, S)
<1>11. /\ C \in SUBSET U /\ S \subseteq C /\ Next[C] \subseteq C
       /\ \A D \in SUBSET U : S \subseteq D /\ Next[D] \subseteq D => C \subseteq D
  BY <1>3, <1>4, <1>10, ClosureIsLeast
<1> HIDE DEF C
<1>12. C \in SUBSET U /\ S \subseteq C /\ Follows(a, b, C)
  BY <1>7, <1>11
<1>13. \A D \in SUBSET U : S \subseteq D /\ Follows(a, b, D) => C \subseteq D
  BY <1>7, <1>11
<1>14. Pairs(a, b) = C /\ U = NodePairs(a, b) /\ S = {<<Start(a), Start(b)>>}
  BY <1>1 DEF C, U, S
<1>15. QED
  BY <1>12, <1>13, <1>14

----
(***************************************************************************)
(* One automaton is turned into another.  Edges into a node n of the one   *)
(* are edges into the node k[n] of the other, and where the one may be in  *)
(* the nodes of B the other may be in those of h[B].                       *)
(***************************************************************************)
Image(k, X) == {k[x] : x \in X}

\* The nodes that are entered without dots and epsilon edges.
Entries(a) == {a.initial} \cup {a.graph.edges[e].to : e \in Loud(a.graph)}

\* The edges with an action are the same, and they leave the same sets.
SameLoud(b, c, k, h, Good) ==
  /\ Loud(c.graph) = Loud(b.graph)
  /\ \A e \in Loud(b.graph) :
       /\ c.graph.edges[e].act = b.graph.edges[e].act
       /\ c.graph.edges[e].to = k[b.graph.edges[e].to]
       /\ \A B \in Good : c.graph.edges[e].from \in h[B] <=> b.graph.edges[e].from \in B

\* What is entered leads on to the same sets.
SameClosed(b, c, k, h, Good) ==
  \A X \in SUBSET Entries(b) :
    /\ Closed(b.graph, X) \in Good
    /\ h[Closed(b.graph, X)] = Closed(c.graph, Image(k, X))

\* The two automata have the same actions.
LEMMA ActsAreSame ==
  ASSUME NEW b, NEW c, NEW k, NEW h, NEW Good, SameLoud(b, c, k, h, Good)
  PROVE  Acts(c.graph) = Acts(b.graph)
BY DEF SameLoud, Acts

\* An action leads the two to corresponding nodes.
LEMMA TargetsAreImages ==
  ASSUME NEW b, NEW c, NEW k, NEW h, NEW Good, SameLoud(b, c, k, h, Good),
         NEW B \in Good, NEW act
  PROVE  Targets(c.graph, h[B], act) = Image(k, Targets(b.graph, B, act))
<1>1. Taking(c.graph, h[B], act) = Taking(b.graph, B, act)
  BY DEF SameLoud, Taking
<1>2. \A e \in Taking(b.graph, B, act) : c.graph.edges[e].to = k[b.graph.edges[e].to]
  BY DEF SameLoud, Taking
<1>3. QED
  BY <1>1, <1>2 DEF Targets, Image

\* Where an action leads to is entered by it.
LEMMA TargetsAreEntries ==
  ASSUME NEW b, NEW B, NEW act
  PROVE  Targets(b.graph, B, act) \in SUBSET Entries(b)
BY DEF Targets, Taking, Entries

\* So an action leads the two to corresponding sets.
LEMMA StepsMirrored ==
  ASSUME NEW b, NEW c, IsAutomaton(b), IsAutomaton(c), NEW k, NEW h, NEW Good,
         SameLoud(b, c, k, h, Good), SameClosed(b, c, k, h, Good),
         NEW B \in Good, NEW act
  PROVE  /\ Stepped(b.graph, B, act) \in Good
         /\ h[Stepped(b.graph, B, act)] = Stepped(c.graph, h[B], act)
<1> DEFINE X == Targets(b.graph, B, act)
<1>1. WellFormed(b.graph) /\ WellFormed(c.graph)
  BY DEF IsAutomaton
<1>2. Stepped(b.graph, B, act) = Closed(b.graph, X)
  BY <1>1, TargetsAreNodes
<1>3. Stepped(c.graph, h[B], act) = Closed(c.graph, Image(k, X))
  <2>1. Stepped(c.graph, h[B], act) = Closed(c.graph, Targets(c.graph, h[B], act))
    BY <1>1, TargetsAreNodes
  <2>2. Targets(c.graph, h[B], act) = Image(k, X)
    BY TargetsAreImages
  <2>3. QED
    BY <2>1, <2>2
<1>4. X \in SUBSET Entries(b)
  BY TargetsAreEntries
<1> HIDE DEF X
<1>5. QED
  BY <1>2, <1>3, <1>4 DEF SameClosed

\* Then what agreed with the one agrees with the other.
LEMMA ActionsMirrored ==
  ASSUME NEW a, NEW b, NEW c, IsAutomaton(a), IsAutomaton(b), IsAutomaton(c),
         SameActions(a, b), NEW k, NEW Good \in SUBSET SUBSET b.graph.nodes,
         NEW h \in [SUBSET b.graph.nodes -> SUBSET c.graph.nodes],
         SameLoud(b, c, k, h, Good), SameClosed(b, c, k, h, Good),
         k[b.initial] = c.initial,
         \A B \in Good : b.final \in B <=> c.final \in h[B]
  PROVE  SameActions(a, c)
<1> DEFINE Z == {<<r[1], h[r[2]]>> : r \in {q \in Pairs(a, b) : q[2] \in Good}}
<1>1. /\ Pairs(a, b) \in SUBSET NodePairs(a, b)
      /\ <<Start(a), Start(b)>> \in Pairs(a, b)
      /\ Follows(a, b, Pairs(a, b))
  BY PairsAreLeast
<1>2. \A r \in Pairs(a, b) : r[1] \in SUBSET a.graph.nodes /\ r[2] \in SUBSET b.graph.nodes
  BY <1>1 DEF NodePairs
<1>3. Z \in SUBSET NodePairs(a, c)
  <2>1. \A r \in Pairs(a, b) : h[r[2]] \in SUBSET c.graph.nodes
    BY <1>2
  <2>2. \A r \in Pairs(a, b) : <<r[1], h[r[2]]>> \in (SUBSET a.graph.nodes) \X (SUBSET c.graph.nodes)
    BY <1>2, <2>1
  <2>3. QED
    BY <2>2 DEF NodePairs
<1>4. <<Start(a), Start(c)>> \in Z
  <2>1. {b.initial} \in SUBSET Entries(b) /\ Image(k, {b.initial}) = {c.initial}
    BY DEF Entries, Image
  <2>2. Start(b) \in Good /\ h[Start(b)] = Start(c)
    BY <2>1 DEF SameClosed, Start
  <2> DEFINE r == <<Start(a), Start(b)>>
  <2>3. r \in Pairs(a, b) /\ r[1] = Start(a) /\ r[2] = Start(b)
    BY <1>1
  <2> HIDE DEF r
  <2>4. QED
    BY <2>2, <2>3
<1>5. Follows(a, c, Z)
  <2>1. SUFFICES ASSUME NEW r \in Pairs(a, b), r[2] \in Good, NEW act \in AllActs(a, c)
                 PROVE  <<Stepped(a.graph, r[1], act), Stepped(c.graph, h[r[2]], act)>> \in Z
    BY DEF Follows
  <2>2. act \in AllActs(a, b)
    BY ActsAreSame DEF AllActs
  <2> DEFINE next == <<Stepped(a.graph, r[1], act), Stepped(b.graph, r[2], act)>>
  <2>3. next \in Pairs(a, b)
    BY <1>1, <2>2 DEF Follows
  <2>4. /\ Stepped(b.graph, r[2], act) \in Good
        /\ h[Stepped(b.graph, r[2], act)] = Stepped(c.graph, h[r[2]], act)
    BY <2>1, StepsMirrored
  <2>5. next[1] = Stepped(a.graph, r[1], act) /\ next[2] = Stepped(b.graph, r[2], act)
    OBVIOUS
  <2> HIDE DEF next
  <2>6. QED
    BY <2>3, <2>4, <2>5
<1>6. Pairs(a, c) \subseteq Z
  <2> HIDE DEF Z
  <2>1. QED
    BY <1>3, <1>4, <1>5, PairsAreLeast
<1>7. \A r \in Pairs(a, c) : a.final \in r[1] <=> c.final \in r[2]
  <2>1. SUFFICES ASSUME NEW q \in Z
                 PROVE  a.final \in q[1] <=> c.final \in q[2]
    BY <1>6
  <2>2. PICK r \in Pairs(a, b) : r[2] \in Good /\ q = <<r[1], h[r[2]]>>
    OBVIOUS
  <2>3. a.final \in r[1] <=> b.final \in r[2]
    BY DEF SameActions
  <2>4. q[1] = r[1] /\ q[2] = h[r[2]]
    BY <2>2
  <2>5. QED
    BY <2>2, <2>3, <2>4
<1>8. QED
  BY <1>7 DEF SameActions

----
(***************************************************************************)
(* What the steps of the passes do to the edges of a graph g, which        *)
(* becomes h.                                                              *)
(***************************************************************************)
\* The nodes of the edge t become the later one of them, and t is gone.
Contracted(g, h, t) ==
  LET x == g.edges[t].from
      y == g.edges[t].to
  IN  /\ h.nodes = g.nodes \ {x}
      /\ DOMAIN h.edges = DOMAIN g.edges \ {t}
      /\ \A e \in DOMAIN h.edges :
           /\ h.edges[e].act = g.edges[e].act
           /\ h.edges[e].from = IF g.edges[e].from = x THEN y ELSE g.edges[e].from
           /\ h.edges[e].to = IF g.edges[e].to = x THEN y ELSE g.edges[e].to

\* Edges into v lead into the new node n, and the new edge c from there to v.
CheckPut(g, h, v, n, c) ==
  /\ n \notin g.nodes /\ h.nodes = g.nodes \cup {n}
  /\ c \notin DOMAIN g.edges /\ DOMAIN h.edges = DOMAIN g.edges \cup {c}
  /\ h.edges[c].from = n /\ h.edges[c].act.type = "visited" /\ h.edges[c].to = v
  /\ \A e \in DOMAIN g.edges :
       /\ h.edges[e].act = g.edges[e].act
       /\ h.edges[e].from = g.edges[e].from
       /\ h.edges[e].to = IF g.edges[e].to = v THEN n ELSE g.edges[e].to

\* The edge e leaves from the new node n, and the new edge f leads there from u.
EdgePutOff(g, h, u, e, n, f) ==
  /\ n \notin g.nodes /\ h.nodes = g.nodes \cup {n}
  /\ f \notin DOMAIN g.edges /\ DOMAIN h.edges = DOMAIN g.edges \cup {f}
  /\ h.edges[f].from = u /\ h.edges[f].act.type = "backward" /\ h.edges[f].to = n
  /\ \A d \in DOMAIN g.edges :
       /\ h.edges[d].act = g.edges[d].act
       /\ h.edges[d].from = IF d = e THEN n ELSE g.edges[d].from
       /\ h.edges[d].to = g.edges[d].to

\* Of the silent edges between two nodes some are gone, but never all.
SomeLeft(g, h) ==
  /\ h.nodes = g.nodes
  /\ DOMAIN h.edges \subseteq DOMAIN g.edges
  /\ \A e \in DOMAIN h.edges : h.edges[e] = g.edges[e]
  /\ \A e \in DOMAIN g.edges \ DOMAIN h.edges :
       /\ e \in Silent(g)
       /\ \E d \in Silent(g) \cap DOMAIN h.edges :
            g.edges[d].from = g.edges[e].from /\ g.edges[d].to = g.edges[e].to

----
\* A dot is contracted if no other edge leaves where it begins, or no other
\* one enters where it ends.
LEMMA ContractionMirrors ==
  ASSUME NEW a, NEW b, NEW c, IsAutomaton(a), IsAutomaton(b), IsAutomaton(c),
         SameActions(a, b), NEW t \in Silent(b.graph), Contracted(b.graph, c.graph, t),
         b.graph.edges[t].from # b.graph.edges[t].to,
         c.initial = IF b.graph.edges[t].from = b.initial THEN b.graph.edges[t].to ELSE b.initial,
         c.final = b.final, b.final # b.graph.edges[t].from,
         b.graph.edges[t].to # b.initial,
         \/ \A e \in DOMAIN b.graph.edges \ {t} : b.graph.edges[e].from # b.graph.edges[t].from
         \/ \A e \in DOMAIN b.graph.edges \ {t} : b.graph.edges[e].to # b.graph.edges[t].to
  PROVE  SameActions(a, c)
<1> DEFINE g == b.graph
           x == g.edges[t].from
           y == g.edges[t].to
           k == [n \in g.nodes |-> IF n = x THEN y ELSE n]
           h == [B \in SUBSET g.nodes |-> B \ {x}]
           Good == {B \in SUBSET g.nodes :
                      /\ Keeps(g, Silent(g), B)
                      /\ (\E e \in DOMAIN g.edges \ {t} : g.edges[e].from = x)
                            => (y \in B => x \in B)}
<1>1. WellFormed(g) /\ WellFormed(c.graph)
  BY DEF IsAutomaton
<1>2. /\ t \in DOMAIN g.edges /\ x # y /\ x \in g.nodes /\ y \in g.nodes
      /\ \A e \in DOMAIN g.edges : g.edges[e].from \in g.nodes /\ g.edges[e].to \in g.nodes
  BY <1>1 DEF Silent, WellFormed, EndsExist
<1>3. /\ c.graph.nodes = g.nodes \ {x}
      /\ DOMAIN c.graph.edges = DOMAIN g.edges \ {t}
      /\ \A e \in DOMAIN g.edges \ {t} :
           /\ c.graph.edges[e].act = g.edges[e].act
           /\ c.graph.edges[e].from = k[g.edges[e].from]
           /\ c.graph.edges[e].to = k[g.edges[e].to]
  BY <1>2 DEF Contracted
<1>4. /\ k[x] = y /\ k[y] = y /\ \A n \in g.nodes \ {x} : k[n] = n
      /\ \A n \in g.nodes : k[n] \in g.nodes \ {x}
  BY <1>2
<1>5. c.initial = k[b.initial] /\ b.initial \in g.nodes /\ b.final \in g.nodes
  BY <1>4 DEF IsAutomaton
<1>6. /\ Silent(c.graph) = Silent(g) \ {t}
      /\ Loud(c.graph) = Loud(g) /\ t \notin Loud(g) /\ Loud(g) \subseteq DOMAIN g.edges
  <2>1. Silent(c.graph) = Silent(g) \ {t}
    BY <1>3 DEF Silent
  <2>2. QED
    BY <1>3, <2>1 DEF Loud
<1>7. \A B \in SUBSET g.nodes : h[B] = B \ {x}
  OBVIOUS
<1>8. \A B \in Good : x \in B => y \in B
  BY DEF Keeps
<1>9. SameLoud(b, c, k, h, Good)
  <2>1. ASSUME NEW e \in Loud(g), NEW B \in Good
        PROVE  c.graph.edges[e].from \in h[B] <=> g.edges[e].from \in B
    <3>1. e \in DOMAIN g.edges \ {t} /\ B \in SUBSET g.nodes
      BY <1>6
    <3>2. c.graph.edges[e].from = k[g.edges[e].from] /\ g.edges[e].from \in g.nodes
      BY <1>2, <1>3, <3>1
    <3>3. g.edges[e].from = x => (y \in B => x \in B)
      BY <3>1
    <3>4. QED
      BY <1>2, <1>4, <1>7, <1>8, <3>1, <3>2, <3>3
  <2>2. QED
    BY <1>3, <1>6, <2>1 DEF SameLoud
<1>10. /\ Entries(b) \subseteq g.nodes
       /\ \/ /\ y \notin Entries(b)
             /\ \A e \in DOMAIN g.edges \ {t} : g.edges[e].to # y
          \/ \A e \in DOMAIN g.edges \ {t} : g.edges[e].from # x
  <2>1. Entries(b) \subseteq g.nodes
    BY <1>2, <1>5, <1>6 DEF Entries
  <2>2. ASSUME \A e \in DOMAIN g.edges \ {t} : g.edges[e].to # y
        PROVE  y \notin Entries(b)
    BY <2>2, <1>6 DEF Entries
  <2>3. QED
    BY <2>1, <2>2
<1>11. ASSUME NEW X \in SUBSET Entries(b)
       PROVE  /\ Closed(g, X) \in Good
              /\ h[Closed(g, X)] = Closed(c.graph, Image(k, X))
  <2> DEFINE C == Closed(g, X)
             D == Closed(c.graph, Image(k, X))
  <2>1. X \in SUBSET g.nodes
    BY <1>10, <1>11
  <2>2. /\ C \in SUBSET g.nodes /\ X \subseteq C /\ Keeps(g, Silent(g), C)
        /\ \A E \in SUBSET g.nodes : X \subseteq E /\ Keeps(g, Silent(g), E) => C \subseteq E
    BY <1>1, <2>1, ClosedIsLeast
  <2>3. Image(k, X) \in SUBSET c.graph.nodes
    <3> HIDE DEF k
    <3>1. QED
      BY <1>3, <1>4, <2>1 DEF Image
  <2>4. /\ D \in SUBSET c.graph.nodes /\ Image(k, X) \subseteq D
        /\ Keeps(c.graph, Silent(c.graph), D)
        /\ \A E \in SUBSET c.graph.nodes :
             Image(k, X) \subseteq E /\ Keeps(c.graph, Silent(c.graph), E) => D \subseteq E
    BY <1>1, <2>3, ClosedIsLeast
  <2> HIDE DEF C, D
  <2>5. ASSUME NEW e \in DOMAIN g.edges \ {t}, g.edges[e].from = x, y \in C, x \notin C
        PROVE  FALSE
    <3>1. y \notin X /\ \A d \in DOMAIN g.edges \ {t} : g.edges[d].to # y
      BY <1>10, <1>11, <2>5
    <3>2. Keeps(g, Silent(g), C \ {y})
      BY <2>2, <2>5, <3>1 DEF Keeps, Silent
    <3>3. X \subseteq C \ {y} /\ C \ {y} \in SUBSET g.nodes
      BY <2>2, <3>1
    <3>4. QED
      BY <2>2, <2>5, <3>2, <3>3
  <2>6. C \in Good
    BY <2>2, <2>5
  <2>7. Image(k, X) \subseteq C \ {x}
    <3>1. ASSUME NEW n \in X
          PROVE  k[n] \in C \ {x}
      <4>1. n \in C /\ n \in g.nodes /\ (x \in C => y \in C)
        BY <1>8, <2>1, <2>2, <2>6
      <4>2. QED
        BY <1>2, <1>4, <4>1
    <3>2. QED
      BY <3>1 DEF Image
  <2>8. Keeps(c.graph, Silent(c.graph), C \ {x})
    <3>1. ASSUME NEW e \in Silent(c.graph), c.graph.edges[e].from \in C \ {x}
          PROVE  c.graph.edges[e].to \in C \ {x}
      <4>1. e \in Silent(g) /\ e \in DOMAIN g.edges \ {t}
        BY <1>6 DEF Silent
      <4>2. g.edges[e].from \in C
        BY <1>2, <1>3, <1>4, <2>5, <3>1, <4>1
      <4>3. g.edges[e].to \in C
        BY <2>2, <4>1, <4>2 DEF Keeps
      <4>4. /\ c.graph.edges[e].to = k[g.edges[e].to]
            /\ g.edges[e].to \in g.nodes /\ (x \in C => y \in C)
        BY <1>2, <1>3, <1>8, <2>6, <4>1
      <4>5. QED
        BY <1>2, <1>4, <4>3, <4>4
    <3>2. QED
      BY <3>1 DEF Keeps
  <2>9. D \subseteq C \ {x}
    <3>1. C \ {x} \in SUBSET c.graph.nodes
      BY <1>3, <2>2
    <3>2. QED
      BY <2>4, <2>7, <2>8, <3>1
  <2>10. C \ {x} \subseteq D
    <3> DEFINE E == {n \in g.nodes : k[n] \in D}
    <3>1. X \subseteq E
      BY <2>1, <2>4 DEF Image
    <3>2. ASSUME NEW e \in Silent(g), g.edges[e].from \in E
          PROVE  g.edges[e].to \in E
      <4>1. e \in DOMAIN g.edges
        BY DEF Silent
      <4>2. CASE e = t
        BY <1>2, <1>4, <3>2, <4>2
      <4>3. CASE e # t
        BY <1>2, <1>3, <1>6, <2>4, <3>2, <4>1, <4>3 DEF Keeps
      <4>4. QED
        BY <4>2, <4>3
    <3>3. Keeps(g, Silent(g), E)
      BY <3>2 DEF Keeps
    <3>4. C \subseteq E
      BY <2>2, <3>1, <3>3
    <3>5. QED
      BY <1>4, <2>2, <3>4
  <2>11. h[C] = D
    BY <1>7, <2>2, <2>9, <2>10
  <2>12. QED
    BY <2>6, <2>11 DEF C, D
<1>12. SameClosed(b, c, k, h, Good)
  BY <1>11 DEF SameClosed
<1>13. h \in [SUBSET g.nodes -> SUBSET c.graph.nodes]
  BY <1>3
<1>14. \A B \in Good : b.final \in B <=> c.final \in h[B]
  BY <1>7
<1>15. Good \in SUBSET SUBSET g.nodes
  OBVIOUS
<1> HIDE DEF k, h, Good
<1>16. QED
  BY <1>5, <1>9, <1>12, <1>13, <1>14, <1>15, ActionsMirrored

----
\* A check is no action.
LEMMA CheckMirrors ==
  ASSUME NEW a, NEW b, NEW c, IsAutomaton(a), IsAutomaton(b), IsAutomaton(c),
         SameActions(a, b), NEW v \in b.graph.nodes, NEW n, NEW q,
         CheckPut(b.graph, c.graph, v, n, q),
         c.initial = b.initial, c.final = b.final, v # b.initial
  PROVE  SameActions(a, c)
<1> DEFINE g == b.graph
           k == [m \in g.nodes |-> IF m = v THEN n ELSE m]
           With(B) == IF v \in B THEN B \cup {n} ELSE B
           h == [B \in SUBSET g.nodes |-> With(B)]
           Good == {B \in SUBSET g.nodes : Keeps(g, Silent(g), B)}
<1>1. WellFormed(g) /\ WellFormed(c.graph) /\ b.initial \in g.nodes /\ b.final \in g.nodes
  BY DEF IsAutomaton
<1>2. \A e \in DOMAIN g.edges : g.edges[e].from \in g.nodes /\ g.edges[e].to \in g.nodes
  BY <1>1 DEF WellFormed, EndsExist
<1>3. /\ n \notin g.nodes /\ c.graph.nodes = g.nodes \cup {n}
      /\ q \notin DOMAIN g.edges /\ DOMAIN c.graph.edges = DOMAIN g.edges \cup {q}
      /\ c.graph.edges[q].from = n /\ c.graph.edges[q].act.type = "visited"
      /\ c.graph.edges[q].to = v
      /\ \A e \in DOMAIN g.edges :
           /\ c.graph.edges[e].act = g.edges[e].act
           /\ c.graph.edges[e].from = g.edges[e].from
           /\ c.graph.edges[e].to = k[g.edges[e].to]
  BY <1>2 DEF CheckPut
<1>4. /\ k[v] = n /\ \A m \in g.nodes \ {v} : k[m] = m
      /\ \A m \in g.nodes : k[m] \in c.graph.nodes
  BY <1>3
<1>5. \A B \in SUBSET g.nodes : h[B] = With(B)
  OBVIOUS
<1>6. /\ Silent(c.graph) = Silent(g) \cup {q}
      /\ Loud(c.graph) = Loud(g) /\ Loud(g) \subseteq DOMAIN g.edges
  <2>1. "visited" \in NoEffect
    BY DEF NoEffect
  <2>2. Silent(c.graph) = Silent(g) \cup {q}
    <3> HIDE DEF k
    <3>1. QED
      BY <1>3, <2>1 DEF Silent
  <2>3. QED
    BY <1>3, <2>2 DEF Loud
<1>7. SameLoud(b, c, k, h, Good)
  <2>1. ASSUME NEW e \in Loud(g), NEW B \in Good
        PROVE  c.graph.edges[e].from \in h[B] <=> g.edges[e].from \in B
    <3>1. e \in DOMAIN g.edges
      BY <1>6
    <3>2. c.graph.edges[e].from = g.edges[e].from /\ g.edges[e].from \in g.nodes
      BY <1>2, <1>3, <3>1
    <3>3. QED
      BY <1>3, <1>5, <3>2
  <2>2. QED
    BY <1>3, <1>6, <2>1 DEF SameLoud
<1>8. Entries(b) \subseteq g.nodes
  BY <1>1, <1>2, <1>6 DEF Entries
<1>9. ASSUME NEW X \in SUBSET Entries(b)
      PROVE  /\ Closed(g, X) \in Good
             /\ h[Closed(g, X)] = Closed(c.graph, Image(k, X))
  <2> DEFINE C == Closed(g, X)
             D == Closed(c.graph, Image(k, X))
  <2>1. X \in SUBSET g.nodes
    BY <1>8, <1>9
  <2>2. /\ C \in SUBSET g.nodes /\ X \subseteq C /\ Keeps(g, Silent(g), C)
        /\ \A E \in SUBSET g.nodes : X \subseteq E /\ Keeps(g, Silent(g), E) => C \subseteq E
    BY <1>1, <2>1, ClosedIsLeast
  <2>3. Image(k, X) \in SUBSET c.graph.nodes
    <3> HIDE DEF k
    <3>1. QED
      BY <1>4, <2>1 DEF Image
  <2>4. /\ D \in SUBSET c.graph.nodes /\ Image(k, X) \subseteq D
        /\ Keeps(c.graph, Silent(c.graph), D)
        /\ \A E \in SUBSET c.graph.nodes :
             Image(k, X) \subseteq E /\ Keeps(c.graph, Silent(c.graph), E) => D \subseteq E
    BY <1>1, <2>3, ClosedIsLeast
  <2> HIDE DEF C, D
  <2>5. \A m \in C : m \in g.nodes /\ k[m] \in With(C)
    BY <1>4, <2>2
  <2>6. Image(k, X) \subseteq With(C)
    <3> HIDE DEF k, With
    <3>1. QED
      BY <2>2, <2>5 DEF Image
  <2>7. Keeps(c.graph, Silent(c.graph), With(C))
    <3>1. ASSUME NEW e \in Silent(c.graph), c.graph.edges[e].from \in With(C)
          PROVE  c.graph.edges[e].to \in With(C)
      <4>1. CASE e = q
        BY <1>3, <2>2, <3>1, <4>1
      <4>2. CASE e # q
        <5>1. e \in Silent(g) /\ e \in DOMAIN g.edges
          BY <1>6, <4>2 DEF Silent
        <5>2. g.edges[e].from \in C
          <6>1. c.graph.edges[e].from = g.edges[e].from /\ g.edges[e].from \in g.nodes
            BY <1>2, <1>3, <5>1
          <6>2. QED
            BY <1>3, <3>1, <6>1
        <5>3. g.edges[e].to \in C
          BY <2>2, <5>1, <5>2 DEF Keeps
        <5>4. QED
          BY <1>3, <2>5, <5>1, <5>3
      <4>3. QED
        BY <4>1, <4>2
    <3>2. QED
      BY <3>1 DEF Keeps
  <2>8. D \subseteq With(C)
    <3>1. With(C) \in SUBSET c.graph.nodes
      BY <1>3, <2>2
    <3>2. QED
      BY <2>4, <2>6, <2>7, <3>1
  <2>9. n \in D => v \in D
    BY <1>3, <1>6, <2>4 DEF Keeps
  <2>10. With(C) \subseteq D
    <3> DEFINE E == {m \in g.nodes : k[m] \in D}
    <3>1. X \subseteq E
      BY <2>1, <2>4 DEF Image
    <3>2. \A m \in E : m \in D
      BY <1>4, <2>9
    <3>3. ASSUME NEW e \in Silent(g), g.edges[e].from \in E
          PROVE  g.edges[e].to \in E
      <4>1. e \in DOMAIN g.edges /\ e \in Silent(c.graph)
        BY <1>6 DEF Silent
      <4>2. c.graph.edges[e].from \in D
        BY <1>3, <3>2, <3>3, <4>1
      <4>3. k[g.edges[e].to] \in D
        BY <1>3, <2>4, <4>1, <4>2 DEF Keeps
      <4>4. QED
        BY <1>2, <4>1, <4>3
    <3>4. Keeps(g, Silent(g), E)
      BY <3>3 DEF Keeps
    <3>5. C \subseteq E
      BY <2>2, <3>1, <3>4
    <3>6. QED
      BY <1>4, <2>2, <3>2, <3>5
  <2>11. h[C] = D
    BY <1>5, <2>2, <2>8, <2>10
  <2>12. C \in Good
    BY <2>2
  <2>13. QED
    BY <2>11, <2>12 DEF C, D
<1>10. SameClosed(b, c, k, h, Good)
  BY <1>9 DEF SameClosed
<1>11. h \in [SUBSET g.nodes -> SUBSET c.graph.nodes]
  BY <1>3
<1>12. \A B \in Good : b.final \in B <=> c.final \in h[B]
  BY <1>1, <1>3, <1>5
<1>13. Good \in SUBSET SUBSET g.nodes
  OBVIOUS
<1>14. k[b.initial] = c.initial
  BY <1>1, <1>4
<1> HIDE DEF k, h, Good
<1>15. QED
  BY <1>7, <1>10, <1>11, <1>12, <1>13, <1>14, ActionsMirrored

\* Nor is an epsilon edge.
LEMMA PutOffMirrors ==
  ASSUME NEW a, NEW b, NEW c, IsAutomaton(a), IsAutomaton(b), IsAutomaton(c),
         SameActions(a, b), NEW e \in DOMAIN b.graph.edges, NEW n, NEW f,
         EdgePutOff(b.graph, c.graph, b.graph.edges[e].from, e, n, f),
         c.initial = b.initial, c.final = b.final
  PROVE  SameActions(a, c)
<1> DEFINE g == b.graph
           u == g.edges[e].from
           k == [m \in g.nodes |-> m]
           With(B) == IF u \in B THEN B \cup {n} ELSE B
           h == [B \in SUBSET g.nodes |-> With(B)]
           Good == {B \in SUBSET g.nodes : Keeps(g, Silent(g), B)}
<1>1. WellFormed(g) /\ WellFormed(c.graph) /\ b.initial \in g.nodes /\ b.final \in g.nodes
  BY DEF IsAutomaton
<1>2. \A d \in DOMAIN g.edges : g.edges[d].from \in g.nodes /\ g.edges[d].to \in g.nodes
  BY <1>1 DEF WellFormed, EndsExist
<1>3. /\ n \notin g.nodes /\ c.graph.nodes = g.nodes \cup {n}
      /\ f \notin DOMAIN g.edges /\ DOMAIN c.graph.edges = DOMAIN g.edges \cup {f}
      /\ c.graph.edges[f].from = u /\ c.graph.edges[f].act.type = "backward"
      /\ c.graph.edges[f].to = n
      /\ \A d \in DOMAIN g.edges :
           /\ c.graph.edges[d].act = g.edges[d].act
           /\ c.graph.edges[d].from = IF d = e THEN n ELSE g.edges[d].from
           /\ c.graph.edges[d].to = g.edges[d].to
  BY <1>2 DEF EdgePutOff
<1>4. \A m \in g.nodes : k[m] = m
  OBVIOUS
<1>5. \A B \in SUBSET g.nodes : h[B] = With(B)
  OBVIOUS
<1>6. /\ Silent(c.graph) = Silent(g) \cup {f}
      /\ Loud(c.graph) = Loud(g) /\ Loud(g) \subseteq DOMAIN g.edges
  <2>1. "backward" \in NoEffect
    BY DEF NoEffect
  <2>2. Silent(c.graph) = Silent(g) \cup {f}
    BY <1>3, <2>1 DEF Silent
  <2>3. QED
    BY <1>3, <2>2 DEF Loud
<1>7. SameLoud(b, c, k, h, Good)
  <2>1. ASSUME NEW d \in Loud(g), NEW B \in Good
        PROVE  c.graph.edges[d].from \in h[B] <=> g.edges[d].from \in B
    BY <1>2, <1>3, <1>5, <1>6
  <2>2. QED
    BY <1>2, <1>3, <1>4, <1>6, <2>1 DEF SameLoud
<1>8. Entries(b) \subseteq g.nodes
  BY <1>1, <1>2, <1>6 DEF Entries
<1>9. ASSUME NEW X \in SUBSET Entries(b)
      PROVE  /\ Closed(g, X) \in Good
             /\ h[Closed(g, X)] = Closed(c.graph, Image(k, X))
  <2> DEFINE C == Closed(g, X)
             D == Closed(c.graph, X)
  <2>1. X \in SUBSET g.nodes /\ X \in SUBSET c.graph.nodes
    BY <1>3, <1>8, <1>9
  <2>2. /\ C \in SUBSET g.nodes /\ X \subseteq C /\ Keeps(g, Silent(g), C)
        /\ \A E \in SUBSET g.nodes : X \subseteq E /\ Keeps(g, Silent(g), E) => C \subseteq E
    BY <1>1, <2>1, ClosedIsLeast
  <2>3. Image(k, X) = X
    <3> HIDE DEF k
    <3>1. QED
      BY <1>4, <2>1 DEF Image
  <2>4. /\ D \in SUBSET c.graph.nodes /\ X \subseteq D
        /\ Keeps(c.graph, Silent(c.graph), D)
        /\ \A E \in SUBSET c.graph.nodes :
             X \subseteq E /\ Keeps(c.graph, Silent(c.graph), E) => D \subseteq E
    BY <1>1, <2>1, ClosedIsLeast
  <2> HIDE DEF C, D
  <2>5. Keeps(c.graph, Silent(c.graph), With(C))
    <3>1. ASSUME NEW d \in Silent(c.graph), c.graph.edges[d].from \in With(C)
          PROVE  c.graph.edges[d].to \in With(C)
      <4>1. CASE d = f
        BY <1>2, <1>3, <2>2, <3>1, <4>1
      <4>2. CASE d # f
        <5>1. d \in Silent(g) /\ d \in DOMAIN g.edges
          BY <1>6, <4>2 DEF Silent
        <5>2. g.edges[d].from \in C
          BY <1>2, <1>3, <2>2, <3>1, <5>1
        <5>3. g.edges[d].to \in C
          BY <2>2, <5>1, <5>2 DEF Keeps
        <5>4. QED
          BY <1>3, <5>1, <5>3
      <4>3. QED
        BY <4>1, <4>2
    <3>2. QED
      BY <3>1 DEF Keeps
  <2>6. D \subseteq With(C)
    <3>1. With(C) \in SUBSET c.graph.nodes /\ X \subseteq With(C)
      BY <1>3, <2>2
    <3>2. QED
      BY <2>4, <2>5, <3>1
  <2>7. u \in D => n \in D
    BY <1>3, <1>6, <2>4 DEF Keeps
  <2>8. With(C) \subseteq D
    <3>1. X \subseteq D \cap g.nodes
      BY <2>1, <2>4
    <3>2. ASSUME NEW d \in Silent(g), g.edges[d].from \in D
          PROVE  g.edges[d].to \in D \cap g.nodes
      <4>1. d \in DOMAIN g.edges /\ d \in Silent(c.graph)
        BY <1>6 DEF Silent
      <4>2. c.graph.edges[d].from \in D
        BY <1>3, <2>7, <3>2, <4>1
      <4>3. g.edges[d].to \in D
        BY <1>3, <2>4, <4>1, <4>2 DEF Keeps
      <4>4. QED
        BY <1>2, <4>1, <4>3
    <3>3. Keeps(g, Silent(g), D \cap g.nodes)
      BY <3>2 DEF Keeps
    <3>4. C \subseteq D
      BY <2>2, <3>1, <3>3
    <3>5. QED
      BY <2>7, <3>4
  <2>9. h[C] = D
    BY <1>5, <2>2, <2>6, <2>8
  <2>10. C \in Good
    BY <2>2
  <2>11. QED
    BY <2>3, <2>9, <2>10 DEF C, D
<1>10. SameClosed(b, c, k, h, Good)
  BY <1>9 DEF SameClosed
<1>11. h \in [SUBSET g.nodes -> SUBSET c.graph.nodes]
  BY <1>3
<1>12. \A B \in Good : b.final \in B <=> c.final \in h[B]
  BY <1>1, <1>3, <1>5
<1>13. Good \in SUBSET SUBSET g.nodes
  OBVIOUS
<1>14. k[b.initial] = c.initial
  BY <1>1, <1>4
<1> HIDE DEF k, h, Good
<1>15. QED
  BY <1>7, <1>10, <1>11, <1>12, <1>13, <1>14, ActionsMirrored

\* Nor is a second epsilon edge between two nodes.
LEMMA FewerMirror ==
  ASSUME NEW a, NEW b, NEW c, IsAutomaton(a), IsAutomaton(b), IsAutomaton(c),
         SameActions(a, b), SomeLeft(b.graph, c.graph),
         c.initial = b.initial, c.final = b.final
  PROVE  SameActions(a, c)
<1> DEFINE g == b.graph
           k == [m \in g.nodes |-> m]
           h == [B \in SUBSET g.nodes |-> B]
           Good == SUBSET g.nodes
<1>1. WellFormed(g) /\ WellFormed(c.graph) /\ b.initial \in g.nodes
  BY DEF IsAutomaton
<1>2. \A d \in DOMAIN g.edges : g.edges[d].from \in g.nodes /\ g.edges[d].to \in g.nodes
  BY <1>1 DEF WellFormed, EndsExist
<1>3. /\ c.graph.nodes = g.nodes
      /\ Silent(c.graph) = Silent(g) \cap DOMAIN c.graph.edges
      /\ Loud(c.graph) = Loud(g) /\ Loud(g) \subseteq DOMAIN g.edges
      /\ Loud(g) \subseteq DOMAIN c.graph.edges
  <2>1. Silent(c.graph) = Silent(g) \cap DOMAIN c.graph.edges
    BY DEF SomeLeft, Silent
  <2>2. QED
    BY <2>1 DEF Loud, SomeLeft
<1>4. \A m \in g.nodes : k[m] = m
  OBVIOUS
<1>5. \A B \in SUBSET g.nodes : h[B] = B
  OBVIOUS
<1>6. SameLoud(b, c, k, h, Good)
  <2>1. \A d \in Loud(g) : c.graph.edges[d] = g.edges[d]
    BY <1>3 DEF SomeLeft
  <2>2. QED
    BY <1>2, <1>3, <1>4, <1>5, <2>1 DEF SameLoud
<1>7. Entries(b) \subseteq g.nodes
  BY <1>1, <1>2, <1>3 DEF Entries
<1>8. \A E : Keeps(g, Silent(g), E) <=> Keeps(c.graph, Silent(c.graph), E)
  <2>1. ASSUME NEW E, Keeps(g, Silent(g), E)
        PROVE  Keeps(c.graph, Silent(c.graph), E)
    BY <1>3, <2>1 DEF Keeps, SomeLeft
  <2>2. ASSUME NEW E, Keeps(c.graph, Silent(c.graph), E), NEW d \in Silent(g),
               g.edges[d].from \in E
        PROVE  g.edges[d].to \in E
    <3>1. PICK j \in Silent(c.graph) :
            /\ c.graph.edges[j].from = g.edges[d].from
            /\ c.graph.edges[j].to = g.edges[d].to
      BY <1>3 DEF SomeLeft, Silent
    <3>2. QED
      BY <2>2, <3>1 DEF Keeps
  <2>3. QED
    BY <2>1, <2>2 DEF Keeps
<1>9. ASSUME NEW X \in SUBSET Entries(b)
      PROVE  /\ Closed(g, X) \in Good
             /\ h[Closed(g, X)] = Closed(c.graph, Image(k, X))
  <2> DEFINE C == Closed(g, X)
             D == Closed(c.graph, X)
  <2>1. X \in SUBSET g.nodes /\ X \in SUBSET c.graph.nodes
    BY <1>3, <1>7, <1>9
  <2>2. /\ C \in SUBSET g.nodes /\ X \subseteq C /\ Keeps(g, Silent(g), C)
        /\ \A E \in SUBSET g.nodes : X \subseteq E /\ Keeps(g, Silent(g), E) => C \subseteq E
    BY <1>1, <2>1, ClosedIsLeast
  <2>3. /\ D \in SUBSET c.graph.nodes /\ X \subseteq D
        /\ Keeps(c.graph, Silent(c.graph), D)
        /\ \A E \in SUBSET c.graph.nodes :
             X \subseteq E /\ Keeps(c.graph, Silent(c.graph), E) => D \subseteq E
    BY <1>1, <2>1, ClosedIsLeast
  <2>4. Image(k, X) = X
    <3> HIDE DEF k
    <3>1. QED
      BY <1>4, <2>1 DEF Image
  <2> HIDE DEF C, D
  <2>5. C = D
    BY <1>3, <1>8, <2>2, <2>3
  <2>6. h[C] = D
    BY <1>5, <2>2, <2>5
  <2>7. QED
    BY <2>2, <2>4, <2>6 DEF C, D
<1>10. SameClosed(b, c, k, h, Good)
  BY <1>9 DEF SameClosed
<1>11. h \in [SUBSET g.nodes -> SUBSET c.graph.nodes]
  BY <1>3
<1>12. \A B \in Good : b.final \in B <=> c.final \in h[B]
  BY <1>5
<1>13. k[b.initial] = c.initial
  BY <1>1, <1>4
<1>14. Good \in SUBSET SUBSET g.nodes
  OBVIOUS
<1> HIDE DEF k, h, Good
<1>15. QED
  BY <1>6, <1>10, <1>11, <1>12, <1>13, <1>14, ActionsMirrored

----
\* The operations do this to the edges.
LEMMA NoopErasedContracts ==
  ASSUME NEW g, WellFormed(g), NEW t \in DOMAIN g.edges, g.edges[t].from # g.edges[t].to
  PROVE  Contracted(g, EraseEdge(MergeWithNode(g, g.edges[t].to, g.edges[t].from), t), t)
<1> DEFINE x == g.edges[t].from
           y == g.edges[t].to
           merged == MergeWithNode(g, y, x)
           h == EraseEdges(merged, {t})
<1>1. x \in g.nodes /\ y \in g.nodes
  BY DEF WellFormed, EndsExist
<1>2. WellFormed(merged) /\ merged.nodes = g.nodes \ {x} /\ merged.edges = EndsMoved(g, x, y)
  BY <1>1, MergeContracts
<1> HIDE DEF merged
<1>3. h.nodes = merged.nodes /\ h.edges = OtherEdges(merged, {t})
  BY <1>2, EraseEdgesWellFormed
<1> HIDE DEF h
<1>4. DOMAIN merged.edges = DOMAIN g.edges /\ DOMAIN h.edges = DOMAIN g.edges \ {t}
  BY <1>2, <1>3 DEF EndsMoved, OtherEdges
<1>5. ASSUME NEW e \in DOMAIN h.edges
      PROVE  /\ h.edges[e].act = g.edges[e].act
             /\ h.edges[e].from = IF g.edges[e].from = x THEN y ELSE g.edges[e].from
             /\ h.edges[e].to = IF g.edges[e].to = x THEN y ELSE g.edges[e].to
  <2>1. h.edges[e] = merged.edges[e]
    BY <1>3, <1>4 DEF OtherEdges
  <2>2. QED
    BY <1>2, <1>4, <2>1 DEF EndsMoved
<1>6. Contracted(g, h, t)
  BY <1>2, <1>3, <1>4, <1>5 DEF Contracted
<1>7. QED
  BY <1>6 DEF h, merged, EraseEdge

\* AddEdge changes no other edge.
LEMMA AddedEdge ==
  ASSUME NEW g, WellFormed(g), NEW from, NEW act, NEW to
  PROVE  /\ g.lastEdge + 1 \notin DOMAIN g.edges
         /\ AddEdge(g, from, act, to).nodes = g.nodes
         /\ AddEdge(g, from, act, to).edges =
              [x \in DOMAIN g.edges \cup {g.lastEdge + 1} |->
                 IF x = g.lastEdge + 1 THEN [from |-> from, act |-> act, to |-> to]
                 ELSE g.edges[x]]
<1>1. g.lastEdge + 1 \notin DOMAIN g.edges
  BY DEF WellFormed, IdsFresh, Shaped
<1>2. QED
  BY <1>1 DEF AddEdge

\* AddVisitedChecks puts a check before a node.
LEMMA CheckAddedPuts ==
  ASSUME WellFormed(graph), NEW v \in graph.nodes
  PROVE  CheckPut(graph, VisitedCheckAdded(v), v, graph.lastNode + 1, graph.lastEdge + 1)
<1> DEFINE entered == NewNode(graph)
           n       == graph.lastNode + 1
           c       == graph.lastEdge + 1
           led     == ChangeEdgeTargets(entered, v, n)
           h       == AddEdge(led, n, [type |-> "visited"], v)
<1>1. /\ WellFormed(entered) /\ entered.lastNode = n /\ n \notin graph.nodes
      /\ entered.nodes = graph.nodes \cup {n} /\ entered.edges = graph.edges
  BY NewNodeWellFormed
<1>2. VisitedCheckAdded(v) = h
  BY <1>1 DEF VisitedCheckAdded
<1>3. entered.lastEdge = graph.lastEdge
  BY DEF NewNode
<1> HIDE DEF entered, n
<1>4. v \in entered.nodes /\ n \in entered.nodes
  BY <1>1
<1>5. WellFormed(led) /\ led.nodes = entered.nodes /\ led.edges = TargetsMoved(entered, v, n)
  BY <1>1, <1>4, ChangeEdgeTargetsWellFormed
<1>6. led.lastEdge = graph.lastEdge
  BY <1>3 DEF ChangeEdgeTargets
<1> HIDE DEF led
<1>7. /\ c \notin DOMAIN led.edges /\ h.nodes = led.nodes
      /\ h.edges = [x \in DOMAIN led.edges \cup {c} |->
                      IF x = c THEN [from |-> n, act |-> [type |-> "visited"], to |-> v]
                      ELSE led.edges[x]]
  BY <1>5, <1>6, AddedEdge
<1> HIDE DEF h, c
<1>8. /\ DOMAIN led.edges = DOMAIN graph.edges
      /\ \A e \in DOMAIN graph.edges :
           /\ led.edges[e].act = graph.edges[e].act
           /\ led.edges[e].from = graph.edges[e].from
           /\ led.edges[e].to = IF graph.edges[e].to = v THEN n ELSE graph.edges[e].to
  BY <1>1, <1>5 DEF TargetsMoved
<1>9. CheckPut(graph, h, v, n, c)
  BY <1>1, <1>5, <1>7, <1>8 DEF CheckPut
<1>10. QED
  BY <1>2, <1>9 DEF n, c

\* HandleMultipleOutNodes puts an edge off to a new node.
LEMMA MovedPutsOff ==
  ASSUME WellFormed(graph), NEW e \in DOMAIN graph.edges, NEW u, graph.edges[e].from = u
  PROVE  EdgePutOff(graph, MovedToNewNode(u, e), u, e, graph.lastNode + 1, graph.lastEdge + 1)
<1> DEFINE new   == NewNode(graph)
           n     == graph.lastNode + 1
           f     == graph.lastEdge + 1
           added == AddEdge(new, u, BackwardEmpty, n)
           h     == ChangeEdgeSource(added, e, n)
<1>1. /\ WellFormed(new) /\ new.lastNode = n /\ n \notin graph.nodes
      /\ new.nodes = graph.nodes \cup {n} /\ new.edges = graph.edges
  BY NewNodeWellFormed
<1>2. MovedToNewNode(u, e) = h
  BY <1>1 DEF MovedToNewNode
<1>3. new.lastEdge = graph.lastEdge
  BY DEF NewNode
<1> HIDE DEF new, n
<1>4. /\ f \notin DOMAIN graph.edges /\ added.nodes = new.nodes
      /\ added.edges = [x \in DOMAIN graph.edges \cup {f} |->
                          IF x = f THEN [from |-> u, act |-> BackwardEmpty, to |-> n]
                          ELSE graph.edges[x]]
  BY <1>1, <1>3, AddedEdge
<1> HIDE DEF added, f
<1>5. h.nodes = added.nodes /\ h.edges = [added.edges EXCEPT ![e] = [@ EXCEPT !.from = n]]
  BY DEF ChangeEdgeSource
<1> HIDE DEF h
<1>6. graph.edges[e] = [from |-> graph.edges[e].from, act |-> graph.edges[e].act,
                        to |-> graph.edges[e].to]
  BY DEF WellFormed, Shaped
<1>7. /\ DOMAIN h.edges = DOMAIN graph.edges \cup {f}
      /\ h.edges[f] = [from |-> u, act |-> BackwardEmpty, to |-> n]
      /\ h.edges[e] = [from |-> n, act |-> graph.edges[e].act, to |-> graph.edges[e].to]
      /\ \A d \in DOMAIN graph.edges \ {e} : h.edges[d] = graph.edges[d]
  BY <1>4, <1>5, <1>6
<1>8. EdgePutOff(graph, h, u, e, n, f)
  BY <1>1, <1>4, <1>5, <1>7 DEF EdgePutOff, BackwardEmpty
<1>9. QED
  BY <1>2, <1>8 DEF n, f

\* Of the edges between two nodes the first in the list is left.
LEMMA DuplicatesLeaveSome ==
  ASSUME WellFormed(graph), NEW u \in graph.nodes, Effective(u) = {}
  PROVE  SomeLeft(graph, EraseEdges(graph, Duplicates(u)))
<1> DEFINE h == EraseEdges(graph, Duplicates(u))
           D == DOMAIN graph.outs[u]
<1>1. h.nodes = graph.nodes /\ h.edges = OtherEdges(graph, Duplicates(u))
  BY EraseEdgesWellFormed
<1> HIDE DEF h
<1>2. D = {x \in DOMAIN graph.edges : graph.edges[x].from = u}
  BY DEF WellFormed, ListsAgree
<1>3. \A x \in D : graph.outs[u][x] \in Nat
  <2>1. graph.lastPlace \in Nat
    BY DEF WellFormed, Shaped
  <2>2. \A x \in D : graph.outs[u][x] \in 1 .. graph.lastPlace
    BY DEF WellFormed, PlacesDiffer
  <2>3. QED
    BY <2>1, <2>2
<1> HIDE DEF D
<1>4. D \subseteq Silent(graph)
  BY <1>2 DEF Effective, IsEmpty, ForwardEmpty, BackwardEmpty, Silent, NoEffect, D
<1>5. DOMAIN h.edges = DOMAIN graph.edges \ Duplicates(u)
  BY <1>1 DEF OtherEdges
<1>6. ASSUME NEW e \in DOMAIN graph.edges \ DOMAIN h.edges
      PROVE  /\ e \in Silent(graph)
             /\ \E d \in Silent(graph) \cap DOMAIN h.edges :
                  /\ graph.edges[d].from = graph.edges[e].from
                  /\ graph.edges[d].to = graph.edges[e].to
  <2> DEFINE S == {x \in D : graph.edges[x].to = graph.edges[e].to}
             d == First(graph.outs[u], S)
  <2>1. e \in D
    BY <1>5, <1>6 DEF Duplicates, D
  <2>2. d \in S /\ \A x \in S : graph.outs[u][d] <= graph.outs[u][x]
    <3>1. S # {} /\ \A x \in S : graph.outs[u][x] \in Nat
      BY <1>3, <2>1
    <3> HIDE DEF S
    <3>2. QED
      BY <3>1, FirstIsMember
  <2> HIDE DEF d
  <2>3. d \notin Duplicates(u)
    BY <1>3, <2>2 DEF Duplicates, D
  <2>4. QED
    BY <1>2, <1>4, <1>5, <2>1, <2>2, <2>3
<1>7. SomeLeft(graph, h)
  BY <1>1, <1>5, <1>6 DEF SomeLeft, OtherEdges
<1>8. QED
  BY <1>7 DEF h

----
(***************************************************************************)
(* The dots of EraseNoops.  Each is contracted, and that keeps the actions *)
(* if it is the only edge from its first node or into its last.  P holds   *)
(* the nodes whose dots must be the latter: where the rules begin, where   *)
(* they branch, and what dots alone lead to from there.                    *)
(***************************************************************************)
\* Another edge leaves, or enters, the same node.
Branches(g, t) == \E e \in DOMAIN g.edges \ {t} : g.edges[e].from = g.edges[t].from
Joins(g, t)    == \E e \in DOMAIN g.edges \ {t} : g.edges[e].to = g.edges[t].to

Parted(g, first, last, P) ==
  /\ P \in SUBSET g.nodes /\ first \in P /\ last \in g.nodes \ P
  /\ \A e \in DOMAIN g.edges : g.edges[e].to # first /\ g.edges[e].from # last
  /\ \A t \in GetNoops(g) : g.edges[t].from \in P \/ Branches(g, t)
                               => g.edges[t].to \in P /\ ~Joins(g, t)

\* Contracting one dot leaves the others parted.
LEMMA ContractionParts ==
  ASSUME NEW g, NEW h, NEW first, NEW last, NEW P, WellFormed(g), Parted(g, first, last, P),
         NEW t \in GetNoops(g), g.edges[t].from # g.edges[t].to, Contracted(g, h, t)
  PROVE  /\ Parted(h, IF g.edges[t].from = first THEN g.edges[t].to ELSE first, last,
                   P \ {g.edges[t].from})
         /\ GetNoops(h) = GetNoops(g) \ {t}
<1> DEFINE x == g.edges[t].from
           y == g.edges[t].to
           start == IF x = first THEN y ELSE first
<1>1. /\ t \in DOMAIN g.edges /\ x # y /\ x \in g.nodes /\ y \in g.nodes
      /\ \A e \in DOMAIN g.edges : g.edges[e].from \in g.nodes /\ g.edges[e].to \in g.nodes
  BY DEF GetNoops, WellFormed, EndsExist
<1>2. /\ h.nodes = g.nodes \ {x}
      /\ DOMAIN h.edges = DOMAIN g.edges \ {t}
      /\ \A e \in DOMAIN g.edges \ {t} :
           /\ h.edges[e].act = g.edges[e].act
           /\ h.edges[e].from = IF g.edges[e].from = x THEN y ELSE g.edges[e].from
           /\ h.edges[e].to = IF g.edges[e].to = x THEN y ELSE g.edges[e].to
  BY DEF Contracted
<1>3. GetNoops(h) = GetNoops(g) \ {t}
  BY <1>2 DEF GetNoops
<1>4. /\ P \in SUBSET g.nodes /\ first \in P /\ last \in g.nodes /\ last \notin P
      /\ \A e \in DOMAIN g.edges : g.edges[e].to # first /\ g.edges[e].from # last
  BY DEF Parted
<1>5. \A e \in GetNoops(g) : g.edges[e].from \in P \/ Branches(g, e)
                                => g.edges[e].to \in P /\ ~Joins(g, e)
  BY DEF Parted
<1>6. x \in P \/ Branches(g, t) => y \in P /\ ~Joins(g, t)
  BY <1>5
<1>7. x # last /\ y # first
  BY <1>1, <1>4
<1>8. start \in P \ {x} /\ last \in h.nodes \ (P \ {x})
  BY <1>1, <1>2, <1>4, <1>6, <1>7
<1>9. ASSUME NEW e \in DOMAIN h.edges
      PROVE  h.edges[e].to # start /\ h.edges[e].from # last
  <2>1. e \in DOMAIN g.edges /\ e # t /\ g.edges[e].to # first /\ g.edges[e].from # last
    BY <1>2, <1>4
  <2>2. h.edges[e].to # start
    <3>1. CASE x = first
      <4>1. g.edges[e].to # y
        BY <1>4, <1>6, <2>1, <3>1 DEF Joins
      <4>2. QED
        BY <1>2, <2>1, <3>1, <4>1
    <3>2. CASE x # first
      BY <1>2, <1>7, <2>1, <3>2
    <3>3. QED
      BY <3>1, <3>2
  <2>3. h.edges[e].from # last
    <3>1. g.edges[e].from = x => y \in P
      BY <1>6, <2>1 DEF Branches
    <3>2. QED
      BY <1>2, <1>4, <2>1, <3>1
  <2>4. QED
    BY <2>2, <2>3
<1>10. ASSUME NEW e \in GetNoops(h), h.edges[e].from \in P \ {x} \/ Branches(h, e)
       PROVE  h.edges[e].to \in P \ {x} /\ ~Joins(h, e)
  <2>1. e \in GetNoops(g) /\ e # t /\ e \in DOMAIN g.edges
    BY <1>3 DEF GetNoops
  <2>2. g.edges[e].from \in P \/ Branches(g, e)
    <3>1. CASE g.edges[e].from = x
      BY <1>1, <2>1, <3>1 DEF Branches
    <3>2. CASE g.edges[e].from # x /\ h.edges[e].from \in P
      BY <1>2, <2>1, <3>2
    <3>3. CASE g.edges[e].from # x /\ Branches(h, e)
      <4>1. PICK d \in DOMAIN h.edges \ {e} : h.edges[d].from = h.edges[e].from
        BY <3>3 DEF Branches
      <4>2. d \in DOMAIN g.edges /\ d # t /\ d # e
        BY <1>2, <4>1
      <4>3. CASE g.edges[d].from # x
        BY <1>2, <2>1, <3>3, <4>1, <4>2, <4>3 DEF Branches
      <4>4. CASE g.edges[d].from = x
        <5>1. Branches(g, t) /\ g.edges[e].from = y
          BY <1>2, <2>1, <3>3, <4>1, <4>2, <4>4 DEF Branches
        <5>2. QED
          BY <1>6, <5>1
      <4>5. QED
        BY <4>3, <4>4
    <3>4. QED
      BY <1>10, <3>1, <3>2, <3>3
  <2>3. g.edges[e].to \in P /\ ~Joins(g, e)
    BY <1>5, <2>1, <2>2
  <2>4. g.edges[e].to # y
    BY <1>1, <2>1, <2>3 DEF Joins
  <2>5. g.edges[e].to = x => y \in P /\ ~Joins(g, t)
    BY <1>6, <2>3
  <2>6. h.edges[e].to \in P \ {x}
    BY <1>1, <1>2, <2>1, <2>3, <2>5
  <2>7. ASSUME NEW d \in DOMAIN h.edges \ {e}, h.edges[d].to = h.edges[e].to
        PROVE  FALSE
    <3>1. d \in DOMAIN g.edges /\ d # t /\ d # e /\ g.edges[d].to # g.edges[e].to
      BY <1>2, <2>3 DEF Joins
    <3>2. QED
      BY <1>1, <1>2, <2>1, <2>4, <2>5, <2>7, <3>1 DEF Joins
  <2>8. QED
    BY <2>6, <2>7 DEF Joins
<1>11. P \ {x} \in SUBSET h.nodes
  BY <1>2, <1>4
<1>12. Parted(h, start, last, P \ {x})
  BY <1>8, <1>9, <1>10, <1>11 DEF Parted
<1>13. QED
  BY <1>3, <1>12

----
\* A graph has finitely many edges.
LEMMA EdgesFinite ==
  ASSUME NEW g, WellFormed(g), NEW S \in SUBSET DOMAIN g.edges
  PROVE  IsFiniteSet(S)
<1>1. g.lastEdge \in Nat /\ S \subseteq 1 .. g.lastEdge
  BY DEF WellFormed, Shaped, IdsFresh
<1>2. IsFiniteSet(1 .. g.lastEdge)
  BY <1>1, FS_Interval
<1>3. QED
  BY <1>1, <1>2, FS_Subset

\* A set with two members has more than one.
LEMMA TwoMembers ==
  ASSUME NEW D, IsFiniteSet(D), NEW e \in D, NEW d \in D, e # d
  PROVE  Cardinality(D) > 1
<1>1. IsFiniteSet({e}) /\ Cardinality({e}) = 1
  BY FS_Singleton
<1>2. Cardinality({e} \cup {d}) = 2
  BY <1>1, FS_AddElement
<1>3. {e} \cup {d} \subseteq D
  OBVIOUS
<1>4. Cardinality({e} \cup {d}) <= Cardinality(D) /\ Cardinality(D) \in Nat
  BY <1>3, FS_Subset, FS_CardinalityType
<1>5. QED
  BY <1>2, <1>4

\* A node from which two edges leave is a branch.
LEMMA TwoLeave ==
  ASSUME NEW g, WellFormed(g), NEW t \in DOMAIN g.edges, Branches(g, t)
  PROVE  Cardinality(DOMAIN g.outs[g.edges[t].from]) > 1
<1> DEFINE D == DOMAIN g.outs[g.edges[t].from]
<1>1. PICK e \in DOMAIN g.edges \ {t} : g.edges[e].from = g.edges[t].from
  BY DEF Branches
<1>2. D = {x \in DOMAIN g.edges : g.edges[x].from = g.edges[t].from}
  BY DEF WellFormed, ListsAgree, EndsExist
<1> HIDE DEF D
<1>3. IsFiniteSet(D) /\ e \in D /\ t \in D /\ e # t
  BY <1>1, <1>2, EdgesFinite
<1>4. Cardinality(D) > 1
  BY <1>3, TwoMembers
<1>5. QED
  BY <1>4 DEF D

\* Thompson's automata are parted if their dots are apart.
LEMMA ApartIsParted ==
  ASSUME NEW a, IsAutomaton(a), HasEnds(a), DotsApart(a)
  PROVE  \E P : Parted(a.graph, a.initial, a.final, P)
<1> DEFINE g == a.graph
           branching == {n \in g.nodes : Cardinality(DOMAIN g.outs[n]) > 1}
           S == branching \cup {a.initial}
           P == Led(g, GetNoops(g), S)
<1>1. WellFormed(g) /\ a.initial \in g.nodes /\ a.final \in g.nodes
  BY DEF IsAutomaton
<1>2. S \in SUBSET g.nodes /\ GetNoops(g) \in SUBSET DOMAIN g.edges
  BY <1>1 DEF GetNoops
<1>3. \A t \in GetNoops(g) :
        g.edges[t].from \in P => g.ins[g.edges[t].to] = {t} /\ g.edges[t].to # a.final
  BY DEF DotsApart
<1> HIDE DEF S
<1>4. /\ P \in SUBSET g.nodes /\ S \subseteq P /\ Keeps(g, GetNoops(g), P)
      /\ \A D \in SUBSET g.nodes : S \subseteq D /\ Keeps(g, GetNoops(g), D) => P \subseteq D
  BY <1>1, <1>2, LedIsLeast
<1> HIDE DEF P
<1>5. /\ DOMAIN g.outs[a.final] = {e \in DOMAIN g.edges : g.edges[e].from = a.final}
      /\ g.ins[a.initial] = {e \in DOMAIN g.edges : g.edges[e].to = a.initial}
      /\ \A e \in DOMAIN g.edges :
           /\ g.ins[g.edges[e].to] = {d \in DOMAIN g.edges : g.edges[d].to = g.edges[e].to}
           /\ g.edges[e].from \in g.nodes
  BY <1>1 DEF WellFormed, ListsAgree, EndsExist
<1>6. \A e \in DOMAIN g.edges : g.edges[e].to # a.initial /\ g.edges[e].from # a.final
  BY <1>5 DEF HasEnds
<1>7. a.final \notin S
  <2>1. Cardinality(DOMAIN g.outs[a.final]) = 0
    BY FS_EmptySet DEF HasEnds
  <2>2. a.initial # a.final
    BY DEF HasEnds
  <2>3. QED
    BY <2>1, <2>2 DEF S
<1>8. a.final \notin P
  <2>1. Keeps(g, GetNoops(g), P \ {a.final})
    BY <1>3, <1>4 DEF Keeps
  <2>2. S \subseteq P \ {a.final} /\ P \ {a.final} \in SUBSET g.nodes
    BY <1>4, <1>7
  <2>3. P \subseteq P \ {a.final}
    BY <1>4, <2>1, <2>2
  <2>4. QED
    BY <2>3
<1>9. ASSUME NEW t \in GetNoops(g), g.edges[t].from \in P \/ Branches(g, t)
      PROVE  g.edges[t].to \in P /\ ~Joins(g, t)
  <2>1. t \in DOMAIN g.edges
    BY <1>2
  <2>2. Branches(g, t) => g.edges[t].from \in S
    BY <1>1, <1>5, <2>1, TwoLeave DEF S
  <2>3. g.edges[t].from \in P
    BY <1>4, <1>9, <2>2
  <2>4. g.edges[t].to \in P
    BY <1>4, <2>3 DEF Keeps
  <2>5. ~Joins(g, t)
    BY <1>3, <1>5, <2>1, <2>3 DEF Joins
  <2>6. QED
    BY <2>4, <2>5
<1>10. a.initial \in P
  BY <1>4 DEF S
<1>11. Parted(g, a.initial, a.final, P)
  BY <1>1, <1>4, <1>6, <1>8, <1>9, <1>10 DEF Parted
<1>12. QED
  BY <1>11

\* An automaton allows what it allows.
LEMMA ActionsOfItself ==
  ASSUME NEW a, IsAutomaton(a)
  PROVE  SameActions(a, a)
<1> DEFINE Z == {<<A, A>> : A \in SUBSET a.graph.nodes}
<1>1. Z \in SUBSET NodePairs(a, a)
  BY DEF NodePairs
<1>2. <<Start(a), Start(a)>> \in Z
  BY StartIsNodes
<1>3. Follows(a, a, Z)
  <2>1. WellFormed(a.graph)
    BY DEF IsAutomaton
  <2>2. ASSUME NEW r \in Z, NEW act
        PROVE  <<Stepped(a.graph, r[1], act), Stepped(a.graph, r[2], act)>> \in Z
    <3>1. r[1] = r[2]
      OBVIOUS
    <3>2. Stepped(a.graph, r[1], act) \in SUBSET a.graph.nodes
      BY <2>1, TargetsAreNodes
    <3>3. QED
      BY <3>1, <3>2
  <2>3. QED
    BY <2>2 DEF Follows
<1>4. Pairs(a, a) \subseteq Z
  BY <1>1, <1>2, <1>3, PairsAreLeast
<1>5. QED
  BY <1>4 DEF SameActions

----
(***************************************************************************)
(* The inductive invariant of the actions kept: the automaton allows what  *)
(* the one given allowed, and what is left of the dots is parted.          *)
(***************************************************************************)
ActionsInv ==
  /\ NfaInv
  /\ source \in Automata
  /\ pass # "broken" => IsAutomaton(Current) /\ SameActions(source, Current)
  /\ pass = "noops" => /\ \E P : Parted(graph, initial, final, P)
                       /\ todo \subseteq GetNoops(graph)
  /\ pass = "visited" => initial \in visited

\* Nothing is changed at first.
LEMMA ActionsInvInit == DotsApart(source) /\ Init => ActionsInv
<1> SUFFICES ASSUME DotsApart(source), Init PROVE ActionsInv
  OBVIOUS
<1>1. /\ IsAutomaton(source) /\ HasEnds(source) /\ DotsApart(source)
      /\ graph = source.graph /\ initial = source.initial /\ final = source.final
  BY AutomataAssumption, EndsAssumption DEF Init
<1>2. /\ Current.graph = source.graph /\ Current.initial = source.initial
      /\ Current.final = source.final
  BY <1>1 DEF Current
<1>3. IsAutomaton(Current)
  BY <1>1, <1>2 DEF IsAutomaton
<1>4. SameActions(source, Current)
  <2>1. SomeLeft(source.graph, Current.graph)
    BY <1>2 DEF SomeLeft
  <2>2. SameActions(source, source)
    BY <1>1, ActionsOfItself
  <2>3. QED
    BY <1>1, <1>2, <1>3, <2>1, <2>2, FewerMirror
<1>5. \E P : Parted(graph, initial, final, P)
  BY <1>1, ApartIsParted
<1>6. pass = "noops" => todo \subseteq GetNoops(graph)
  BY DEF Init
<1>7. NfaInv /\ pass # "visited" /\ source \in Automata
  BY NfaInvInit DEF Init
<1>8. QED
  BY <1>3, <1>4, <1>5, <1>6, <1>7 DEF ActionsInv

\* A step that leaves the automaton as it is.
LEMMA SameAutomaton ==
  ASSUME ActionsInv, pass # "broken", UNCHANGED <<source, graph, initial, final>>
  PROVE  IsAutomaton(Current)' /\ SameActions(source, Current)' /\ source' \in Automata
<1>1. Current' = Current
  BY DEF Current
<1>2. IsAutomaton(Current)' /\ SameActions(source, Current)'
  BY <1>1 DEF ActionsInv, IsAutomaton, SameActions
<1>3. QED
  BY <1>2 DEF ActionsInv

\* EraseNoops contracts dots that are parted.
LEMMA ActionsInvNoops ==
  ActionsInv /\ (EraseLoopedNoop \/ EraseNoop \/ NoopsErased) => ActionsInv'
<1>1. ASSUME ActionsInv, EraseLoopedNoop
      PROVE  ActionsInv'
  <2>1. NfaInv'
    BY <1>1, NfaInvNoops DEF ActionsInv
  <2>2. pass' = "broken" /\ source' = source
    BY <1>1 DEF EraseLoopedNoop
  <2>3. QED
    BY <1>1, <2>1, <2>2 DEF ActionsInv
<1>2. ASSUME ActionsInv, EraseNoop
      PROVE  ActionsInv'
  <2>1. NfaInv'
    BY <1>2, NfaInvNoops DEF ActionsInv
  <2>2. pass = "noops" /\ pass' = pass /\ source' = source /\ final' = final
    BY <1>2 DEF EraseNoop
  <2>3. PICK t \in todo :
          /\ graph.edges[t].from # graph.edges[t].to
          /\ initial' = NextInitial(graph.edges[t])
          /\ graph' = EraseEdge(MergeWithNode(graph, graph.edges[t].to, graph.edges[t].from), t)
          /\ todo' = todo \ {t}
    BY <1>2 DEF EraseNoop
  <2> DEFINE x == graph.edges[t].from
             y == graph.edges[t].to
  <2>4. WellFormed(graph) /\ WellFormed(graph')
    BY <1>2, <2>1 DEF ActionsInv, NfaInv, GraphWellFormed
  <2>5. t \in GetNoops(graph) /\ t \in DOMAIN graph.edges /\ todo \subseteq GetNoops(graph)
    BY <1>2, <2>2 DEF ActionsInv, GetNoops
  <2>6. Contracted(graph, graph', t)
    BY <2>3, <2>4, <2>5, NoopErasedContracts
  <2>7. PICK P : Parted(graph, initial, final, P)
    BY <1>2, <2>2 DEF ActionsInv
  <2>8. initial' = IF x = initial THEN y ELSE initial
    BY <2>3 DEF NextInitial
  <2>9. /\ Parted(graph', initial', final, P \ {x})
        /\ GetNoops(graph') = GetNoops(graph) \ {t}
    <3>1. /\ Parted(graph', IF x = initial THEN y ELSE initial, final, P \ {x})
          /\ GetNoops(graph') = GetNoops(graph) \ {t}
      BY <2>3, <2>4, <2>5, <2>6, <2>7, ContractionParts
    <3>2. final' = final
      BY <2>2
    <3>3. QED
      BY <2>8, <3>1, <3>2
  <2>10. /\ IsAutomaton(source) /\ IsAutomaton(Current) /\ SameActions(source, Current)
    BY <1>2, <2>2, AutomataAssumption DEF ActionsInv
  <2>11. /\ Current.graph = graph /\ Current.initial = initial /\ Current.final = final
         /\ Current'.graph = graph' /\ Current'.initial = initial' /\ Current'.final = final
    BY <2>2 DEF Current
  <2>12. IsAutomaton(Current')
    BY <2>4, <2>9, <2>11 DEF IsAutomaton, Parted
  <2>13. t \in Silent(graph)
    BY <2>5 DEF GetNoops, Silent, NoEffect
  <2>14. final # x /\ y # initial
    BY <2>5, <2>7 DEF Parted
  <2>15. Branches(graph, t) => ~Joins(graph, t)
    BY <2>5, <2>7 DEF Parted
  <2>16. SameActions(source, Current')
    <3>1. \/ \A e \in DOMAIN graph.edges \ {t} : graph.edges[e].from # x
          \/ \A e \in DOMAIN graph.edges \ {t} : graph.edges[e].to # y
      BY <2>15 DEF Branches, Joins
    <3>2. QED
      BY <2>3, <2>6, <2>8, <2>10, <2>11, <2>12, <2>13, <2>14, <3>1, ContractionMirrors
  <2>17. IsAutomaton(Current)' /\ SameActions(source, Current)'
    BY <2>2, <2>12, <2>16
  <2>18. todo' \subseteq GetNoops(graph')
    BY <2>3, <2>5, <2>9
  <2>19. QED
    BY <1>2, <2>1, <2>2, <2>9, <2>17, <2>18 DEF ActionsInv
<1>3. ASSUME ActionsInv, NoopsErased
      PROVE  ActionsInv'
  <2>1. NfaInv'
    BY <1>3, NfaInvNoops DEF ActionsInv
  <2>2. /\ pass # "broken" /\ pass' = "visited" /\ initial' \in visited'
        /\ UNCHANGED <<source, graph, initial, final>>
    BY <1>3 DEF NoopsErased
  <2>3. QED
    BY <1>3, <2>1, <2>2, SameAutomaton DEF ActionsInv
<1>4. QED
  BY <1>1, <1>2, <1>3

\* AddVisitedChecks puts checks before nodes other than the first.
LEMMA ActionsInvVisited ==
  ActionsInv /\ (VisitNode \/ VisitEdge \/ LeaveNode \/ ChecksAdded) => ActionsInv'
<1>1. ASSUME ActionsInv, VisitNode \/ LeaveNode \/ ChecksAdded
      PROVE  ActionsInv'
  <2>1. NfaInv'
    BY <1>1, NfaInvVisited DEF ActionsInv
  <2>2. /\ pass = "visited" /\ pass' \in {"visited", "split"} /\ visited' = visited
        /\ UNCHANGED <<source, graph, initial, final>>
    BY <1>1 DEF VisitNode, LeaveNode, ChecksAdded
  <2>3. QED
    BY <1>1, <2>1, <2>2, SameAutomaton DEF ActionsInv
<1>2. ASSUME ActionsInv, VisitEdge
      PROVE  ActionsInv'
  <2>1. NfaInv'
    BY <1>2, NfaInvVisited DEF ActionsInv
  <2>2. /\ pass = "visited" /\ pass' = pass
        /\ source' = source /\ initial' = initial /\ final' = final
    BY <1>2 DEF VisitEdge
  <2> DEFINE S(u)    == After(graph.outs[u], cursor)
             Edge(u) == First(graph.outs[u], S(u))
             To(u)   == graph.edges[Edge(u)].to
  <2>3. PICK u \in node :
          /\ S(u) # {}
          /\ graph' = IF IsNewJoin(To(u)) THEN VisitedCheckAdded(To(u)) ELSE graph
          /\ visited' = visited \cup {To(u)}
                          \cup (IF IsNewJoin(To(u)) THEN {graph.lastNode + 1} ELSE {})
    BY <1>2 DEF VisitEdge
  <2>4. WellFormed(graph) /\ WellFormed(graph') /\ u \in graph.nodes
    BY <1>2, <2>1 DEF ActionsInv, NfaInv, GraphWellFormed, LoopsHoldNoErased
  <2>5. Edge(u) \in DOMAIN graph.edges
    <3>1. S(u) \subseteq DOMAIN graph.outs[u]
      BY DEF After
    <3> HIDE DEF S
    <3>2. QED
      BY <2>3, <2>4, <3>1, ListedExists
  <2>6. To(u) \in graph.nodes
    <3> HIDE DEF Edge
    <3>1. QED
      BY <2>4, <2>5 DEF WellFormed, EndsExist
  <2> HIDE DEF To
  <2>7. initial \in visited /\ initial \in visited'
    BY <1>2, <2>2, <2>3 DEF ActionsInv
  <2>8. CASE ~IsNewJoin(To(u))
    <3>1. UNCHANGED <<source, graph, initial, final>>
      BY <2>2, <2>3, <2>8
    <3>2. QED
      BY <1>2, <2>1, <2>2, <2>7, <3>1, SameAutomaton DEF ActionsInv
  <2>9. CASE IsNewJoin(To(u))
    <3>1. To(u) # initial
      BY <2>7, <2>9 DEF IsNewJoin
    <3>2. CheckPut(graph, graph', To(u), graph.lastNode + 1, graph.lastEdge + 1)
      BY <2>3, <2>4, <2>6, <2>9, CheckAddedPuts
    <3>3. /\ Current.graph = graph /\ Current.initial = initial /\ Current.final = final
          /\ Current'.graph = graph' /\ Current'.initial = initial /\ Current'.final = final
      BY <2>2 DEF Current
    <3>4. IsAutomaton(source) /\ IsAutomaton(Current) /\ SameActions(source, Current)
      BY <1>2, <2>2, AutomataAssumption DEF ActionsInv
    <3>5. IsAutomaton(Current')
      BY <2>4, <3>2, <3>3, <3>4 DEF IsAutomaton, CheckPut
    <3>6. SameActions(source, Current')
      BY <2>6, <3>1, <3>2, <3>3, <3>4, <3>5, CheckMirrors
    <3>7. QED
      BY <1>2, <2>1, <2>2, <2>7, <3>5, <3>6 DEF ActionsInv
  <2>10. QED
    BY <2>8, <2>9
<1>3. QED
  BY <1>1, <1>2

\* HandleMultipleOutNodes puts edges off and erases duplicates.
LEMMA ActionsInvSplit ==
  ActionsInv /\ (TakeNode \/ SplitEdge \/ EraseDuplicates \/ NfaCreated) => ActionsInv'
<1>1. ASSUME ActionsInv, TakeNode \/ NfaCreated
      PROVE  ActionsInv'
  <2>1. NfaInv'
    BY <1>1, NfaInvSplit DEF ActionsInv
  <2>2. /\ pass = "split" /\ pass' \in {"split", "done"}
        /\ UNCHANGED <<source, graph, initial, final>>
    BY <1>1 DEF TakeNode, NfaCreated
  <2>3. QED
    BY <1>1, <2>1, <2>2, SameAutomaton DEF ActionsInv
<1>2. ASSUME ActionsInv, SplitEdge \/ EraseDuplicates
      PROVE  ActionsInv'
  <2>1. NfaInv'
    BY <1>2, NfaInvSplit DEF ActionsInv
  <2>2. /\ pass = "split" /\ pass' = pass
        /\ source' = source /\ initial' = initial /\ final' = final
    BY <1>2 DEF SplitEdge, EraseDuplicates
  <2>3. WellFormed(graph) /\ WellFormed(graph') /\ node \subseteq graph.nodes
    BY <1>2, <2>1 DEF ActionsInv, NfaInv, GraphWellFormed, LoopsHoldNoErased
  <2>4. /\ Current.graph = graph /\ Current.initial = initial /\ Current.final = final
        /\ Current'.graph = graph' /\ Current'.initial = initial /\ Current'.final = final
    BY <2>2 DEF Current
  <2>5. IsAutomaton(source) /\ IsAutomaton(Current) /\ SameActions(source, Current)
    BY <1>2, <2>2, AutomataAssumption DEF ActionsInv
  <2>6. CASE SplitEdge
    <3> DEFINE Edge(u) == First(graph.outs[u], Effective(u))
    <3>1. PICK u \in node : Effective(u) # {} /\ graph' = MovedToNewNode(u, Edge(u))
      BY <2>6 DEF SplitEdge
    <3>2. Edge(u) \in Effective(u) /\ Effective(u) \subseteq DOMAIN graph.outs[u]
      BY <2>3, <3>1, ListedExists DEF Effective
    <3> HIDE DEF Edge
    <3>3. Edge(u) \in DOMAIN graph.edges /\ graph.edges[Edge(u)].from = u
      BY <2>3, <3>2 DEF WellFormed, ListsAgree
    <3>4. EdgePutOff(graph, graph', u, Edge(u), graph.lastNode + 1, graph.lastEdge + 1)
      BY <2>3, <3>1, <3>3, MovedPutsOff
    <3>5. IsAutomaton(Current')
      BY <2>3, <2>4, <2>5, <3>4 DEF IsAutomaton, EdgePutOff
    <3>6. SameActions(source, Current')
      BY <2>4, <2>5, <3>3, <3>4, <3>5, PutOffMirrors
    <3>7. QED
      BY <1>2, <2>1, <2>2, <3>5, <3>6 DEF ActionsInv
  <2>7. CASE EraseDuplicates
    <3>1. PICK u \in node : Effective(u) = {} /\ graph' = EraseEdges(graph, Duplicates(u))
      BY <2>7 DEF EraseDuplicates
    <3>2. SomeLeft(graph, graph')
      BY <2>3, <3>1, DuplicatesLeaveSome
    <3>3. IsAutomaton(Current')
      BY <2>3, <2>4, <2>5, <3>2 DEF IsAutomaton, SomeLeft
    <3>4. SameActions(source, Current')
      BY <2>4, <2>5, <3>2, <3>3, FewerMirror
    <3>5. QED
      BY <1>2, <2>1, <2>2, <3>3, <3>4 DEF ActionsInv
  <2>8. QED
    BY <1>2, <2>6, <2>7
<1>3. QED
  BY <1>1, <1>2

\* The automaton that was given is not changed.
LEMMA SourceStays == [CreateNfaStep]_nfaVars => source' = source
BY DEF CreateNfaStep, nfaVars, EraseLoopedNoop, EraseNoop, NoopsErased, VisitNode, VisitEdge,
       LeaveNode, ChecksAdded, TakeNode, SplitEdge, EraseDuplicates, NfaCreated

\* So every step keeps the actions.
LEMMA ActionsInvStep == ActionsInv /\ [CreateNfaStep]_nfaVars => ActionsInv'
<1>1. ASSUME ActionsInv, UNCHANGED nfaVars
      PROVE  ActionsInv'
  <2>1. UNCHANGED <<source, graph, initial, final, pass, todo, visited>>
    BY <1>1 DEF nfaVars
  <2>2. NfaInv'
    BY <1>1 DEF ActionsInv, NfaInv, GraphWellFormed, LoopsHoldNoErased, nfaVars
  <2>3. pass # "broken" => IsAutomaton(Current)' /\ SameActions(source, Current)'
    BY <1>1, <2>1, SameAutomaton
  <2>4. QED
    BY <1>1, <2>1, <2>2, <2>3 DEF ActionsInv
<1>2. QED
  BY <1>1, ActionsInvNoops, ActionsInvVisited, ActionsInvSplit DEF CreateNfaStep

----
(***************************************************************************)
(* Loops.  A set of nodes is looping if every node of it is entered from   *)
(* it and left into it by edges that are no visited checks.                *)
(***************************************************************************)
EnteredFrom(g, L, v) == \E e \in Unchecked(g) : g.edges[e].to = v /\ g.edges[e].from \in L
Left(g, L, v)    == \E e \in Unchecked(g) : g.edges[e].from = v /\ g.edges[e].to \in L

Looping(g, L) ==
  L # {} /\ L \in SUBSET g.nodes /\ \A v \in L : EnteredFrom(g, L, v) /\ Left(g, L, v)

NoneLooping(g) == \A L \in SUBSET g.nodes : ~Looping(g, L)

\* The nodes of a loop are such a set.
LEMMA NoneLoopingChecked ==
  ASSUME NEW g, WellFormed(g), NoneLooping(g)
  PROVE  LoopsChecked(g)
<1> DEFINE U == Unchecked(g)
           On(S) == Led(g, U, S)
<1>1. U \in SUBSET DOMAIN g.edges
  BY DEF Unchecked
<1>2. \A e \in U : g.edges[e].from \in g.nodes /\ g.edges[e].to \in g.nodes
  BY <1>1 DEF WellFormed, EndsExist
<1> HIDE DEF U
<1>3. ASSUME NEW S \in SUBSET g.nodes
      PROVE  /\ On(S) \in SUBSET g.nodes /\ S \subseteq On(S) /\ Keeps(g, U, On(S))
             /\ \A D \in SUBSET g.nodes : S \subseteq D /\ Keeps(g, U, D) => On(S) \subseteq D
  BY <1>1, LedIsLeast
<1> HIDE DEF On
<1>4. ASSUME NEW e \in U, g.edges[e].from \in On({g.edges[e].to})
      PROVE  FALSE
  <2> DEFINE x == g.edges[e].from
             y == g.edges[e].to
             L == {w \in On({y}) : x \in On({w})}
  <2>1. x \in g.nodes /\ y \in g.nodes
    BY <1>2
  <2>2. /\ On({y}) \in SUBSET g.nodes /\ y \in On({y}) /\ Keeps(g, U, On({y}))
        /\ \A D \in SUBSET g.nodes : y \in D /\ Keeps(g, U, D) => On({y}) \subseteq D
    BY <1>3, <2>1
  <2>3. x \in On({y}) /\ x \in On({x})
    BY <1>3, <1>4, <2>1
  <2>4. x \in L /\ y \in L
    BY <2>2, <2>3
  <2>5. ASSUME NEW w \in L
        PROVE  \E d \in U : g.edges[d].to = w /\ g.edges[d].from \in L
    <3>1. CASE w = y
      BY <2>4, <3>1
    <3>2. CASE w # y
      <4>1. ~Keeps(g, U, On({y}) \ {w})
        <5>1. On({y}) \ {w} \in SUBSET g.nodes /\ y \in On({y}) \ {w}
          BY <2>2, <3>2
        <5>2. QED
          BY <2>2, <5>1
      <4>2. PICK d \in U : /\ g.edges[d].from \in On({y}) \ {w}
                           /\ g.edges[d].to \notin On({y}) \ {w}
        BY <4>1 DEF Keeps
      <4>3. g.edges[d].to = w
        BY <2>2, <4>2 DEF Keeps
      <4> DEFINE z == g.edges[d].from
      <4>4. z \in g.nodes /\ w \in g.nodes
        BY <1>2, <4>3
      <4>5. On({z}) \in SUBSET g.nodes /\ z \in On({z}) /\ Keeps(g, U, On({z}))
        BY <1>3, <4>4
      <4>6. w \in On({z})
        BY <4>3, <4>5 DEF Keeps
      <4>7. On({w}) \subseteq On({z})
        BY <1>3, <4>4, <4>5, <4>6
      <4>8. z \in L
        BY <4>2, <4>7
      <4>9. QED
        BY <4>3, <4>8
    <3>3. QED
      BY <3>1, <3>2
  <2>6. ASSUME NEW w \in L
        PROVE  \E d \in U : g.edges[d].from = w /\ g.edges[d].to \in L
    <3>1. CASE w = x
      BY <2>4, <3>1
    <3>2. CASE w # x
      <4> DEFINE Next == {g.edges[d].to : d \in {j \in U : g.edges[j].from = w}}
                 T == {w} \cup UNION {On({s}) : s \in Next}
      <4>1. w \in g.nodes /\ Next \subseteq g.nodes
        BY <1>2, <2>2
      <4>2. \A s \in Next : /\ On({s}) \in SUBSET g.nodes /\ s \in On({s})
                            /\ Keeps(g, U, On({s}))
        BY <1>3, <4>1
      <4>3. T \in SUBSET g.nodes /\ w \in T
        BY <4>1, <4>2
      <4>4. Keeps(g, U, T)
        <5>1. ASSUME NEW d \in U, g.edges[d].from \in T
              PROVE  g.edges[d].to \in T
          <6>1. CASE g.edges[d].from = w
            <7>1. g.edges[d].to \in Next
              BY <6>1
            <7>2. QED
              BY <4>2, <7>1
          <6>2. CASE g.edges[d].from # w
            <7>1. PICK s \in Next : g.edges[d].from \in On({s})
              BY <5>1, <6>2
            <7>2. g.edges[d].to \in On({s})
              BY <4>2, <7>1 DEF Keeps
            <7>3. QED
              BY <7>1, <7>2
          <6>3. QED
            BY <6>1, <6>2
        <5>2. QED
          BY <5>1 DEF Keeps
      <4>5. On({w}) \subseteq T
        <5> HIDE DEF T
        <5>1. QED
          BY <1>3, <4>1, <4>3, <4>4
      <4>6. PICK s \in Next : x \in On({s})
        BY <3>2, <4>5
      <4>7. PICK d \in U : g.edges[d].from = w /\ g.edges[d].to = s
        BY <4>6
      <4>8. s \in On({y})
        BY <2>2, <4>7 DEF Keeps
      <4>9. QED
        BY <4>6, <4>7, <4>8
    <3>3. QED
      BY <3>1, <3>2
  <2>7. L # {} /\ L \in SUBSET g.nodes
    BY <2>2, <2>4
  <2> HIDE DEF L
  <2>8. Looping(g, L)
    BY <2>5, <2>6, <2>7 DEF Looping, EnteredFrom, Left, U
  <2>9. QED
    BY <2>7, <2>8 DEF NoneLooping
<1>5. QED
  BY <1>4 DEF LoopsChecked, U, On

\* An edge put off and edges erased make none.
LEMMA PutOffNoneLooping ==
  ASSUME NEW g, NEW h, WellFormed(g), NoneLooping(g), NEW e \in DOMAIN g.edges, NEW n, NEW f,
         EdgePutOff(g, h, g.edges[e].from, e, n, f)
  PROVE  NoneLooping(h)
<1> DEFINE u == g.edges[e].from
<1>1. SUFFICES ASSUME NEW M \in SUBSET h.nodes, Looping(h, M)
               PROVE  FALSE
  BY DEF NoneLooping
<1>2. \A d \in DOMAIN g.edges : g.edges[d].from \in g.nodes /\ g.edges[d].to \in g.nodes
  BY DEF WellFormed, EndsExist
<1>3. /\ n \notin g.nodes /\ h.nodes = g.nodes \cup {n}
      /\ f \notin DOMAIN g.edges /\ DOMAIN h.edges = DOMAIN g.edges \cup {f}
      /\ h.edges[f].from = u /\ h.edges[f].to = n
      /\ \A d \in DOMAIN g.edges :
           /\ h.edges[d].act = g.edges[d].act
           /\ h.edges[d].from = IF d = e THEN n ELSE g.edges[d].from
           /\ h.edges[d].to = g.edges[d].to
  BY DEF EdgePutOff
<1>4. \A d \in Unchecked(h) \ {f} : d \in Unchecked(g) /\ d \in DOMAIN g.edges
  BY <1>3 DEF Unchecked
<1>5. \A v \in M : EnteredFrom(h, M, v) /\ Left(h, M, v)
  BY <1>1 DEF Looping
<1>6. n \in M => u \in M
  BY <1>2, <1>3, <1>4, <1>5 DEF EnteredFrom
<1>7. n \in M => e \in Unchecked(g) /\ g.edges[e].to \in M
  BY <1>2, <1>3, <1>4, <1>5 DEF Left
<1> DEFINE L == M \ {n}
<1>8. u \in g.nodes /\ u # n
  BY <1>2, <1>3
<1>9. ASSUME NEW v \in L
      PROVE  EnteredFrom(g, L, v)
  <2>1. PICK d \in Unchecked(h) : h.edges[d].to = v /\ h.edges[d].from \in M
    BY <1>5 DEF EnteredFrom
  <2>2. d # f
    BY <1>3, <2>1
  <2>3. d \in Unchecked(g) /\ d \in DOMAIN g.edges /\ g.edges[d].to = v
    BY <1>3, <1>4, <2>1, <2>2
  <2>4. g.edges[d].from \in L
    BY <1>2, <1>3, <1>6, <1>8, <2>1, <2>3
  <2>5. QED
    BY <2>3, <2>4 DEF EnteredFrom
<1>10. ASSUME NEW v \in L
       PROVE  Left(g, L, v)
  <2>1. PICK d \in Unchecked(h) : h.edges[d].from = v /\ h.edges[d].to \in M
    BY <1>5 DEF Left
  <2>2. CASE d = f
    <3>1. v = u /\ n \in M
      BY <1>3, <2>1, <2>2
    <3>2. e \in Unchecked(g) /\ g.edges[e].to \in L
      BY <1>2, <1>3, <1>7, <3>1
    <3>3. QED
      BY <3>1, <3>2 DEF Left
  <2>3. CASE d # f
    <3>1. d \in Unchecked(g) /\ d \in DOMAIN g.edges
      BY <1>4, <2>1, <2>3
    <3>2. g.edges[d].from = v /\ g.edges[d].to \in L
      BY <1>2, <1>3, <2>1, <3>1
    <3>3. QED
      BY <3>1, <3>2 DEF Left
  <2>4. QED
    BY <2>2, <2>3
<1>11. L # {} /\ L \in SUBSET g.nodes
  BY <1>1, <1>3, <1>6, <1>8 DEF Looping
<1>12. Looping(g, L)
  BY <1>9, <1>10, <1>11 DEF Looping
<1>13. QED
  BY <1>11, <1>12 DEF NoneLooping

\* Nor do fewer edges.
LEMMA FewerNoneLooping ==
  ASSUME NEW g, NEW h, NoneLooping(g), SomeLeft(g, h)
  PROVE  NoneLooping(h)
<1>1. SUFFICES ASSUME NEW L \in SUBSET h.nodes, Looping(h, L)
               PROVE  FALSE
  BY DEF NoneLooping
<1>2. \A e \in Unchecked(h) : e \in Unchecked(g) /\ h.edges[e] = g.edges[e]
  BY DEF Unchecked, SomeLeft
<1>3. \A v \in L : EnteredFrom(g, L, v) /\ Left(g, L, v)
  BY <1>1, <1>2 DEF Looping, EnteredFrom, Left
<1>4. L # {} /\ L \in SUBSET g.nodes
  BY <1>1 DEF Looping, SomeLeft
<1>5. Looping(g, L)
  BY <1>3, <1>4 DEF Looping
<1>6. QED
  BY <1>4, <1>5 DEF NoneLooping

----
\* Every node is reached from one: a set that has it and that no edge leaves
\* has them all.
Reached(g, first) ==
  \A W \in SUBSET g.nodes : first \in W /\ Keeps(g, DOMAIN g.edges, W) => g.nodes \subseteq W

\* Contracting a dot leaves every node reached.
LEMMA ContractionReaches ==
  ASSUME NEW g, NEW h, NEW first, WellFormed(g), first \in g.nodes, Reached(g, first),
         NEW t \in DOMAIN g.edges, g.edges[t].from # g.edges[t].to, Contracted(g, h, t)
  PROVE  Reached(h, IF g.edges[t].from = first THEN g.edges[t].to ELSE first)
<1> DEFINE x == g.edges[t].from
           y == g.edges[t].to
           start == IF x = first THEN y ELSE first
           k == [m \in g.nodes |-> IF m = x THEN y ELSE m]
<1>1. \A e \in DOMAIN g.edges : g.edges[e].from \in g.nodes /\ g.edges[e].to \in g.nodes
  BY DEF WellFormed, EndsExist
<1>2. k[x] = y /\ k[y] = y /\ \A m \in g.nodes \ {x} : k[m] = m
  BY <1>1
<1>3. /\ h.nodes = g.nodes \ {x}
      /\ DOMAIN h.edges = DOMAIN g.edges \ {t}
      /\ \A e \in DOMAIN g.edges \ {t} :
           h.edges[e].from = k[g.edges[e].from] /\ h.edges[e].to = k[g.edges[e].to]
  BY <1>1 DEF Contracted
<1>4. k[first] = start
  OBVIOUS
<1> HIDE DEF k
<1>5. ASSUME NEW W \in SUBSET h.nodes, start \in W, Keeps(h, DOMAIN h.edges, W)
      PROVE  h.nodes \subseteq W
  <2> DEFINE V == {m \in g.nodes : k[m] \in W}
  <2>1. V \in SUBSET g.nodes /\ first \in V
    BY <1>4, <1>5
  <2>2. ASSUME NEW e \in DOMAIN g.edges, g.edges[e].from \in V
        PROVE  g.edges[e].to \in V
    <3>1. CASE e = t
      BY <1>1, <1>2, <2>2, <3>1
    <3>2. CASE e # t
      <4>1. e \in DOMAIN h.edges /\ h.edges[e].from \in W
        BY <1>3, <2>2, <3>2
      <4>2. h.edges[e].to \in W
        BY <1>5, <4>1 DEF Keeps
      <4>3. QED
        BY <1>1, <1>3, <3>2, <4>2
    <3>3. QED
      BY <3>1, <3>2
  <2>3. Keeps(g, DOMAIN g.edges, V)
    BY <2>2 DEF Keeps
  <2>4. g.nodes \subseteq V
    BY <2>1, <2>3 DEF Reached
  <2>5. QED
    BY <1>2, <1>3, <2>4
<1>6. QED
  BY <1>5 DEF Reached

\* So does a check before a node that is entered.
LEMMA CheckReaches ==
  ASSUME NEW g, NEW h, NEW first, WellFormed(g), first \in g.nodes, Reached(g, first),
         NEW v \in g.nodes, NEW n, NEW q, CheckPut(g, h, v, n, q),
         NEW e \in DOMAIN g.edges, g.edges[e].to = v
  PROVE  Reached(h, first)
<1>1. \A d \in DOMAIN g.edges : g.edges[d].from \in g.nodes /\ g.edges[d].to \in g.nodes
  BY DEF WellFormed, EndsExist
<1>2. /\ n \notin g.nodes /\ h.nodes = g.nodes \cup {n}
      /\ DOMAIN h.edges = DOMAIN g.edges \cup {q}
      /\ h.edges[q].from = n /\ h.edges[q].to = v
      /\ \A d \in DOMAIN g.edges :
           /\ h.edges[d].from = g.edges[d].from
           /\ h.edges[d].to = IF g.edges[d].to = v THEN n ELSE g.edges[d].to
  BY DEF CheckPut
<1>3. ASSUME NEW W \in SUBSET h.nodes, first \in W, Keeps(h, DOMAIN h.edges, W)
      PROVE  h.nodes \subseteq W
  <2> DEFINE V == W \cap g.nodes
  <2>1. V \in SUBSET g.nodes /\ first \in V
    BY <1>3
  <2>2. n \in W => v \in W
    BY <1>2, <1>3 DEF Keeps
  <2>3. ASSUME NEW d \in DOMAIN g.edges, g.edges[d].from \in W
        PROVE  h.edges[d].to \in W
    BY <1>2, <1>3, <2>3 DEF Keeps
  <2>4. Keeps(g, DOMAIN g.edges, V)
    BY <1>1, <1>2, <2>2, <2>3 DEF Keeps
  <2>5. g.nodes \subseteq W
    BY <2>1, <2>4 DEF Reached
  <2>6. n \in W
    BY <1>1, <1>2, <2>3, <2>5
  <2>7. QED
    BY <1>2, <2>5, <2>6
<1>4. QED
  BY <1>3 DEF Reached

\* Every node leads to one: a set that has it and that no edge enters has them all.
LeadsTo(g, last) ==
  \A W \in SUBSET g.nodes :
    /\ last \in W
    /\ \A e \in DOMAIN g.edges : g.edges[e].to \in W => g.edges[e].from \in W
    => g.nodes \subseteq W

\* Contracting a dot leaves every node with a way to the last one.
LEMMA ContractionLeads ==
  ASSUME NEW g, NEW h, NEW last, WellFormed(g), last \in g.nodes, LeadsTo(g, last),
         NEW t \in DOMAIN g.edges, g.edges[t].from # g.edges[t].to, Contracted(g, h, t),
         g.edges[t].from # last
  PROVE  LeadsTo(h, last)
<1> DEFINE x == g.edges[t].from
           y == g.edges[t].to
           k == [m \in g.nodes |-> IF m = x THEN y ELSE m]
<1>1. \A e \in DOMAIN g.edges : g.edges[e].from \in g.nodes /\ g.edges[e].to \in g.nodes
  BY DEF WellFormed, EndsExist
<1>2. k[x] = y /\ k[y] = y /\ \A m \in g.nodes \ {x} : k[m] = m
  BY <1>1
<1>3. /\ h.nodes = g.nodes \ {x}
      /\ DOMAIN h.edges = DOMAIN g.edges \ {t}
      /\ \A e \in DOMAIN g.edges \ {t} :
           h.edges[e].from = k[g.edges[e].from] /\ h.edges[e].to = k[g.edges[e].to]
  BY <1>1 DEF Contracted
<1> HIDE DEF k
<1>4. ASSUME NEW W \in SUBSET h.nodes, last \in W,
             \A e \in DOMAIN h.edges : h.edges[e].to \in W => h.edges[e].from \in W
      PROVE  h.nodes \subseteq W
  <2> DEFINE V == {m \in g.nodes : k[m] \in W}
  <2>1. V \in SUBSET g.nodes /\ last \in V
    BY <1>2, <1>4
  <2>2. ASSUME NEW e \in DOMAIN g.edges, g.edges[e].to \in V
        PROVE  g.edges[e].from \in V
    <3>1. CASE e = t
      BY <1>1, <1>2, <2>2, <3>1
    <3>2. CASE e # t
      <4>1. e \in DOMAIN h.edges /\ h.edges[e].to \in W
        BY <1>3, <2>2, <3>2
      <4>2. h.edges[e].from \in W
        BY <1>4, <4>1
      <4>3. QED
        BY <1>1, <1>3, <3>2, <4>2
    <3>3. QED
      BY <3>1, <3>2
  <2>3. g.nodes \subseteq V
    BY <2>1, <2>2 DEF LeadsTo
  <2>4. QED
    BY <1>2, <1>3, <2>3
<1>5. QED
  BY <1>4 DEF LeadsTo

\* Then none of the dots to contract leads to where it begins.
LEMMA NoDotLoops ==
  ASSUME NEW g, NEW first, NEW last, NEW P, WellFormed(g), Parted(g, first, last, P),
         Reached(g, first), LeadsTo(g, last), NEW t \in GetNoops(g)
  PROVE  g.edges[t].from # g.edges[t].to
<1> DEFINE x == g.edges[t].from
<1>1. SUFFICES ASSUME g.edges[t].to = x
               PROVE  FALSE
  OBVIOUS
<1>2. /\ \A e \in DOMAIN g.edges : g.edges[e].from \in g.nodes /\ g.edges[e].to \in g.nodes
      /\ t \in DOMAIN g.edges /\ x \in g.nodes
  BY DEF WellFormed, EndsExist, GetNoops
<1>3. x # first /\ x # last /\ first \in g.nodes /\ last \in g.nodes
  BY <1>1, <1>2 DEF Parted
<1>4. CASE Branches(g, t)
  <2>1. \A e \in DOMAIN g.edges : e # t => g.edges[e].to # x
    BY <1>1, <1>4 DEF Parted, Joins
  <2>2. Keeps(g, DOMAIN g.edges, g.nodes \ {x})
    BY <1>2, <2>1 DEF Keeps
  <2>3. first \in g.nodes \ {x} /\ g.nodes \ {x} \in SUBSET g.nodes
    BY <1>3
  <2>4. g.nodes \subseteq g.nodes \ {x}
    BY <2>2, <2>3 DEF Reached
  <2>5. QED
    BY <1>2, <2>4
<1>5. CASE ~Branches(g, t)
  <2>1. \A e \in DOMAIN g.edges : e # t => g.edges[e].from # x
    BY <1>5 DEF Branches
  <2>2. \A e \in DOMAIN g.edges : g.edges[e].to \in g.nodes \ {x} => g.edges[e].from \in g.nodes \ {x}
    BY <1>1, <1>2, <2>1
  <2>3. last \in g.nodes \ {x} /\ g.nodes \ {x} \in SUBSET g.nodes
    BY <1>3
  <2>4. g.nodes \subseteq g.nodes \ {x}
    BY <2>2, <2>3 DEF LeadsTo
  <2>5. QED
    BY <1>2, <2>4
<1>6. QED
  BY <1>4, <1>5

----
\* A node is entered by one edge at most; all that leaves it are checks.
OnceEntered(g, v) ==
  \A e, d \in DOMAIN g.edges : g.edges[e].to = v /\ g.edges[d].to = v => e = d
OnlyChecks(g, v) == \A e \in Unchecked(g) : g.edges[e].from # v

\* That leaves no loop.
LEMMA JoinsChecked ==
  ASSUME NEW g, NEW first, WellFormed(g), first \in g.nodes, Reached(g, first),
         \A e \in DOMAIN g.edges : g.edges[e].to # first,
         \A v \in g.nodes \ {first} : OnceEntered(g, v) \/ OnlyChecks(g, v)
  PROVE  NoneLooping(g)
<1>1. SUFFICES ASSUME NEW L \in SUBSET g.nodes, Looping(g, L)
               PROVE  FALSE
  BY DEF NoneLooping
<1>2. Unchecked(g) \subseteq DOMAIN g.edges
  BY DEF Unchecked
<1>3. first \notin L
  BY <1>1, <1>2 DEF Looping, EnteredFrom
<1>4. ASSUME NEW e \in DOMAIN g.edges, g.edges[e].to \in L
      PROVE  g.edges[e].from \in L
  <2>1. PICK d \in Unchecked(g) : g.edges[d].to = g.edges[e].to /\ g.edges[d].from \in L
    BY <1>1, <1>4 DEF Looping, EnteredFrom
  <2>2. ~OnlyChecks(g, g.edges[e].to)
    BY <1>1, <1>4 DEF Looping, Left, OnlyChecks
  <2>3. OnceEntered(g, g.edges[e].to)
    BY <1>3, <1>4, <2>2
  <2>4. d = e
    BY <1>2, <2>1, <2>3 DEF OnceEntered
  <2>5. QED
    BY <2>1, <2>4
<1>5. Keeps(g, DOMAIN g.edges, g.nodes \ L)
  <2>1. \A e \in DOMAIN g.edges : g.edges[e].to \in g.nodes
    BY DEF WellFormed, EndsExist
  <2>2. QED
    BY <1>4, <2>1 DEF Keeps
<1>6. g.nodes \subseteq g.nodes \ L
  <2>1. first \in g.nodes \ L /\ g.nodes \ L \in SUBSET g.nodes
    BY <1>3
  <2>2. QED
    BY <1>5, <2>1 DEF Reached
<1>7. QED
  BY <1>1, <1>6 DEF Looping

\* A node that is not entered by several edges is entered once.
LEMMA FewEnter ==
  ASSUME NEW g, WellFormed(g), NEW v \in g.nodes, ~(Cardinality(g.ins[v]) > 1)
  PROVE  OnceEntered(g, v)
<1> DEFINE D == g.ins[v]
<1>1. D = {x \in DOMAIN g.edges : g.edges[x].to = v}
  BY DEF WellFormed, ListsAgree
<1> HIDE DEF D
<1>2. ASSUME NEW e \in D, NEW d \in D, e # d
      PROVE  FALSE
  <2>1. IsFiniteSet(D)
    BY <1>1, EdgesFinite
  <2>2. Cardinality(D) > 1
    BY <1>2, <2>1, TwoMembers
  <2>3. QED
    BY <2>2 DEF D
<1>3. QED
  BY <1>1, <1>2 DEF OnceEntered

----
(***************************************************************************)
(* AddVisitedChecks meets every node: what it has met waits in the queue,  *)
(* is being treated, or leads to what it has met.                          *)
(***************************************************************************)
Queued(w) == \E i \in DOMAIN queue : queue[i] = w

AllMet(w)  == \A e \in DOMAIN graph.edges : graph.edges[e].from = w => graph.edges[e].to \in visited
MetSoFar(u) ==
  /\ cursor \in Nat
  /\ \A e \in DOMAIN graph.outs[u] : graph.outs[u][e] <= cursor => graph.edges[e].to \in visited

\* The nodes met, and what is known of them.
VisitInv ==
  /\ visited \subseteq graph.nodes
  /\ \A u, w \in node : u = w
  /\ \A e \in DOMAIN graph.edges : graph.edges[e].to # initial
  /\ \A v \in visited \ {initial} : OnceEntered(graph, v) \/ OnlyChecks(graph, v)
  /\ \A w \in visited : Queued(w) \/ w \in node \/ AllMet(w)
  /\ \A u \in node : MetSoFar(u)

\* The inductive invariant of loops: what each pass hands on to the next.
LoopsInv ==
  /\ ActionsInv /\ pass # "broken"
  /\ pass \in {"noops", "visited"} => Reached(graph, initial)
  /\ pass = "noops" => LeadsTo(graph, final)
  /\ pass = "visited" => VisitInv
  /\ pass = "split" \/ (pass = "done" /\ optimize) => NoneLooping(graph)

\* Thompson's automata have a first and a last node.
LEMMA LoopsInvInit == DotsApart(source) /\ Init => LoopsInv
<1> SUFFICES ASSUME DotsApart(source), Init PROVE LoopsInv
  OBVIOUS
<1>1. /\ IsAutomaton(source) /\ HasEnds(source)
      /\ graph = source.graph /\ initial = source.initial /\ final = source.final
  BY AutomataAssumption, EndsAssumption DEF Init
<1>2. Reached(graph, initial)
  <2>1. WellFormed(graph) /\ {initial} \in SUBSET graph.nodes
    BY <1>1 DEF IsAutomaton
  <2>2. Led(graph, DOMAIN graph.edges, {initial}) = graph.nodes
    BY <1>1 DEF HasEnds
  <2>3. \A D \in SUBSET graph.nodes :
          {initial} \subseteq D /\ Keeps(graph, DOMAIN graph.edges, D) => graph.nodes \subseteq D
    BY <2>1, <2>2, LedIsLeast
  <2>4. QED
    BY <2>3 DEF Reached
<1>3. LeadsTo(graph, final)
  <2>1. SUFFICES ASSUME NEW W \in SUBSET graph.nodes, final \in W, NEW n \in graph.nodes \ W,
                        \A e \in DOMAIN graph.edges :
                          graph.edges[e].to \in W => graph.edges[e].from \in W
                 PROVE  FALSE
    BY DEF LeadsTo
  <2>2. WellFormed(graph) /\ {n} \in SUBSET graph.nodes
    BY <1>1 DEF IsAutomaton
  <2>3. Keeps(graph, DOMAIN graph.edges, graph.nodes \ W)
    BY <2>1, <2>2 DEF Keeps, WellFormed, EndsExist
  <2>4. Led(graph, DOMAIN graph.edges, {n}) \subseteq graph.nodes \ W
    <3>1. {n} \subseteq graph.nodes \ W /\ graph.nodes \ W \in SUBSET graph.nodes
      OBVIOUS
    <3>2. \A D \in SUBSET graph.nodes :
            {n} \subseteq D /\ Keeps(graph, DOMAIN graph.edges, D)
              => Led(graph, DOMAIN graph.edges, {n}) \subseteq D
      BY <2>2, LedIsLeast
    <3>3. QED
      BY <2>3, <3>1, <3>2
  <2>5. QED
    BY <1>1, <2>1, <2>4 DEF HasEnds
<1>4. pass = "noops" \/ (pass = "done" /\ ~optimize)
  BY DEF Init
<1>5. QED
  BY <1>2, <1>3, <1>4, ActionsInvInit DEF LoopsInv

\* While dots are erased, every node stays reached and leads to the last one.
LEMMA LoopsInvNoops ==
  LoopsInv /\ (EraseLoopedNoop \/ EraseNoop \/ NoopsErased) => LoopsInv'
<1>1. ASSUME LoopsInv, EraseLoopedNoop
      PROVE  LoopsInv'
  <2>1. pass = "noops"
    BY <1>1 DEF EraseLoopedNoop
  <2>2. PICK t \in todo : graph.edges[t].from = graph.edges[t].to
    BY <1>1 DEF EraseLoopedNoop
  <2>3. PICK P : Parted(graph, initial, final, P)
    BY <1>1, <2>1 DEF LoopsInv, ActionsInv
  <2>4. /\ WellFormed(graph) /\ t \in GetNoops(graph)
        /\ Reached(graph, initial) /\ LeadsTo(graph, final)
    BY <1>1, <2>1 DEF LoopsInv, ActionsInv, NfaInv, GraphWellFormed
  <2>5. QED
    BY <2>2, <2>3, <2>4, NoDotLoops
<1>2. ASSUME LoopsInv, EraseNoop
      PROVE  LoopsInv'
  <2>1. ActionsInv' /\ pass = "noops" /\ pass' = "noops"
    BY <1>2, ActionsInvNoops DEF LoopsInv, EraseNoop
  <2>2. PICK t \in todo :
          /\ graph.edges[t].from # graph.edges[t].to
          /\ initial' = NextInitial(graph.edges[t])
          /\ graph' = EraseEdge(MergeWithNode(graph, graph.edges[t].to, graph.edges[t].from), t)
    BY <1>2 DEF EraseNoop
  <2>3. WellFormed(graph) /\ t \in DOMAIN graph.edges /\ initial \in graph.nodes
    BY <1>2, <2>1 DEF LoopsInv, ActionsInv, NfaInv, GraphWellFormed, LoopsHoldNoErased
  <2>4. Contracted(graph, graph', t)
    BY <2>2, <2>3, NoopErasedContracts
  <2>5. Reached(graph, initial)
    BY <1>2, <2>1 DEF LoopsInv
  <2>6. Reached(graph', initial')
    <3>1. Reached(graph', IF graph.edges[t].from = initial THEN graph.edges[t].to ELSE initial)
      BY <2>2, <2>3, <2>4, <2>5, ContractionReaches
    <3>2. QED
      BY <2>2, <3>1 DEF NextInitial
  <2>7. LeadsTo(graph', final')
    <3>1. PICK P : Parted(graph, initial, final, P)
      BY <1>2, <2>1 DEF LoopsInv, ActionsInv
    <3>2. final \in graph.nodes /\ final # graph.edges[t].from
      BY <2>3, <3>1 DEF Parted
    <3>3. LeadsTo(graph, final) /\ final' = final
      BY <1>2, <2>1 DEF LoopsInv, EraseNoop
    <3>4. QED
      BY <2>2, <2>3, <2>4, <3>2, <3>3, ContractionLeads
  <2>8. QED
    BY <2>1, <2>6, <2>7 DEF LoopsInv
<1>3. ASSUME LoopsInv, NoopsErased
      PROVE  LoopsInv'
  <2>1. ActionsInv'
    BY <1>3, ActionsInvNoops DEF LoopsInv
  <2>2. /\ pass = "noops" /\ pass' = "visited" /\ queue' = <<initial>> /\ visited' = {initial}
        /\ graph' = graph /\ initial' = initial /\ node' = node /\ cursor' = cursor
    BY <1>3 DEF NoopsErased
  <2>3. node = {} /\ initial \in graph.nodes
    BY <1>3, <2>2 DEF LoopsInv, ActionsInv, NfaInv, LoopsHoldNoErased
  <2>4. \A e \in DOMAIN graph.edges : graph.edges[e].to # initial
    BY <1>3, <2>2 DEF LoopsInv, ActionsInv, Parted
  <2>5. Queued(initial)'
    BY <2>2 DEF Queued
  <2>6. VisitInv'
    BY <2>2, <2>3, <2>4, <2>5 DEF VisitInv
  <2>7. QED
    BY <1>3, <2>1, <2>2, <2>6 DEF LoopsInv
<1>4. QED
  BY <1>1, <1>2, <1>3

\* No loop without a check is made after the checks were added.
LEMMA LoopsInvSplit ==
  LoopsInv /\ (TakeNode \/ SplitEdge \/ EraseDuplicates \/ NfaCreated) => LoopsInv'
<1>1. ASSUME LoopsInv, TakeNode \/ NfaCreated
      PROVE  LoopsInv'
  <2>1. ActionsInv'
    BY <1>1, ActionsInvSplit DEF LoopsInv
  <2>2. pass = "split" /\ pass' \in {"split", "done"} /\ graph' = graph
    BY <1>1 DEF TakeNode, NfaCreated
  <2>3. QED
    BY <1>1, <2>1, <2>2 DEF LoopsInv
<1>2. ASSUME LoopsInv, SplitEdge \/ EraseDuplicates
      PROVE  LoopsInv'
  <2>1. ActionsInv'
    BY <1>2, ActionsInvSplit DEF LoopsInv
  <2>2. pass = "split" /\ pass' = "split"
    BY <1>2 DEF SplitEdge, EraseDuplicates
  <2>3. WellFormed(graph) /\ node \subseteq graph.nodes /\ NoneLooping(graph)
    BY <1>2, <2>2 DEF LoopsInv, ActionsInv, NfaInv, GraphWellFormed, LoopsHoldNoErased
  <2>4. CASE SplitEdge
    <3> DEFINE Edge(u) == First(graph.outs[u], Effective(u))
    <3>1. PICK u \in node : Effective(u) # {} /\ graph' = MovedToNewNode(u, Edge(u))
      BY <2>4 DEF SplitEdge
    <3>2. Edge(u) \in Effective(u) /\ Effective(u) \subseteq DOMAIN graph.outs[u]
      BY <2>3, <3>1, ListedExists DEF Effective
    <3> HIDE DEF Edge
    <3>3. Edge(u) \in DOMAIN graph.edges /\ graph.edges[Edge(u)].from = u
      BY <2>3, <3>2 DEF WellFormed, ListsAgree
    <3>4. EdgePutOff(graph, graph', u, Edge(u), graph.lastNode + 1, graph.lastEdge + 1)
      BY <2>3, <3>1, <3>3, MovedPutsOff
    <3>5. NoneLooping(graph')
      BY <2>3, <3>3, <3>4, PutOffNoneLooping
    <3>6. QED
      BY <2>1, <2>2, <3>5 DEF LoopsInv
  <2>5. CASE EraseDuplicates
    <3>1. PICK u \in node : Effective(u) = {} /\ graph' = EraseEdges(graph, Duplicates(u))
      BY <2>5 DEF EraseDuplicates
    <3>2. SomeLeft(graph, graph')
      BY <2>3, <3>1, DuplicatesLeaveSome
    <3>3. NoneLooping(graph')
      BY <2>3, <3>2, FewerNoneLooping
    <3>4. QED
      BY <2>1, <2>2, <3>3 DEF LoopsInv
  <2>6. QED
    BY <1>2, <2>4, <2>5
<1>3. QED
  BY <1>1, <1>2

----
\* Meeting a node by an edge of the one being treated.
LEMMA VisitInvEdge ==
  ASSUME ActionsInv, VisitInv, pass = "visited", VisitEdge, Reached(graph, initial)
  PROVE  VisitInv' /\ Reached(graph', initial)
<1> DEFINE S(u)    == After(graph.outs[u], cursor)
           Edge(u) == First(graph.outs[u], S(u))
           To(u)   == graph.edges[Edge(u)].to
<1>1. PICK n : n = graph.lastNode + 1
  OBVIOUS
<1>2. PICK u \in node :
        /\ S(u) # {} /\ cursor' = graph.outs[u][Edge(u)]
        /\ graph' = IF IsNewJoin(To(u)) THEN VisitedCheckAdded(To(u)) ELSE graph
        /\ queue' = IF To(u) \in visited THEN queue ELSE Append(queue, To(u))
        /\ visited' = visited \cup {To(u)} \cup (IF IsNewJoin(To(u)) THEN {n} ELSE {})
  BY <1>1 DEF VisitEdge
<1>3. PICK v : v = To(u)
  OBVIOUS
<1>4. /\ u \in node /\ v = graph.edges[Edge(u)].to
      /\ S(u) # {} /\ cursor' = graph.outs[u][Edge(u)]
      /\ graph' = IF IsNewJoin(v) THEN VisitedCheckAdded(v) ELSE graph
      /\ queue' = IF v \in visited THEN queue ELSE Append(queue, v)
      /\ visited' = visited \cup {v} \cup (IF IsNewJoin(v) THEN {n} ELSE {})
  <2> HIDE DEF S, Edge
  <2>1. QED
    BY <1>2, <1>3
<1> HIDE DEF To
<1>5. node' = node /\ initial' = initial
  BY DEF VisitEdge
<1>6. /\ WellFormed(graph) /\ u \in graph.nodes /\ queue \in Seq(graph.nodes)
      /\ initial \in graph.nodes /\ initial \in visited /\ node = {u}
  BY DEF ActionsInv, NfaInv, GraphWellFormed, LoopsHoldNoErased, VisitInv
<1>7. \A e \in DOMAIN graph.edges : graph.edges[e].from \in graph.nodes /\ graph.edges[e].to \in graph.nodes
  BY <1>6 DEF WellFormed, EndsExist
<1> DEFINE list == graph.outs[u]
<1>8. DOMAIN list = {e \in DOMAIN graph.edges : graph.edges[e].from = u}
  BY <1>6 DEF WellFormed, ListsAgree
<1>9. \A e \in DOMAIN list : list[e] \in Nat
  <2>1. graph.lastPlace \in Nat
    BY <1>6 DEF WellFormed, Shaped
  <2>2. \A e \in DOMAIN list : list[e] \in 1 .. graph.lastPlace
    BY <1>6 DEF WellFormed, PlacesDiffer
  <2>3. QED
    BY <2>1, <2>2
<1>10. \A e, d \in DOMAIN list : list[e] = list[d] => e = d
  BY <1>6 DEF WellFormed, PlacesDiffer
<1>11. /\ Edge(u) \in DOMAIN list /\ cursor \in Nat
      /\ \A e \in DOMAIN list : list[e] > cursor => list[Edge(u)] <= list[e]
  <2>1. S(u) = {e \in DOMAIN list : list[e] > cursor}
    BY DEF After
  <2>2. \A e \in S(u) : list[e] \in Nat
    BY <1>9, <2>1
  <2>3. Edge(u) \in S(u) /\ \A e \in S(u) : list[Edge(u)] <= list[e]
    <3> HIDE DEF S
    <3>1. QED
      BY <1>4, <2>2, FirstIsMember
  <2>4. QED
    BY <2>1, <2>3 DEF VisitInv, MetSoFar
<1>12. ASSUME NEW e \in DOMAIN list, list[e] <= cursor'
      PROVE  list[e] <= cursor \/ e = Edge(u)
  <2>1. list[e] \in Nat /\ list[Edge(u)] \in Nat /\ cursor' = list[Edge(u)]
    BY <1>4, <1>9, <1>11
  <2>2. list[e] > cursor => list[e] = list[Edge(u)]
    BY <1>11, <1>12, <2>1
  <2>3. QED
    BY <1>10, <1>11, <2>1, <2>2
<1>13. cursor' \in Nat
  BY <1>4, <1>9, <1>11
<1>14. v \in graph.nodes /\ Edge(u) \in DOMAIN graph.edges /\ v = graph.edges[Edge(u)].to
  BY <1>4, <1>7, <1>8, <1>11
<1> HIDE DEF S, Edge
<1>15. visited \subseteq graph.nodes /\ \A e \in DOMAIN graph.edges : graph.edges[e].to # initial
  BY DEF VisitInv
<1>16. \A w : w \in visited \/ w = v => Queued(w)' \/ (w \in visited /\ ~Queued(w))
  <2>1. \A w : Queued(w) => Queued(w)'
    BY <1>4, <1>6 DEF Queued
  <2>2. v \in visited \/ Queued(v)'
    <3>1. CASE v \notin visited
      <4>1. queue' = Append(queue, v)
        BY <1>4, <3>1
      <4>2. Len(queue) + 1 \in DOMAIN queue' /\ queue'[Len(queue) + 1] = v
        BY <1>6, <4>1
      <4>3. QED
        BY <4>2 DEF Queued
    <3>2. QED
      BY <3>1
  <2>3. QED
    BY <2>1, <2>2
<1>17. CASE ~IsNewJoin(v)
  <2>1. graph' = graph /\ visited' = visited \cup {v}
    BY <1>4, <1>17
  <2>2. v \in visited \/ OnceEntered(graph, v)
    BY <1>6, <1>14, <1>17, FewEnter DEF IsNewJoin
  <2>3. \A w \in visited' \ {initial} : OnceEntered(graph', w) \/ OnlyChecks(graph', w)
    BY <1>6, <2>1, <2>2 DEF VisitInv
  <2>4. \A w : AllMet(w) => AllMet(w)'
    BY <2>1 DEF AllMet
  <2>5. \A w \in visited' : Queued(w)' \/ w \in node' \/ AllMet(w)'
    BY <1>5, <1>16, <2>1, <2>4 DEF VisitInv
  <2>6. MetSoFar(u)'
    <3>1. ASSUME NEW e \in DOMAIN list, list[e] <= cursor'
          PROVE  graph.edges[e].to \in visited'
      <4>1. e = Edge(u) => graph.edges[e].to = v
        BY <1>14
      <4>2. list[e] <= cursor => graph.edges[e].to \in visited
        BY <1>6 DEF VisitInv, MetSoFar
      <4>3. QED
        BY <1>12, <2>1, <3>1, <4>1, <4>2
    <3>2. QED
      BY <1>13, <2>1, <3>1 DEF MetSoFar
  <2>7. visited' \subseteq graph'.nodes
    BY <1>14, <1>15, <2>1
  <2>8. VisitInv'
    BY <1>5, <1>6, <1>15, <2>1, <2>3, <2>5, <2>6, <2>7 DEF VisitInv
  <2>9. QED
    BY <2>1, <2>8
<1>18. CASE IsNewJoin(v)
  <2> DEFINE c == graph.lastEdge + 1
  <2>1. graph' = VisitedCheckAdded(v) /\ visited' = visited \cup {v, n} /\ v \notin visited
    BY <1>4, <1>18 DEF IsNewJoin
  <2>2. CheckPut(graph, graph', v, n, c)
    BY <1>1, <1>6, <1>14, <2>1, CheckAddedPuts
  <2>3. graph'.outs[u] = list
    <3>1. n \notin graph.nodes
      BY <2>2 DEF CheckPut
    <3>2. QED
      BY <1>1, <1>6, <2>1, <3>1 DEF VisitedCheckAdded, NewNode, ChangeEdgeTargets, AddEdge
  <2> HIDE DEF c
  <2>4. v # initial
    BY <1>6, <2>1
  <2>5. /\ n \notin graph.nodes /\ graph'.nodes = graph.nodes \cup {n}
        /\ c \notin DOMAIN graph.edges /\ DOMAIN graph'.edges = DOMAIN graph.edges \cup {c}
        /\ graph'.edges[c].from = n /\ graph'.edges[c].act.type = "visited"
        /\ graph'.edges[c].to = v
        /\ \A e \in DOMAIN graph.edges :
             /\ graph'.edges[e].act = graph.edges[e].act
             /\ graph'.edges[e].from = graph.edges[e].from
             /\ graph'.edges[e].to = IF graph.edges[e].to = v THEN n ELSE graph.edges[e].to
    BY <2>2 DEF CheckPut
  <2>6. Reached(graph', initial)
    BY <1>6, <1>14, <2>2, CheckReaches
  <2>7. \A e \in DOMAIN graph'.edges : graph'.edges[e].to # initial
    BY <1>6, <1>15, <2>4, <2>5
  <2>8. ASSUME NEW w \in visited' \ {initial}
        PROVE  OnceEntered(graph', w) \/ OnlyChecks(graph', w)
    <3>1. CASE w = n
      BY <1>7, <2>5, <3>1 DEF OnlyChecks, Unchecked
    <3>2. CASE w = v
      BY <1>7, <1>14, <2>5, <3>2 DEF OnceEntered
    <3>3. CASE w # n /\ w # v
      <4>1. w \in visited \ {initial} /\ w \in graph.nodes
        BY <1>15, <2>1, <3>3
      <4>2. CASE OnceEntered(graph, w)
        BY <1>7, <2>5, <3>3, <4>2 DEF OnceEntered
      <4>3. CASE OnlyChecks(graph, w)
        BY <1>7, <2>5, <3>3, <4>3 DEF OnlyChecks, Unchecked
      <4>4. QED
        BY <4>1, <4>2, <4>3 DEF VisitInv
    <3>4. QED
      BY <3>1, <3>2, <3>3
  <2>9. ASSUME NEW w \in visited, AllMet(w)
        PROVE  AllMet(w)'
    <3>1. w # n
      BY <1>15, <2>5
    <3>2. QED
      BY <2>1, <2>5, <2>9, <3>1 DEF AllMet
  <2>10. AllMet(n)'
    BY <1>7, <2>1, <2>5 DEF AllMet
  <2>11. ASSUME NEW w \in visited'
         PROVE  Queued(w)' \/ w \in node' \/ AllMet(w)'
    BY <1>5, <1>16, <2>1, <2>9, <2>10 DEF VisitInv
  <2>12. MetSoFar(u)'
    <3>1. ASSUME NEW e \in DOMAIN list, list[e] <= cursor'
          PROVE  graph'.edges[e].to \in visited'
      <4>1. e \in DOMAIN graph.edges
        BY <1>8
      <4>2. list[e] <= cursor => graph.edges[e].to \in visited
        BY <1>6 DEF VisitInv, MetSoFar
      <4>3. e = Edge(u) => graph.edges[e].to = v
        BY <1>14
      <4>4. QED
        BY <1>12, <2>1, <2>5, <3>1, <4>1, <4>2, <4>3
    <3>2. QED
      BY <1>13, <2>3, <3>1 DEF MetSoFar
  <2>13. visited' \subseteq graph'.nodes
    BY <1>14, <1>15, <2>1, <2>5
  <2>14. VisitInv'
    BY <1>5, <1>6, <2>7, <2>8, <2>11, <2>12, <2>13 DEF VisitInv
  <2>15. QED
    BY <2>6, <2>14
<1>19. QED
  BY <1>17, <1>18

----
\* When nothing waits to be visited every node was met, and so every join checked.
LEMMA LoopsInvVisited ==
  LoopsInv /\ (VisitNode \/ VisitEdge \/ LeaveNode \/ ChecksAdded) => LoopsInv'
<1>1. ASSUME LoopsInv, VisitNode
      PROVE  LoopsInv'
  <2>1. ActionsInv' /\ pass = "visited" /\ pass' = "visited"
    BY <1>1, ActionsInvVisited DEF LoopsInv, VisitNode
  <2>2. /\ node = {} /\ queue # <<>> /\ node' = {Head(queue)} /\ queue' = Tail(queue)
        /\ cursor' = 0 /\ UNCHANGED <<graph, initial, visited>>
    BY <1>1 DEF VisitNode
  <2>3. WellFormed(graph) /\ queue \in Seq(graph.nodes) /\ VisitInv /\ Reached(graph, initial)
    BY <1>1, <2>1 DEF LoopsInv, ActionsInv, NfaInv, GraphWellFormed, LoopsHoldNoErased
  <2>4. ASSUME NEW w, Queued(w)
        PROVE  Queued(w)' \/ w \in node'
    <3>1. PICK i \in DOMAIN queue : queue[i] = w
      BY <2>4 DEF Queued
    <3>2. CASE i = 1
      BY <2>2, <2>3, <3>1, <3>2
    <3>3. CASE i # 1
      <4>1. i - 1 \in DOMAIN Tail(queue) /\ Tail(queue)[i - 1] = w
        BY <2>2, <2>3, <3>1, <3>3
      <4>2. QED
        BY <2>2, <4>1 DEF Queued
    <3>4. QED
      BY <3>2, <3>3
  <2>5. \A w \in visited' : Queued(w)' \/ w \in node' \/ AllMet(w)'
    BY <2>2, <2>3, <2>4 DEF VisitInv, AllMet
  <2>6. PICK u : node' = {u} /\ u \in graph.nodes
    BY <2>2, <2>3, HeadTailProperties
  <2>7. MetSoFar(u)'
    <3>1. graph.lastPlace \in Nat
      BY <2>3 DEF WellFormed, Shaped
    <3>2. \A e \in DOMAIN graph.outs[u] : graph.outs[u][e] \in 1 .. graph.lastPlace
      BY <2>3, <2>6 DEF WellFormed, PlacesDiffer
    <3>3. \A e \in DOMAIN graph.outs[u] : ~(graph.outs[u][e] <= 0)
      BY <3>1, <3>2
    <3>4. QED
      BY <2>2, <3>3 DEF MetSoFar
  <2>8. VisitInv'
    BY <2>2, <2>3, <2>5, <2>6, <2>7 DEF VisitInv
  <2>9. QED
    BY <2>1, <2>2, <2>3, <2>8 DEF LoopsInv
<1>2. ASSUME LoopsInv, VisitEdge
      PROVE  LoopsInv'
  <2>1. /\ ActionsInv' /\ pass = "visited" /\ pass' = "visited" /\ initial' = initial
    BY <1>2, ActionsInvVisited DEF LoopsInv, VisitEdge
  <2>2. VisitInv' /\ Reached(graph', initial)
    BY <1>2, <2>1, VisitInvEdge DEF LoopsInv
  <2>3. QED
    BY <2>1, <2>2 DEF LoopsInv
<1>3. ASSUME LoopsInv, LeaveNode
      PROVE  LoopsInv'
  <2>1. /\ ActionsInv' /\ pass = "visited" /\ pass' = "visited"
        /\ node' = {} /\ UNCHANGED <<graph, initial, queue, visited, cursor>>
    BY <1>3, ActionsInvVisited DEF LoopsInv, LeaveNode
  <2>2. WellFormed(graph) /\ node \subseteq graph.nodes /\ VisitInv /\ Reached(graph, initial)
    BY <1>3, <2>1 DEF LoopsInv, ActionsInv, NfaInv, GraphWellFormed, LoopsHoldNoErased
  <2>3. PICK u \in node : After(graph.outs[u], cursor) = {}
    BY <1>3 DEF LeaveNode
  <2>4. node = {u} /\ u \in graph.nodes /\ MetSoFar(u)
    BY <2>2 DEF VisitInv
  <2>5. AllMet(u)
    <3>1. DOMAIN graph.outs[u] = {e \in DOMAIN graph.edges : graph.edges[e].from = u}
      BY <2>2, <2>4 DEF WellFormed, ListsAgree
    <3>2. \A e \in DOMAIN graph.outs[u] : graph.outs[u][e] \in 1 .. graph.lastPlace
      BY <2>2, <2>4 DEF WellFormed, PlacesDiffer
    <3>3. graph.lastPlace \in Nat /\ cursor \in Nat
      BY <2>2, <2>4 DEF WellFormed, Shaped, MetSoFar
    <3>4. \A e \in DOMAIN graph.outs[u] : graph.outs[u][e] <= cursor
      BY <2>3, <3>2, <3>3 DEF After
    <3>5. QED
      BY <2>4, <3>1, <3>4 DEF AllMet, MetSoFar
  <2>6. \A w \in visited' : Queued(w)' \/ AllMet(w)'
    BY <2>1, <2>2, <2>4, <2>5 DEF VisitInv, Queued, AllMet
  <2>7. VisitInv'
    BY <2>1, <2>2, <2>6 DEF VisitInv
  <2>8. QED
    BY <2>1, <2>2, <2>7 DEF LoopsInv
<1>4. ASSUME LoopsInv, ChecksAdded
      PROVE  LoopsInv'
  <2>1. /\ ActionsInv' /\ pass = "visited" /\ pass' = "split"
        /\ node = {} /\ queue = <<>> /\ graph' = graph
    BY <1>4, ActionsInvVisited DEF LoopsInv, ChecksAdded
  <2>2. /\ WellFormed(graph) /\ VisitInv /\ Reached(graph, initial)
        /\ initial \in graph.nodes /\ initial \in visited
    BY <1>4, <2>1 DEF LoopsInv, ActionsInv, NfaInv, GraphWellFormed, LoopsHoldNoErased
  <2>3. \A w \in visited : AllMet(w)
    BY <2>1, <2>2 DEF VisitInv, Queued
  <2>4. Keeps(graph, DOMAIN graph.edges, visited)
    BY <2>3 DEF Keeps, AllMet
  <2>5. visited = graph.nodes
    BY <2>2, <2>4 DEF Reached, VisitInv
  <2>6. NoneLooping(graph)
    BY <2>2, <2>5, JoinsChecked DEF VisitInv
  <2>7. QED
    BY <2>1, <2>6 DEF LoopsInv
<1>5. QED
  BY <1>1, <1>2, <1>3, <1>4

\* So every step keeps what is known of loops.
LEMMA LoopsInvStep == LoopsInv /\ [CreateNfaStep]_nfaVars => LoopsInv'
<1>1. ASSUME LoopsInv, UNCHANGED nfaVars
      PROVE  LoopsInv'
  <2>1. ActionsInv'
    BY <1>1, ActionsInvStep DEF LoopsInv
  <2>2. UNCHANGED <<graph, initial, final, pass, optimize, queue, visited, node, cursor>>
    BY <1>1 DEF nfaVars
  <2>3. VisitInv => VisitInv'
    BY <2>2 DEF VisitInv, Queued, AllMet, MetSoFar
  <2>4. QED
    BY <1>1, <2>1, <2>2, <2>3 DEF LoopsInv
<1>2. ASSUME LoopsInv, CreateNfaStep
      PROVE  LoopsInv'
  BY <1>2, LoopsInvNoops, LoopsInvVisited, LoopsInvSplit DEF CreateNfaStep
<1>3. QED
  BY <1>1, <1>2

\* What holds of every automaton whose dots are apart.
ApartInv == DotsApart(source) => LoopsInv

\* All of it holds of every automaton whose dots are apart.
LEMMA ApartInvAlways == Spec => []ApartInv
<1>1. Init => ApartInv
  BY LoopsInvInit DEF ApartInv
<1>2. ApartInv /\ [CreateNfaStep]_nfaVars => ApartInv'
  <2>1. SUFFICES ASSUME ApartInv, [CreateNfaStep]_nfaVars, DotsApart(source')
                 PROVE  LoopsInv'
    BY DEF ApartInv
  <2>2. source' = source
    BY <2>1, SourceStays
  <2>3. DotsApart(source)
    BY <2>1, <2>2
  <2>4. QED
    BY <2>1, <2>3, LoopsInvStep DEF ApartInv
<1>3. QED
  BY <1>1, <1>2, PTL DEF Spec

(***************************************************************************)
(* EraseNoops reads an edge it has erased only if dots alone lead from     *)
(* where the rules begin or branch to where they join or end, as in        *)
(* `(. + .)': of any other rules no dot to erase ever comes to begin and   *)
(* end at one node, in whatever order the dots are erased                  *)
(* (graph_creator.cc:202).                                                 *)
(***************************************************************************)
THEOREM NfaOnlyMeetingDotsBreak == Spec => []OnlyMeetingDotsBreak
<1>1. ApartInv => OnlyMeetingDotsBreak
  BY DEF ApartInv, LoopsInv, OnlyMeetingDotsBreak
<1>2. QED
  BY <1>1, ApartInvAlways, PTL

(***************************************************************************)
(* Of the same rules CreateNfa changes no sequence of actions they allow:  *)
(* erasing dots, adding visited checks and splitting nodes are invisible   *)
(* to the player, for automata of any size and every order of the passes.  *)
(* A dot that is an alternative of its own, as in `(. + right)', is where  *)
(* this fails.                                                             *)
(***************************************************************************)
THEOREM NfaActionsKept == Spec => [](DotsApart(source) => ActionsKept)
<1>1. ApartInv => (DotsApart(source) => ActionsKept)
  BY DEF ApartInv, LoopsInv, ActionsInv, ActionsKept
<1>2. QED
  BY <1>1, ApartInvAlways, PTL

(***************************************************************************)
(* And AddVisitedChecks puts a check on every loop, or a search would not  *)
(* end (graph_creator.cc:112): its search meets every node, and every      *)
(* other way into a loop than around it makes the node entered a join.     *)
(***************************************************************************)
THEOREM NfaNoLoopUnchecked == Spec => [](DotsApart(source) => NoLoopUnchecked)
<1>1. ApartInv => (DotsApart(source) => NoLoopUnchecked)
  BY NoneLoopingChecked
     DEF ApartInv, LoopsInv, ActionsInv, NfaInv, GraphWellFormed, NoLoopUnchecked
<1>2. QED
  BY <1>1, ApartInvAlways, PTL
====
