---- MODULE DotsAnalyses_proof ----
(***************************************************************************)
(* The product of an automaton with a board keeps every completion, and    *)
(* what the two walks of redundant_dots.cc say of a dot is so.             *)
(***************************************************************************)
EXTENDS DotsAnalyses, CreateNfa_proof

----
(***************************************************************************)
(* The product: the nodes reached, the greatest part of them in which      *)
(* every node but the final ones leads on, and the edges between these.    *)
(***************************************************************************)
\* The pairs of vertices and nodes are finitely many.
LEMMA VertexNodesFinite ==
  ASSUME NEW g, WellFormed(g), NEW b, IsBoardOf(b, g)
  PROVE  IsFiniteSet(VertexNodes(g, b))
  BY NodesFinite, FS_Product DEF IsBoardOf, VertexNodes

\* An edge of the product begins where it leaves and leads to a pair.
LEMMA LeavingLeads ==
  ASSUME NEW g, WellFormed(g), NEW b, IsBoardOf(b, g),
         NEW pn \in VertexNodes(g, b), NEW pe \in Leaving(g, b, pn)
  PROVE  /\ pe = <<pe[1], pe[2]>> /\ pe[1] \in b.vertices /\ pe[2] \in DOMAIN g.edges
         /\ NodeFrom(g, pe) = pn
         /\ NodeTo(g, b, pe) \in VertexNodes(g, b)
         /\ NodeTo(g, b, pe)[2] = g.edges[pe[2]].to
<1>1. /\ pn \in b.vertices \X g.nodes /\ pn[1] \in b.vertices /\ pn[2] \in g.nodes
      /\ pn = <<pn[1], pn[2]>>
  BY DEF VertexNodes
<1>2. PICK e \in DOMAIN g.outs[pn[2]] : pe = <<pn[1], e>> /\ Reachable(g, b, pn[1], e) # {}
  BY DEF Leaving
<1>3. e \in DOMAIN g.edges /\ g.edges[e].from = pn[2] /\ g.edges[e].to \in g.nodes
  BY <1>1, <1>2 DEF WellFormed, ListsAgree, EndsExist
<1>4. pe[1] = pn[1] /\ pe[2] = e
  BY <1>2
<1>5. NodeFrom(g, pe) = pn
  BY <1>1, <1>3, <1>4 DEF NodeFrom
<1>6. Reachable(g, b, pe[1], pe[2]) \subseteq b.vertices
  BY <1>1, <1>3, <1>4 DEF Reachable, IsBoardOf
<1> DEFINE next == CHOOSE vertex \in Reachable(g, b, pe[1], pe[2]) : TRUE
<1>7. next \in b.vertices
  BY <1>2, <1>4, <1>6
<1>8. NodeTo(g, b, pe) = <<next, g.edges[e].to>>
  BY <1>4 DEF NodeTo
<1> HIDE DEF next
<1>9. QED
  BY <1>1, <1>2, <1>3, <1>4, <1>5, <1>7, <1>8 DEF VertexNodes

\* No edge leads out of D.
ClosedForward(g, b, D) == \A pn \in D : \A pe \in Leaving(g, b, pn) : NodeTo(g, b, pe) \in D

\* The search visits the least set with its first nodes in it that no edge leads
\* out of.
LEMMA VisitedIsLeast ==
  ASSUME NEW g, WellFormed(g), NEW b, IsBoardOf(b, g), NEW S \in SUBSET VertexNodes(g, b)
  PROVE  /\ Visited(g, b, S) \in SUBSET VertexNodes(g, b)
         /\ S \subseteq Visited(g, b, S)
         /\ ClosedForward(g, b, Visited(g, b, S))
         /\ \A D \in SUBSET VertexNodes(g, b) :
              S \subseteq D /\ ClosedForward(g, b, D) => Visited(g, b, S) \subseteq D
<1> DEFINE U == VertexNodes(g, b)
           Step == [X \in SUBSET U |->
                      {NodeTo(g, b, pe) : pe \in UNION {Leaving(g, b, pn) : pn \in X}}]
<1>1. Visited(g, b, S) = Closure(U, Step, S)
  BY DEF Visited
<1>2. \A X \in SUBSET U :
        Step[X] = {NodeTo(g, b, pe) : pe \in UNION {Leaving(g, b, pn) : pn \in X}}
  OBVIOUS
<1>3. Step \in [SUBSET U -> SUBSET U]
  BY LeavingLeads
<1> HIDE DEF Step
<1>4. IsMonotone(U, Step)
  <2>1. \A X, Y \in SUBSET U : X \subseteq Y => Step[X] \subseteq Step[Y]
    BY <1>2
  <2>2. QED
    BY <2>1, <1>3 DEF IsMonotone
<1>5. \A D \in SUBSET U : Step[D] \subseteq D <=> ClosedForward(g, b, D)
  BY <1>2 DEF ClosedForward
<1>6. QED
  BY <1>1, <1>4, <1>5, VertexNodesFinite, ClosureIsLeast

\* Every node of D but the final ones leads on within D.
LeadsOn(g, b, last, D) ==
  \A pn \in D : pn[2] = last \/ \E pe \in Leaving(g, b, pn) : NodeTo(g, b, pe) \in D

\* The cleanup keeps the greatest part in which all nodes lead on.
LEMMA CleanedIsGreatest ==
  ASSUME NEW g, NEW b, NEW last, NEW S, IsFiniteSet(S)
  PROVE  /\ Cleaned(g, b, last, S) \subseteq S
         /\ LeadsOn(g, b, last, Cleaned(g, b, last, S))
         /\ \A D \in SUBSET S : LeadsOn(g, b, last, D) => D \subseteq Cleaned(g, b, last, S)
<1> DEFINE Dead(X) == {pn \in S : /\ pn[2] # last
                                  /\ ~\E pe \in Leaving(g, b, pn) : NodeTo(g, b, pe) \in S \ X}
           Step == [X \in SUBSET S |-> Dead(X)]
           C == Closure(S, Step, {})
<1>1. Cleaned(g, b, last, S) = S \ C
  BY DEF Cleaned
<1>2. \A X \in SUBSET S : Step[X] = Dead(X)
  OBVIOUS
<1>3. IsMonotone(S, Step)
  BY DEF IsMonotone
<1> HIDE DEF Step
<1>4. /\ C \in SUBSET S /\ Step[C] \subseteq C
      /\ \A D \in SUBSET S : Step[D] \subseteq D => C \subseteq D
  <2>1. {} \in SUBSET S /\ \A D \in SUBSET S : {} \subseteq D
    OBVIOUS
  <2>2. QED
    BY <1>3, <2>1, ClosureIsLeast
<1> HIDE DEF C
<1>5. LeadsOn(g, b, last, S \ C)
  BY <1>2, <1>4 DEF LeadsOn
<1>6. ASSUME NEW D \in SUBSET S, LeadsOn(g, b, last, D)
      PROVE  D \subseteq S \ C
  <2>1. S \ D \in SUBSET S /\ S \ (S \ D) = D
    OBVIOUS
  <2>2. Dead(S \ D) \subseteq S \ D
    BY <2>1, <1>6 DEF LeadsOn
  <2>3. Step[S \ D] \subseteq S \ D
    BY <2>1, <2>2, <1>2
  <2>4. C \subseteq S \ D
    BY <2>1, <2>3, <1>4
  <2>5. QED
    BY <2>4
<1>7. QED
  BY <1>1, <1>5, <1>6

\* What leads into D is of D, among the nodes of S.
ClosedBackward(g, b, S, D) ==
  \A pn \in S : (\E pe \in Leaving(g, b, pn) : NodeTo(g, b, pe) \in D) => pn \in D

\* The nodes that lead to T are the least set with T in it into which none leads.
LEMMA LiveIsLeast ==
  ASSUME NEW g, NEW b, NEW S, IsFiniteSet(S), NEW T \in SUBSET S
  PROVE  /\ Live(g, b, S, T) \in SUBSET S
         /\ T \subseteq Live(g, b, S, T)
         /\ ClosedBackward(g, b, S, Live(g, b, S, T))
         /\ \A D \in SUBSET S :
              T \subseteq D /\ ClosedBackward(g, b, S, D) => Live(g, b, S, T) \subseteq D
<1> DEFINE Step == [X \in SUBSET S |->
                      {pn \in S : \E pe \in Leaving(g, b, pn) : NodeTo(g, b, pe) \in X}]
<1>1. Live(g, b, S, T) = Closure(S, Step, T)
  BY DEF Live
<1>2. \A X \in SUBSET S :
        Step[X] = {pn \in S : \E pe \in Leaving(g, b, pn) : NodeTo(g, b, pe) \in X}
  OBVIOUS
<1>3. IsMonotone(S, Step)
  BY DEF IsMonotone
<1> HIDE DEF Step
<1>4. \A D \in SUBSET S : Step[D] \subseteq D <=> ClosedBackward(g, b, S, D)
  BY <1>2 DEF ClosedBackward
<1>5. QED
  BY <1>1, <1>3, <1>4, ClosureIsLeast

\* The nodes that lead to the final ones lead on.
LEMMA LiveLeadsOn ==
  ASSUME NEW g, NEW b, NEW last, NEW S, IsFiniteSet(S)
  PROVE  LeadsOn(g, b, last, Live(g, b, S, {pn \in S : pn[2] = last}))
<1> DEFINE T == {pn \in S : pn[2] = last}
           L == Live(g, b, S, T)
           D == {pn \in L : pn[2] = last \/ \E pe \in Leaving(g, b, pn) : NodeTo(g, b, pe) \in L}
<1>1. /\ L \in SUBSET S /\ T \subseteq L /\ ClosedBackward(g, b, S, L)
      /\ \A X \in SUBSET S : T \subseteq X /\ ClosedBackward(g, b, S, X) => L \subseteq X
  BY LiveIsLeast
<1> HIDE DEF L
<1>2. D \in SUBSET S /\ T \subseteq D
  BY <1>1
<1>3. ClosedBackward(g, b, S, D)
  BY <1>1 DEF ClosedBackward
<1>4. L \subseteq D
  BY <1>1, <1>2, <1>3
<1>5. QED
  BY <1>4 DEF LeadsOn, L

----
(***************************************************************************)
(* What is known of a product.                                             *)
(***************************************************************************)
\* A product p of g and b, from the node `first' on vertex 1 to the node `last':
\* its edges lead between its nodes, each of them leads on, and each is reached.
IsProduct(g, b, first, last, p) ==
  /\ IsFiniteSet(p.nodes) /\ IsFiniteSet(DOMAIN p.to)
  /\ \A pn \in p.nodes : pn[1] \in b.vertices
  /\ \A pe \in DOMAIN p.to : /\ NodeFrom(g, pe) \in p.nodes /\ p.to[pe] \in p.nodes
                             /\ pe \in Leaving(g, b, NodeFrom(g, pe))
                             /\ p.to[pe] = NodeTo(g, b, pe)
                             /\ pe[2] \in DOMAIN g.edges /\ p.to[pe][2] = g.edges[pe[2]].to
  /\ \A pn \in p.nodes : \A pe \in Leaving(g, b, pn) :
       NodeTo(g, b, pe) \in p.nodes => pe \in EdgesFrom(g, p, pn)
  /\ \A pn \in p.nodes : EdgesFrom(g, p, pn) = {} => pn[2] = last
  /\ \A D \in SUBSET p.nodes :
       /\ <<1, first>> \in p.nodes => <<1, first>> \in D
       /\ \A pe \in DOMAIN p.to : NodeFrom(g, pe) \in D => p.to[pe] \in D
       => p.nodes \subseteq D

\* NfaBoardProduct makes such a product.
LEMMA NfaBoardProductIs ==
  ASSUME NEW g, WellFormed(g), NEW b, IsBoardOf(b, g), 1 \in b.vertices,
         NEW first \in g.nodes, NEW last
  PROVE  IsProduct(g, b, first, last, NfaBoardProduct(g, b, first, last, {1}))
<1> DEFINE all == Visited(g, b, {<<vertex, first>> : vertex \in {1}})
           C == Cleaned(g, b, last, all)
           Kept(pn) == {pe \in Leaving(g, b, pn) : NodeTo(g, b, pe) \in C}
           p == NfaBoardProduct(g, b, first, last, {1})
<1>1. /\ {<<vertex, first>> : vertex \in {1}} = {<<1, first>>}
      /\ {<<1, first>>} \in SUBSET VertexNodes(g, b)
  BY DEF VertexNodes
<1>2. /\ all \in SUBSET VertexNodes(g, b) /\ <<1, first>> \in all
      /\ ClosedForward(g, b, all)
      /\ \A D \in SUBSET VertexNodes(g, b) :
           <<1, first>> \in D /\ ClosedForward(g, b, D) => all \subseteq D
  <2> HIDE DEF all
  <2>1. all = Visited(g, b, {<<1, first>>})
    BY <1>1 DEF all
  <2>2. /\ Visited(g, b, {<<1, first>>}) \in SUBSET VertexNodes(g, b)
        /\ {<<1, first>>} \subseteq Visited(g, b, {<<1, first>>})
        /\ ClosedForward(g, b, Visited(g, b, {<<1, first>>}))
        /\ \A D \in SUBSET VertexNodes(g, b) :
             {<<1, first>>} \subseteq D /\ ClosedForward(g, b, D)
               => Visited(g, b, {<<1, first>>}) \subseteq D
    BY <1>1, VisitedIsLeast
  <2>3. QED
    BY <2>1, <2>2
<1>3. p.nodes = C /\ p.to = [pe \in UNION {Kept(pn) : pn \in C} |-> NodeTo(g, b, pe)]
  BY DEF NfaBoardProduct
<1> HIDE DEF p
<1>4. IsFiniteSet(all)
  BY <1>2, VertexNodesFinite, FS_Subset
<1> HIDE DEF all
<1>5. /\ C \subseteq all /\ LeadsOn(g, b, last, C)
      /\ \A D \in SUBSET all : LeadsOn(g, b, last, D) => D \subseteq C
  BY <1>4, CleanedIsGreatest
<1> HIDE DEF C
<1>6. C \subseteq VertexNodes(g, b) /\ IsFiniteSet(C)
  BY <1>2, <1>4, <1>5, FS_Subset
<1>7. \A pe : pe \in DOMAIN p.to <=> \E pn \in C : pe \in Leaving(g, b, pn) /\ NodeTo(g, b, pe) \in C
  BY <1>3
<1>8. \A pe \in DOMAIN p.to : p.to[pe] = NodeTo(g, b, pe)
  BY <1>3
<1>9. \A pe \in DOMAIN p.to : /\ NodeFrom(g, pe) \in C /\ NodeTo(g, b, pe) \in C
                              /\ pe \in Leaving(g, b, NodeFrom(g, pe))
                              /\ NodeTo(g, b, pe)[2] = g.edges[pe[2]].to
                              /\ pe \in b.vertices \X DOMAIN g.edges
  <2>1. SUFFICES ASSUME NEW pn \in C, NEW pe \in Leaving(g, b, pn), NodeTo(g, b, pe) \in C
                 PROVE  /\ NodeFrom(g, pe) = pn
                        /\ NodeTo(g, b, pe)[2] = g.edges[pe[2]].to
                        /\ pe \in b.vertices \X DOMAIN g.edges
    BY <1>7
  <2>2. QED
    BY <1>6, LeavingLeads
<1>10. \A pn \in C : \A pe \in Leaving(g, b, pn) :
         NodeTo(g, b, pe) \in C => pe \in EdgesFrom(g, p, pn)
  <2>1. SUFFICES ASSUME NEW pn \in C, NEW pe \in Leaving(g, b, pn), NodeTo(g, b, pe) \in C
                 PROVE  pe \in DOMAIN p.to /\ NodeFrom(g, pe) = pn
    BY DEF EdgesFrom
  <2>2. pe \in DOMAIN p.to
    BY <1>7, <2>1
  <2>3. NodeFrom(g, pe) = pn
    BY <1>6, <2>1, LeavingLeads
  <2>4. QED
    BY <2>2, <2>3
<1>11. IsFiniteSet(DOMAIN p.to)
  <2>1. IsFiniteSet(b.vertices \X DOMAIN g.edges)
    BY EdgesFinite, FS_Product DEF IsBoardOf
  <2>2. DOMAIN p.to \subseteq b.vertices \X DOMAIN g.edges
    BY <1>9
  <2>3. QED
    BY <2>1, <2>2, FS_Subset
<1>12. \A pn \in C : EdgesFrom(g, p, pn) = {} => pn[2] = last
  BY <1>5, <1>10 DEF LeadsOn
<1>13. ASSUME NEW D \in SUBSET C, <<1, first>> \in C => <<1, first>> \in D,
              \A pe \in DOMAIN p.to : NodeFrom(g, pe) \in D => p.to[pe] \in D
       PROVE  C \subseteq D
  <2> DEFINE W == D \cup (all \ C)
  <2>1. W \in SUBSET VertexNodes(g, b) /\ <<1, first>> \in W /\ W \subseteq all
    BY <1>2, <1>5, <1>13
  <2>2. ASSUME NEW pn \in W, NEW pe \in Leaving(g, b, pn), NodeTo(g, b, pe) \in C
        PROVE  NodeTo(g, b, pe) \in D
    <3>1. LeadsOn(g, b, last, C \cup {pn})
      BY <1>5, <2>2 DEF LeadsOn
    <3>2. C \cup {pn} \in SUBSET all
      BY <1>5, <2>1
    <3>3. pn \in C
      BY <1>5, <3>1, <3>2
    <3>4. pn \in D
      BY <3>3
    <3>5. pe \in DOMAIN p.to /\ NodeFrom(g, pe) = pn
      BY <1>6, <1>7, <2>2, <3>3, LeavingLeads
    <3>6. QED
      BY <1>8, <1>13, <3>4, <3>5
  <2>3. ClosedForward(g, b, W)
    BY <1>2, <2>1, <2>2 DEF ClosedForward
  <2>4. all \subseteq W
    BY <1>2, <2>1, <2>3
  <2>5. QED
    BY <1>5, <2>4
<1>14. \A pn \in C : pn[1] \in b.vertices
  BY <1>6 DEF VertexNodes
<1>15. QED
  BY <1>3, <1>6, <1>8, <1>9, <1>10, <1>11, <1>12, <1>13, <1>14 DEF IsProduct, p

\* The nodes of a product that lead to a final one have been kept.
LEMMA ProductKeepsLive ==
  ASSUME NEW g, WellFormed(g), NEW b, IsBoardOf(b, g), 1 \in b.vertices,
         NEW first \in g.nodes, NEW last
  PROVE  LET all  == Visited(g, b, {<<1, first>>})
             live == Live(g, b, all, {pn \in all : pn[2] = last})
             p    == NfaBoardProduct(g, b, first, last, {1})
         IN  /\ IsFiniteSet(all) /\ p.nodes \subseteq all
             /\ live \subseteq p.nodes
<1> DEFINE all == Visited(g, b, {<<1, first>>})
           live == Live(g, b, all, {pn \in all : pn[2] = last})
           p == NfaBoardProduct(g, b, first, last, {1})
<1>1. {<<vertex, first>> : vertex \in {1}} = {<<1, first>>}
  OBVIOUS
<1>2. p.nodes = Cleaned(g, b, last, all)
  BY <1>1 DEF NfaBoardProduct
<1>3. {<<1, first>>} \in SUBSET VertexNodes(g, b)
  BY DEF VertexNodes
<1>4. IsFiniteSet(all)
  BY <1>3, VisitedIsLeast, VertexNodesFinite, FS_Subset
<1> HIDE DEF all, p
<1>5. LeadsOn(g, b, last, live)
  BY <1>4, LiveLeadsOn
<1>6. live \in SUBSET all
  BY <1>4, LiveIsLeast
<1> HIDE DEF live
<1>7. p.nodes \subseteq all /\ live \subseteq p.nodes
  BY <1>2, <1>4, <1>5, <1>6, CleanedIsGreatest
<1>8. QED
  BY <1>4, <1>7 DEF all, live, p

----
(***************************************************************************)
(* Walks.  A walk from u takes the one step that Succ has at each place,   *)
(* as long as there is one.                                                *)
(***************************************************************************)
IsWalk(U, Succ) ==
  /\ IsFiniteSet(U) /\ Succ \in [U -> SUBSET U]
  /\ \A u \in U : \A x, y \in Succ[u] : x = y

Walk(U, Succ, u) == Closure(U, [X \in SUBSET U |-> UNION {Succ[x] : x \in X}], {u})

\* The places walked are the least set with the first in it that no step leads
\* out of.
LEMMA WalkIsLeast ==
  ASSUME NEW U, NEW Succ, IsWalk(U, Succ), NEW u \in U
  PROVE  /\ Walk(U, Succ, u) \in SUBSET U /\ u \in Walk(U, Succ, u)
         /\ \A x \in Walk(U, Succ, u) : Succ[x] \subseteq Walk(U, Succ, u)
         /\ \A D \in SUBSET U : u \in D /\ (\A x \in D : Succ[x] \subseteq D)
                                  => Walk(U, Succ, u) \subseteq D
<1> DEFINE Step == [X \in SUBSET U |-> UNION {Succ[x] : x \in X}]
           W == Closure(U, Step, {u})
<1>1. \A X \in SUBSET U : Step[X] = UNION {Succ[x] : x \in X}
  OBVIOUS
<1>2. Step \in [SUBSET U -> SUBSET U]
  BY DEF IsWalk
<1>3. Walk(U, Succ, u) = W
  BY DEF Walk
<1> HIDE DEF Step
<1>4. IsMonotone(U, Step)
  <2>1. \A X, Y \in SUBSET U : X \subseteq Y => Step[X] \subseteq Step[Y]
    BY <1>1
  <2>2. QED
    BY <1>2, <2>1 DEF IsMonotone
<1>5. /\ W \in SUBSET U /\ {u} \subseteq W /\ Step[W] \subseteq W
      /\ \A D \in SUBSET U : {u} \subseteq D /\ Step[D] \subseteq D => W \subseteq D
  BY <1>4, ClosureIsLeast DEF IsWalk
<1> HIDE DEF W
<1>6. \A D \in SUBSET U : (\A x \in D : Succ[x] \subseteq D) <=> Step[D] \subseteq D
  BY <1>1
<1>7. QED
  BY <1>3, <1>5, <1>6

\* A walk that takes a step goes on as the walk from there.
LEMMA WalkGoesOn ==
  ASSUME NEW U, NEW Succ, IsWalk(U, Succ), NEW u \in U, NEW x \in Succ[u]
  PROVE  x \in U /\ Walk(U, Succ, u) \subseteq {u} \cup Walk(U, Succ, x)
<1>1. x \in U
  BY DEF IsWalk
<1>2. /\ Walk(U, Succ, x) \in SUBSET U /\ x \in Walk(U, Succ, x)
      /\ \A y \in Walk(U, Succ, x) : Succ[y] \subseteq Walk(U, Succ, x)
  BY <1>1, WalkIsLeast
<1>3. Succ[u] = {x}
  BY DEF IsWalk
<1>4. {u} \cup Walk(U, Succ, x) \in SUBSET U
  BY <1>2
<1>5. \A y \in {u} \cup Walk(U, Succ, x) : Succ[y] \subseteq {u} \cup Walk(U, Succ, x)
  BY <1>2, <1>3
<1>6. Walk(U, Succ, u) \subseteq {u} \cup Walk(U, Succ, x)
  <2> DEFINE D == {u} \cup Walk(U, Succ, x)
  <2>1. D \in SUBSET U /\ u \in D /\ \A y \in D : Succ[y] \subseteq D
    BY <1>4, <1>5
  <2> HIDE DEF D
  <2>2. Walk(U, Succ, u) \subseteq D
    BY <2>1, WalkIsLeast
  <2>3. QED
    BY <2>2 DEF D
<1>7. QED
  BY <1>1, <1>6

\* A walk has one end at most.
LEMMA WalkHasOneEnd ==
  ASSUME NEW U, NEW Succ, IsWalk(U, Succ), NEW u \in U,
         NEW end \in Walk(U, Succ, u), Succ[end] = {}
  PROVE  \A x \in Walk(U, Succ, u) : Succ[x] = {} => x = end
<1> DEFINE D == {x \in U : end \in Walk(U, Succ, x)}
<1>1. D \in SUBSET U /\ u \in D
  OBVIOUS
<1>2. ASSUME NEW x \in D, NEW y \in Succ[x]
      PROVE  y \in D
  <2>1. x # end
    BY <1>2
  <2>2. y \in U /\ Walk(U, Succ, x) \subseteq {x} \cup Walk(U, Succ, y)
    BY <1>2, WalkGoesOn
  <2>3. QED
    BY <1>2, <2>1, <2>2
<1>3. Walk(U, Succ, u) \subseteq D
  BY <1>1, <1>2, WalkIsLeast
<1>4. ASSUME NEW x \in Walk(U, Succ, u), Succ[x] = {}
      PROVE  x = end
  <2>1. x \in U /\ end \in Walk(U, Succ, x)
    BY <1>3, <1>4
  <2>2. {x} \in SUBSET U /\ \A y \in {x} : Succ[y] \subseteq {x}
    BY <1>4, <2>1
  <2>3. Walk(U, Succ, x) \subseteq {x}
    BY <2>1, <2>2, WalkIsLeast
  <2>4. QED
    BY <2>1, <2>3
<1>5. QED
  BY <1>4

\* A set of edges has one member or none, and it has an edge to follow if that
\* one is no marker.
LEMMA EdgesToFollow ==
  ASSUME NEW g, NEW mods, NEW E, IsFiniteSet(E)
  PROVE  /\ \A x, y \in Onward(g, mods, E) : x = y
         /\ Onward(g, mods, E) \subseteq E
         /\ \A e \in Onward(g, mods, E) : E = {e} /\ ~IsMarker(g, mods, e)
         /\ IsEnd(E) /\ EndsAt(g, mods, E) => E = {} \/ \E e : E = {e} /\ IsMarker(g, mods, e)
         /\ E = {} => EndsAt(g, mods, E) /\ IsEnd(E)
<1>1. Cardinality(E) = 1 => \E e : E = {e}
  BY FS_Singleton
<1>2. Cardinality(E) \in Nat /\ (Cardinality(E) = 0 <=> E = {})
  BY FS_CardinalityType, FS_EmptySet
<1>3. IsEnd(E) => E = {} \/ Cardinality(E) = 1
  BY <1>2 DEF IsEnd
<1>4. QED
  BY <1>1, <1>2, <1>3 DEF Onward, EndsAt, IsEnd

----
(***************************************************************************)
(* The walk to the right.                                                  *)
(***************************************************************************)
RightSucc(g, p, mods) ==
  [at \in p.nodes |-> {p.to[pe] : pe \in Onward(g, mods, EdgesFrom(g, p, at))}]

\* RightWalk is the walk along the edges to follow.
LEMMA RightWalkIs ==
  ASSUME NEW g, NEW b, NEW first, NEW last, NEW p, IsProduct(g, b, first, last, p),
         NEW mods, NEW pn \in p.nodes
  PROVE  /\ IsWalk(p.nodes, RightSucc(g, p, mods))
         /\ RightWalk(g, p, mods, pn) = Walk(p.nodes, RightSucc(g, p, mods), pn)
         /\ \A at \in p.nodes :
              EndsAt(g, mods, EdgesFrom(g, p, at)) <=> RightSucc(g, p, mods)[at] = {}
<1> DEFINE Succ == RightSucc(g, p, mods)
           Followed(at) == Onward(g, mods, EdgesFrom(g, p, at))
<1>1. \A at \in p.nodes : Succ[at] = {p.to[pe] : pe \in Followed(at)}
  BY DEF RightSucc
<1>2. \A at \in p.nodes : /\ \A x, y \in Followed(at) : x = y
                          /\ Followed(at) \subseteq EdgesFrom(g, p, at)
  <2>1. \A at \in p.nodes : IsFiniteSet(EdgesFrom(g, p, at))
    BY FS_Subset DEF EdgesFrom, IsProduct
  <2>2. QED
    BY <2>1, EdgesToFollow
<1>3. \A at \in p.nodes : Succ[at] \subseteq p.nodes
  <2>1. \A pe \in DOMAIN p.to : p.to[pe] \in p.nodes
    BY DEF IsProduct
  <2>2. \A at \in p.nodes : Followed(at) \subseteq DOMAIN p.to
    BY <1>2 DEF EdgesFrom
  <2>3. QED
    BY <1>1, <2>1, <2>2
<1>4. Succ \in [p.nodes -> SUBSET p.nodes]
  BY <1>1, <1>3 DEF RightSucc
<1>5. \A at \in p.nodes : \A x, y \in Succ[at] : x = y
  BY <1>1, <1>2
<1>6. IsWalk(p.nodes, Succ)
  BY <1>4, <1>5 DEF IsWalk, IsProduct
<1>7. \A X \in SUBSET p.nodes :
        {p.to[pe] : pe \in UNION {Followed(at) : at \in X}} = UNION {Succ[at] : at \in X}
  BY <1>1
<1>8. [X \in SUBSET p.nodes |-> {p.to[pe] : pe \in UNION {Followed(at) : at \in X}}]
        = [X \in SUBSET p.nodes |-> UNION {Succ[at] : at \in X}]
  BY <1>7
<1>9. RightWalk(g, p, mods, pn) = Walk(p.nodes, Succ, pn)
  BY <1>8 DEF RightWalk, Walk
<1>10. \A at \in p.nodes : EndsAt(g, mods, EdgesFrom(g, p, at)) <=> Succ[at] = {}
  BY <1>1 DEF EndsAt
<1>11. QED
  BY <1>6, <1>9, <1>10

\* What is reached without a marker is the least set with S in it that no plain
\* edge leads out of.
LEMMA AheadIsLeast ==
  ASSUME IsProduct(graph, board, initial, final, product), NEW S \in SUBSET product.nodes
  PROVE  /\ Ahead(S) \in SUBSET product.nodes /\ S \subseteq Ahead(S)
         /\ \A pe \in Plain : NodeFrom(graph, pe) \in Ahead(S) => product.to[pe] \in Ahead(S)
         /\ \A D \in SUBSET product.nodes :
              S \subseteq D /\ (\A pe \in Plain : NodeFrom(graph, pe) \in D => product.to[pe] \in D)
                => Ahead(S) \subseteq D
<1> DEFINE U == product.nodes
           Step == [X \in SUBSET U |->
                      {product.to[pe] : pe \in {x \in Plain : NodeFrom(graph, x) \in X}}]
           A == Closure(U, Step, S)
<1>1. Ahead(S) = A
  BY DEF Ahead
<1>2. \A X \in SUBSET U :
        Step[X] = {product.to[pe] : pe \in {x \in Plain : NodeFrom(graph, x) \in X}}
  OBVIOUS
<1>3. \A pe \in Plain : product.to[pe] \in U
  BY DEF Plain, IsProduct
<1>4. Step \in [SUBSET U -> SUBSET U]
  BY <1>3
<1> HIDE DEF Step
<1>5. IsMonotone(U, Step)
  <2>1. \A X, Y \in SUBSET U : X \subseteq Y => Step[X] \subseteq Step[Y]
    BY <1>2
  <2>2. QED
    BY <1>4, <2>1 DEF IsMonotone
<1>6. /\ A \in SUBSET U /\ S \subseteq A /\ Step[A] \subseteq A
      /\ \A D \in SUBSET U : S \subseteq D /\ Step[D] \subseteq D => A \subseteq D
  BY <1>5, ClosureIsLeast DEF IsProduct
<1> HIDE DEF A
<1>7. \A D \in SUBSET U :
        Step[D] \subseteq D <=> \A pe \in Plain : NodeFrom(graph, pe) \in D => product.to[pe] \in D
  BY <1>2
<1>8. QED
  BY <1>1, <1>6, <1>7

\* Behind a place from which the walk to the right ends well there is one marker,
\* or one end of the move, and nothing else.
LEMMA RightIsOne ==
  ASSUME IsProduct(graph, board, initial, final, product), DOMAIN graph.outs[final] = {},
         NEW pn \in product.nodes, IsRightDetermined(graph, product, asDots, pn) = "yes"
  PROVE  \E one : {x \in Markers : NodeFrom(graph, x) \in Ahead({pn})}
                    \cup {at \in Ahead({pn}) : at[2] = final} = {one}
<1> DEFINE U == product.nodes
           Succ == RightSucc(graph, product, asDots)
           From(at) == EdgesFrom(graph, product, at)
           W == RightWalk(graph, product, asDots, pn)
           A == Ahead({pn})
<1>1. PICK end \in W : EndsAt(graph, asDots, From(end)) /\ IsEnd(From(end))
  BY DEF IsRightDetermined
<1>2. IsWalk(U, Succ) /\ W = Walk(U, Succ, pn)
  BY RightWalkIs
<1>3. \A at \in U : EndsAt(graph, asDots, From(at)) <=> Succ[at] = {}
  BY RightWalkIs
<1>4. /\ W \in SUBSET U /\ pn \in W /\ \A x \in W : Succ[x] \subseteq W
      /\ \A D \in SUBSET U : pn \in D /\ (\A x \in D : Succ[x] \subseteq D) => W \subseteq D
  BY <1>2, WalkIsLeast
<1>5. \A x \in W : Succ[x] = {} => x = end
  <2>1. end \in Walk(U, Succ, pn) /\ Succ[end] = {}
    BY <1>1, <1>2, <1>3, <1>4
  <2>2. QED
    BY <1>2, <2>1, WalkHasOneEnd
<1>6. \A x \in U : Succ[x] = {product.to[pe] : pe \in Onward(graph, asDots, From(x))}
  BY DEF RightSucc
<1> HIDE DEF Succ, W
<1>7. \A x \in U : IsFiniteSet(From(x))
  BY FS_Subset DEF EdgesFrom, IsProduct
<1>8. \A pe \in DOMAIN product.to : pe \in Plain <=> ~IsMarker(graph, asDots, pe)
  BY DEF Plain
<1>9. Plain \subseteq DOMAIN product.to /\ Markers = DOMAIN product.to \ Plain
  BY DEF Plain, Markers
<1>10. \A x \in U : \A pe : pe \in From(x) <=> pe \in DOMAIN product.to /\ NodeFrom(graph, pe) = x
  BY DEF EdgesFrom
<1>11. ASSUME NEW x \in W, x # end
       PROVE  \E pe \in Plain : From(x) = {pe} /\ product.to[pe] \in W
  <2>1. PICK pe \in Onward(graph, asDots, From(x)) : TRUE
    BY <1>4, <1>5, <1>6, <1>11
  <2>2. From(x) = {pe} /\ ~IsMarker(graph, asDots, pe)
    BY <1>4, <1>7, EdgesToFollow
  <2>3. product.to[pe] \in W
    BY <1>4, <1>6
  <2>4. pe \in Plain
    BY <1>4, <1>8, <1>10, <2>2
  <2>5. QED
    BY <2>2, <2>3, <2>4
<1>12. From(end) = {} \/ \E m : From(end) = {m} /\ IsMarker(graph, asDots, m)
  BY <1>1, <1>4, <1>7, EdgesToFollow
<1> HIDE DEF From
<1>13. /\ A \in SUBSET U /\ pn \in A
       /\ \A pe \in Plain : NodeFrom(graph, pe) \in A => product.to[pe] \in A
       /\ \A D \in SUBSET U :
            pn \in D /\ (\A pe \in Plain : NodeFrom(graph, pe) \in D => product.to[pe] \in D)
              => A \subseteq D
  <2>1. {pn} \in SUBSET product.nodes
    OBVIOUS
  <2>2. /\ A \in SUBSET U /\ {pn} \subseteq A
        /\ \A pe \in Plain : NodeFrom(graph, pe) \in A => product.to[pe] \in A
        /\ \A D \in SUBSET U :
             {pn} \subseteq D
               /\ (\A pe \in Plain : NodeFrom(graph, pe) \in D => product.to[pe] \in D)
               => A \subseteq D
    BY <2>1, AheadIsLeast
  <2>3. QED
    BY <2>2
<1> HIDE DEF A
<1>14. \A pe \in Plain : NodeFrom(graph, pe) \in W => product.to[pe] \in W
  <2>1. SUFFICES ASSUME NEW pe \in Plain, NodeFrom(graph, pe) \in W
                 PROVE  product.to[pe] \in W
    OBVIOUS
  <2>2. pe \in From(NodeFrom(graph, pe))
    BY <1>4, <1>9, <1>10, <2>1
  <2>3. CASE NodeFrom(graph, pe) = end
    BY <1>8, <1>9, <1>12, <2>1, <2>2, <2>3
  <2>4. CASE NodeFrom(graph, pe) # end
    BY <1>11, <2>1, <2>2, <2>4
  <2>5. QED
    BY <2>3, <2>4
<1>15. A = W
  <2>1. A \subseteq W
    BY <1>4, <1>13, <1>14
  <2>2. \A x \in A \cap W : Succ[x] \subseteq A \cap W
    <3>1. SUFFICES ASSUME NEW x \in A \cap W, NEW y \in Succ[x]
                   PROVE  y \in A
      BY <1>4
    <3>2. PICK pe \in Onward(graph, asDots, From(x)) : y = product.to[pe]
      BY <1>6, <1>13, <3>1 DEF From
    <3>3. pe \in Plain /\ NodeFrom(graph, pe) = x
      BY <1>7, <1>8, <1>10, <1>13, EdgesToFollow
    <3>4. QED
      BY <1>13, <3>2, <3>3
  <2>3. A \cap W \in SUBSET U /\ pn \in A \cap W
    BY <1>4, <1>13
  <2>4. W \subseteq A \cap W
    BY <1>4, <2>2, <2>3
  <2>5. QED
    BY <2>1, <2>4
<1>16. \A x \in U : x[2] = final => From(x) = {}
  BY DEF IsProduct, EdgesFrom, Leaving, From
<1>17. \A x \in W : x # end => x[2] # final
  BY <1>4, <1>11, <1>16
<1>18. \A x \in Markers : NodeFrom(graph, x) \in W => NodeFrom(graph, x) = end
  <2>1. SUFFICES ASSUME NEW x \in Markers, NodeFrom(graph, x) \in W, NodeFrom(graph, x) # end
                 PROVE  FALSE
    OBVIOUS
  <2>2. x \in From(NodeFrom(graph, x))
    BY <1>4, <1>9, <1>10, <2>1
  <2>3. QED
    BY <1>9, <1>11, <2>1, <2>2
<1>19. CASE From(end) = {}
  <2>1. end[2] = final
    BY <1>4, <1>19 DEF From, IsProduct
  <2>2. {x \in Markers : NodeFrom(graph, x) \in W} = {}
    BY <1>4, <1>9, <1>10, <1>18, <1>19
  <2>3. {at \in W : at[2] = final} = {end}
    BY <1>17, <2>1
  <2>4. QED
    BY <1>15, <2>2, <2>3 DEF A
<1>20. CASE \E m : From(end) = {m} /\ IsMarker(graph, asDots, m)
  <2>1. PICK m : From(end) = {m} /\ IsMarker(graph, asDots, m)
    BY <1>20
  <2>2. end[2] # final
    BY <1>4, <1>16, <2>1
  <2>3. {at \in W : at[2] = final} = {}
    BY <1>17, <2>2
  <2>4. m \in Markers /\ NodeFrom(graph, m) = end
    BY <1>4, <1>8, <1>9, <1>10, <2>1
  <2>5. {x \in Markers : NodeFrom(graph, x) \in W} = {m}
    BY <1>4, <1>9, <1>10, <1>18, <2>1, <2>4
  <2>6. QED
    BY <1>15, <2>3, <2>5 DEF A
<1>21. QED
  BY <1>12, <1>19, <1>20

----
(***************************************************************************)
(* The walk to the left.                                                   *)
(***************************************************************************)
LeftFollowed(g, p, mods, at) ==
  {pe \in Onward(g, mods, EdgesTo(p, at)) : Cardinality(EdgesFrom(g, p, at)) <= 1}

LeftSucc(g, p, mods) ==
  [at \in p.nodes |-> {NodeFrom(g, pe) : pe \in LeftFollowed(g, p, mods, at)}]

\* LeftWalk is the walk back along the edges to follow.
LEMMA LeftWalkIs ==
  ASSUME NEW g, NEW b, NEW first, NEW last, NEW p, IsProduct(g, b, first, last, p),
         NEW mods, NEW pn \in p.nodes
  PROVE  /\ IsWalk(p.nodes, LeftSucc(g, p, mods))
         /\ LeftWalk(g, p, mods, pn) = Walk(p.nodes, LeftSucc(g, p, mods), pn)
         /\ \A at \in p.nodes :
              EndsAt(g, mods, EdgesTo(p, at)) => LeftSucc(g, p, mods)[at] = {}
<1> DEFINE Succ == LeftSucc(g, p, mods)
           Followed(at) == LeftFollowed(g, p, mods, at)
<1>1. \A at \in p.nodes : Succ[at] = {NodeFrom(g, pe) : pe \in Followed(at)}
  BY DEF LeftSucc
<1>2. \A at \in p.nodes : /\ \A x, y \in Followed(at) : x = y
                          /\ Followed(at) \subseteq EdgesTo(p, at)
  <2>1. \A at \in p.nodes : IsFiniteSet(EdgesTo(p, at))
    BY FS_Subset DEF EdgesTo, IsProduct
  <2>2. QED
    BY <2>1, EdgesToFollow DEF LeftFollowed
<1>3. \A at \in p.nodes : Succ[at] \subseteq p.nodes
  <2>1. \A pe \in DOMAIN p.to : NodeFrom(g, pe) \in p.nodes
    BY DEF IsProduct
  <2>2. \A at \in p.nodes : Followed(at) \subseteq DOMAIN p.to
    BY <1>2 DEF EdgesTo
  <2>3. QED
    BY <1>1, <2>1, <2>2
<1>4. Succ \in [p.nodes -> SUBSET p.nodes]
  BY <1>1, <1>3 DEF LeftSucc
<1>5. \A at \in p.nodes : \A x, y \in Succ[at] : x = y
  BY <1>1, <1>2
<1>6. IsWalk(p.nodes, Succ)
  BY <1>4, <1>5 DEF IsWalk, IsProduct
<1>7. \A X \in SUBSET p.nodes :
        {NodeFrom(g, pe) : pe \in UNION {Followed(at) : at \in X}} = UNION {Succ[at] : at \in X}
  BY <1>1
<1>8. [X \in SUBSET p.nodes |-> {NodeFrom(g, pe) : pe \in UNION {Followed(at) : at \in X}}]
        = [X \in SUBSET p.nodes |-> UNION {Succ[at] : at \in X}]
  BY <1>7
<1>9. LeftWalk(g, p, mods, pn) = Walk(p.nodes, Succ, pn)
  BY <1>8 DEF LeftWalk, Walk, LeftFollowed
<1>10. \A at \in p.nodes : EndsAt(g, mods, EdgesTo(p, at)) => Succ[at] = {}
  BY <1>1 DEF EndsAt, LeftFollowed
<1>11. QED
  BY <1>6, <1>9, <1>10

\* What leads to S without a marker is the least set with S in it into which no
\* plain edge leads.
LEMMA BehindIsLeast ==
  ASSUME IsProduct(graph, board, initial, final, product), NEW S \in SUBSET product.nodes
  PROVE  /\ Behind(S) \in SUBSET product.nodes /\ S \subseteq Behind(S)
         /\ \A pe \in Plain : product.to[pe] \in Behind(S) => NodeFrom(graph, pe) \in Behind(S)
         /\ \A D \in SUBSET product.nodes :
              S \subseteq D /\ (\A pe \in Plain : product.to[pe] \in D => NodeFrom(graph, pe) \in D)
                => Behind(S) \subseteq D
<1> DEFINE U == product.nodes
           Step == [X \in SUBSET U |->
                      {NodeFrom(graph, pe) : pe \in {x \in Plain : product.to[x] \in X}}]
           B == Closure(U, Step, S)
<1>1. Behind(S) = B
  BY DEF Behind
<1>2. \A X \in SUBSET U :
        Step[X] = {NodeFrom(graph, pe) : pe \in {x \in Plain : product.to[x] \in X}}
  OBVIOUS
<1>3. \A pe \in Plain : NodeFrom(graph, pe) \in U
  BY DEF Plain, IsProduct
<1>4. Step \in [SUBSET U -> SUBSET U]
  BY <1>3
<1> HIDE DEF Step
<1>5. IsMonotone(U, Step)
  <2>1. \A X, Y \in SUBSET U : X \subseteq Y => Step[X] \subseteq Step[Y]
    BY <1>2
  <2>2. QED
    BY <1>4, <2>1 DEF IsMonotone
<1>6. /\ B \in SUBSET U /\ S \subseteq B /\ Step[B] \subseteq B
      /\ \A D \in SUBSET U : S \subseteq D /\ Step[D] \subseteq D => B \subseteq D
  BY <1>5, ClosureIsLeast DEF IsProduct
<1> HIDE DEF B
<1>7. \A D \in SUBSET U :
        Step[D] \subseteq D <=> \A pe \in Plain : product.to[pe] \in D => NodeFrom(graph, pe) \in D
  BY <1>2
<1>8. QED
  BY <1>1, <1>6, <1>7

\* No edge enters the first node of a product.
LEMMA FirstNotEntered ==
  ASSUME NEW g, WellFormed(g), NEW b, NEW first \in g.nodes, NEW last, NEW p,
         IsProduct(g, b, first, last, p), g.ins[first] = {}
  PROVE  EdgesTo(p, <<1, first>>) = {}
<1>1. \A e \in DOMAIN g.edges : g.edges[e].to # first
  BY DEF WellFormed, ListsAgree
<1>2. SUFFICES ASSUME NEW pe \in DOMAIN p.to, p.to[pe] = <<1, first>>
               PROVE  FALSE
  BY DEF EdgesTo
<1>3. pe \in Leaving(g, b, NodeFrom(g, pe)) /\ g.edges[pe[2]].to = first
  BY <1>2 DEF IsProduct
<1>4. pe[2] \in DOMAIN g.edges
  BY <1>2 DEF IsProduct
<1>5. QED
  BY <1>1, <1>3, <1>4

\* A node of a product that no edge enters is its first.
LEMMA OnlyFirstNotEntered ==
  ASSUME NEW g, NEW b, NEW first, NEW last, NEW p, IsProduct(g, b, first, last, p),
         NEW at \in p.nodes, EdgesTo(p, at) = {}
  PROVE  at = <<1, first>>
<1>1. SUFFICES ASSUME at # <<1, first>> PROVE FALSE
  OBVIOUS
<1> DEFINE D == p.nodes \ {at}
<1>2. D \in SUBSET p.nodes /\ (<<1, first>> \in p.nodes => <<1, first>> \in D)
  BY <1>1
<1>3. \A pe \in DOMAIN p.to : p.to[pe] \in D
  BY DEF EdgesTo, IsProduct
<1>4. p.nodes \subseteq D
  BY <1>2, <1>3 DEF IsProduct
<1>5. QED
  BY <1>4

\* Before a place from which the walk to the left ends well there is one marker,
\* or the start of the move, and nothing else.
LEMMA LeftIsOne ==
  ASSUME IsProduct(graph, board, initial, final, product), initial = source.initial,
         EdgesTo(product, InitialNode) = {},
         NEW pn \in product.nodes, IsLeftDetermined(graph, product, asDots, pn)
  PROVE  \E one : {x \in Markers : product.to[x] \in Behind({pn})}
                    \cup ({InitialNode} \cap Behind({pn})) = {one}
<1> DEFINE U == product.nodes
           Succ == LeftSucc(graph, product, asDots)
           Into(at) == EdgesTo(product, at)
           W == LeftWalk(graph, product, asDots, pn)
           B == Behind({pn})
<1>1. PICK end \in W : EndsAt(graph, asDots, Into(end)) /\ IsEnd(Into(end))
  BY DEF IsLeftDetermined
<1>2. IsWalk(U, Succ) /\ W = Walk(U, Succ, pn)
  BY LeftWalkIs
<1>3. \A at \in U : EndsAt(graph, asDots, Into(at)) => Succ[at] = {}
  BY LeftWalkIs
<1>4. /\ W \in SUBSET U /\ pn \in W /\ \A x \in W : Succ[x] \subseteq W
      /\ \A D \in SUBSET U : pn \in D /\ (\A x \in D : Succ[x] \subseteq D) => W \subseteq D
  BY <1>2, WalkIsLeast
<1>5. \A x \in W : Succ[x] = {} => x = end
  <2>1. end \in Walk(U, Succ, pn) /\ Succ[end] = {}
    BY <1>1, <1>2, <1>3, <1>4
  <2>2. QED
    BY <1>2, <2>1, WalkHasOneEnd
<1>6. \A x \in U : /\ Succ[x] = {NodeFrom(graph, pe) : pe \in LeftFollowed(graph, product, asDots, x)}
                   /\ LeftFollowed(graph, product, asDots, x) \subseteq Onward(graph, asDots, Into(x))
  BY DEF LeftSucc, LeftFollowed
<1> HIDE DEF Succ, W
<1>7. \A x \in U : IsFiniteSet(Into(x))
  BY FS_Subset DEF EdgesTo, IsProduct
<1>8. \A pe \in DOMAIN product.to : pe \in Plain <=> ~IsMarker(graph, asDots, pe)
  BY DEF Plain
<1>9. Plain \subseteq DOMAIN product.to /\ Markers = DOMAIN product.to \ Plain
  BY DEF Plain, Markers
<1>10. \A x \in U : \A pe : pe \in Into(x) <=> pe \in DOMAIN product.to /\ product.to[pe] = x
  BY DEF EdgesTo
<1>11. ASSUME NEW x \in W, x # end
       PROVE  \E pe \in Plain : Into(x) = {pe} /\ NodeFrom(graph, pe) \in W
  <2>1. PICK pe \in LeftFollowed(graph, product, asDots, x) : TRUE
    BY <1>4, <1>5, <1>6, <1>11
  <2>2. Into(x) = {pe} /\ ~IsMarker(graph, asDots, pe)
    BY <1>4, <1>6, <1>7, EdgesToFollow
  <2>3. NodeFrom(graph, pe) \in W
    BY <1>4, <1>6
  <2>4. pe \in Plain
    BY <1>4, <1>8, <1>10, <2>2
  <2>5. QED
    BY <2>2, <2>3, <2>4
<1>12. Into(end) = {} \/ \E m : Into(end) = {m} /\ IsMarker(graph, asDots, m)
  BY <1>1, <1>4, <1>7, EdgesToFollow
<1> HIDE DEF Into
<1>13. /\ B \in SUBSET U /\ pn \in B
       /\ \A pe \in Plain : product.to[pe] \in B => NodeFrom(graph, pe) \in B
       /\ \A D \in SUBSET U :
            pn \in D /\ (\A pe \in Plain : product.to[pe] \in D => NodeFrom(graph, pe) \in D)
              => B \subseteq D
  <2>1. {pn} \in SUBSET product.nodes
    OBVIOUS
  <2>2. /\ B \in SUBSET U /\ {pn} \subseteq B
        /\ \A pe \in Plain : product.to[pe] \in B => NodeFrom(graph, pe) \in B
        /\ \A D \in SUBSET U :
             {pn} \subseteq D
               /\ (\A pe \in Plain : product.to[pe] \in D => NodeFrom(graph, pe) \in D)
               => B \subseteq D
    BY <2>1, BehindIsLeast
  <2>3. QED
    BY <2>2
<1> HIDE DEF B
<1>14. \A pe \in Plain : product.to[pe] \in W => NodeFrom(graph, pe) \in W
  <2>1. SUFFICES ASSUME NEW pe \in Plain, product.to[pe] \in W
                 PROVE  NodeFrom(graph, pe) \in W
    OBVIOUS
  <2>2. pe \in Into(product.to[pe])
    BY <1>4, <1>9, <1>10, <2>1
  <2>3. CASE product.to[pe] = end
    BY <1>8, <1>9, <1>12, <2>1, <2>2, <2>3
  <2>4. CASE product.to[pe] # end
    BY <1>11, <2>1, <2>2, <2>4
  <2>5. QED
    BY <2>3, <2>4
<1>15. B = W
  <2>1. B \subseteq W
    BY <1>4, <1>13, <1>14
  <2>2. \A x \in B \cap W : Succ[x] \subseteq B \cap W
    <3>1. SUFFICES ASSUME NEW x \in B \cap W, NEW y \in Succ[x]
                   PROVE  y \in B
      BY <1>4
    <3>2. PICK pe \in LeftFollowed(graph, product, asDots, x) : y = NodeFrom(graph, pe)
      BY <1>6, <1>13, <3>1
    <3>3. pe \in Onward(graph, asDots, EdgesTo(product, x))
      BY <1>6, <1>13, <3>1 DEF Into
    <3>4. pe \in Plain /\ product.to[pe] = x
      BY <1>7, <1>8, <1>10, <1>13, <3>3, EdgesToFollow DEF Into
    <3>5. QED
      BY <1>13, <3>2, <3>4
  <2>3. B \cap W \in SUBSET U /\ pn \in B \cap W
    BY <1>4, <1>13
  <2>4. W \subseteq B \cap W
    BY <1>4, <2>2, <2>3
  <2>5. QED
    BY <2>1, <2>4
<1>16. \A x \in W : x # end => x # InitialNode
  BY <1>4, <1>11 DEF Into
<1>17. \A x \in Markers : product.to[x] \in W => product.to[x] = end
  <2>1. SUFFICES ASSUME NEW x \in Markers, product.to[x] \in W, product.to[x] # end
                 PROVE  FALSE
    OBVIOUS
  <2>2. x \in Into(product.to[x])
    BY <1>4, <1>9, <1>10, <2>1
  <2>3. QED
    BY <1>9, <1>11, <2>1, <2>2
<1>18. CASE Into(end) = {}
  <2>1. end = InitialNode
    BY <1>4, <1>18, OnlyFirstNotEntered DEF Into, InitialNode
  <2>2. {x \in Markers : product.to[x] \in W} = {}
    BY <1>4, <1>9, <1>10, <1>17, <1>18
  <2>3. {InitialNode} \cap W = {end}
    BY <1>4, <2>1
  <2>4. QED
    BY <1>15, <2>2, <2>3 DEF B
<1>19. CASE \E m : Into(end) = {m} /\ IsMarker(graph, asDots, m)
  <2>1. PICK m : Into(end) = {m} /\ IsMarker(graph, asDots, m)
    BY <1>19
  <2>2. end # InitialNode
    BY <2>1 DEF Into
  <2>3. {InitialNode} \cap W = {}
    BY <1>16, <2>2
  <2>4. m \in Markers /\ product.to[m] = end
    BY <1>4, <1>8, <1>9, <1>10, <2>1
  <2>5. {x \in Markers : product.to[x] \in W} = {m}
    BY <1>4, <1>9, <1>10, <1>17, <2>1, <2>4
  <2>6. QED
    BY <1>15, <2>3, <2>5 DEF B
<1>20. QED
  BY <1>12, <1>18, <1>19

(***************************************************************************)
(* The loop of IsLeftDetermined ends on every product                      *)
(* (redundant_dots.cc:20), unlike that of IsRightDetermined: places walked *)
(* round and round would be entered from each other only, and the first    *)
(* node, from which all are reached, is entered by none.                   *)
(***************************************************************************)
THEOREM LeftWalksEnd ==
  ASSUME NEW g, WellFormed(g), NEW b, IsBoardOf(b, g), 1 \in b.vertices,
         NEW first \in g.nodes, g.ins[first] = {}, NEW last, NEW mods,
         NEW pn \in NfaBoardProduct(g, b, first, last, {1}).nodes
  PROVE  LET p == NfaBoardProduct(g, b, first, last, {1})
         IN  \E at \in LeftWalk(g, p, mods, pn) :
               EndsAt(g, mods, EdgesTo(p, at)) \/ Cardinality(EdgesFrom(g, p, at)) > 1
<1> DEFINE p == NfaBoardProduct(g, b, first, last, {1})
           Succ == LeftSucc(g, p, mods)
           W == LeftWalk(g, p, mods, pn)
           D == p.nodes \ W
<1>1. IsProduct(g, b, first, last, p)
  BY NfaBoardProductIs
<1> HIDE DEF p
<1>2. IsWalk(p.nodes, Succ) /\ W = Walk(p.nodes, Succ, pn)
  BY <1>1, LeftWalkIs DEF p
<1>3. /\ W \in SUBSET p.nodes /\ pn \in W /\ \A x \in W : Succ[x] \subseteq W
  BY <1>2, WalkIsLeast DEF p
<1> HIDE DEF W
<1>4. SUFFICES ASSUME \A at \in W : ~EndsAt(g, mods, EdgesTo(p, at))
                                    /\ ~(Cardinality(EdgesFrom(g, p, at)) > 1)
               PROVE  FALSE
  BY DEF W, p
<1>5. ASSUME NEW x \in W
      PROVE  \E pe : EdgesTo(p, x) = {pe} /\ NodeFrom(g, pe) \in W
  <2>1. PICK pe \in Onward(g, mods, EdgesTo(p, x)) : TRUE
    BY <1>4, <1>5 DEF EndsAt
  <2>2. IsFiniteSet(EdgesTo(p, x)) /\ IsFiniteSet(EdgesFrom(g, p, x))
    BY <1>1, FS_Subset DEF EdgesTo, EdgesFrom, IsProduct
  <2>3. EdgesTo(p, x) = {pe}
    BY <2>1, <2>2, EdgesToFollow
  <2>4. Cardinality(EdgesFrom(g, p, x)) <= 1
    BY <1>4, <1>5, <2>2, FS_CardinalityType
  <2>5. NodeFrom(g, pe) \in Succ[x]
    BY <1>3, <1>5, <2>1, <2>4 DEF LeftSucc, LeftFollowed
  <2>6. QED
    BY <1>3, <1>5, <2>3, <2>5
<1>6. <<1, first>> \notin W
  BY <1>1, <1>5, FirstNotEntered
<1>7. \A pe \in DOMAIN p.to : NodeFrom(g, pe) \in D => p.to[pe] \in D
  <2>1. SUFFICES ASSUME NEW pe \in DOMAIN p.to, NodeFrom(g, pe) \in D, p.to[pe] \in W
                 PROVE  FALSE
    BY <1>1 DEF IsProduct
  <2>2. pe \in EdgesTo(p, p.to[pe])
    BY <2>1 DEF EdgesTo
  <2>3. QED
    BY <1>5, <2>1, <2>2
<1>8. D \in SUBSET p.nodes /\ (<<1, first>> \in p.nodes => <<1, first>> \in D)
  BY <1>6
<1>9. p.nodes \subseteq D
  BY <1>1, <1>7, <1>8 DEF IsProduct
<1>10. QED
  BY <1>3, <1>9

\* The walk to the right goes round and round only in a trap: where all nodes lead
\* to the last one, the places walked would lead to each other alone.
LEMMA EndlessInTrap ==
  ASSUME NEW g, WellFormed(g), NEW b, IsBoardOf(b, g), 1 \in b.vertices,
         NEW first \in g.nodes, NEW last, DOMAIN g.outs[last] = {}, NEW mods,
         NEW pn \in NfaBoardProduct(g, b, first, last, {1}).nodes,
         IsRightDetermined(g, NfaBoardProduct(g, b, first, last, {1}), mods, pn) = "endless"
  PROVE  LET all  == Visited(g, b, {<<1, first>>})
             live == Live(g, b, all, {at \in all : at[2] = last})
         IN  ~(NfaBoardProduct(g, b, first, last, {1}).nodes \subseteq live)
<1> DEFINE p == NfaBoardProduct(g, b, first, last, {1})
           all == Visited(g, b, {<<1, first>>})
           T == {at \in all : at[2] = last}
           live == Live(g, b, all, T)
           Succ == RightSucc(g, p, mods)
           W == RightWalk(g, p, mods, pn)
           D == live \ W
<1>1. IsProduct(g, b, first, last, p)
  BY NfaBoardProductIs
<1>2. IsFiniteSet(all) /\ p.nodes \subseteq all /\ live \subseteq p.nodes
  BY ProductKeepsLive
<1> HIDE DEF p, all
<1>3. IsWalk(p.nodes, Succ) /\ W = Walk(p.nodes, Succ, pn)
  BY <1>1, RightWalkIs DEF p
<1>4. /\ W \in SUBSET p.nodes /\ pn \in W /\ \A x \in W : Succ[x] \subseteq W
  BY <1>3, WalkIsLeast DEF p
<1>5. \A at \in W : ~EndsAt(g, mods, EdgesFrom(g, p, at))
  BY DEF IsRightDetermined, p
<1> HIDE DEF W
<1>6. ASSUME NEW x \in W
      PROVE  \E pe : EdgesFrom(g, p, x) = {pe} /\ p.to[pe] \in W
  <2>1. PICK pe \in Onward(g, mods, EdgesFrom(g, p, x)) : TRUE
    BY <1>5, <1>6 DEF EndsAt
  <2>2. IsFiniteSet(EdgesFrom(g, p, x))
    BY <1>1, FS_Subset DEF EdgesFrom, IsProduct
  <2>3. EdgesFrom(g, p, x) = {pe}
    BY <2>1, <2>2, EdgesToFollow
  <2>4. p.to[pe] \in Succ[x]
    BY <1>4, <1>6, <2>1 DEF RightSucc
  <2>5. QED
    BY <1>4, <1>6, <2>3, <2>4
<1>7. \A x \in W : x[2] # last
  <2>1. SUFFICES ASSUME NEW x \in W, x[2] = last PROVE FALSE
    OBVIOUS
  <2>2. PICK pe : pe \in EdgesFrom(g, p, x)
    BY <1>6, <2>1
  <2>3. pe \in Leaving(g, b, x)
    BY <1>1, <2>2 DEF EdgesFrom, IsProduct
  <2>4. QED
    BY <2>1, <2>3 DEF Leaving
<1>8. /\ live \in SUBSET all /\ T \subseteq live /\ ClosedBackward(g, b, all, live)
      /\ \A X \in SUBSET all : T \subseteq X /\ ClosedBackward(g, b, all, X) => live \subseteq X
  BY <1>2, LiveIsLeast
<1> HIDE DEF live
<1>9. D \in SUBSET all /\ T \subseteq D
  BY <1>7, <1>8
<1>10. ClosedBackward(g, b, all, D)
  <2>1. SUFFICES ASSUME NEW x \in all, NEW pe \in Leaving(g, b, x), NodeTo(g, b, pe) \in D
                 PROVE  x \in D
    BY DEF ClosedBackward
  <2>2. x \in live
    BY <1>8, <2>1 DEF ClosedBackward
  <2>3. ASSUME x \in W PROVE FALSE
    <3>1. pe \in EdgesFrom(g, p, x) /\ p.to[pe] = NodeTo(g, b, pe)
      BY <1>1, <1>2, <2>1, <2>2 DEF IsProduct, EdgesFrom
    <3>2. p.to[pe] \in W
      BY <1>6, <2>3, <3>1
    <3>3. QED
      BY <2>1, <3>1, <3>2
  <2>4. QED
    BY <2>2, <2>3
<1>11. live \subseteq D
  BY <1>8, <1>9, <1>10
<1>12. QED
  BY <1>4, <1>11 DEF live, p, all, T

----
(***************************************************************************)
(* The analyses.  A product in use is that of the automaton as built, and  *)
(* what is found is what the walks on it say.                              *)
(***************************************************************************)
ProductHere == product = NfaBoardProduct(graph, board, initial, final, {1})

AnalysesInv ==
  /\ source \in Automata /\ board \in Boards
  /\ ~optimize => /\ pass = "done"
                  /\ graph = source.graph /\ initial = source.initial /\ final = source.final
  /\ search # "product" => ~optimize /\ ProductHere
  /\ progress # "reading" =>
       /\ ~optimize /\ ProductHere
       /\ determined = FindRedundantNoops(graph, product, board, asDots)
       /\ progress = IF NeverReturns(graph, product, board, asDots) THEN "endless" ELSE "found"

\* Nothing is in use at first.
LEMMA AnalysesInvInit == InitAnalyses => AnalysesInv
  BY DEF InitAnalyses, InitDots, Init, AnalysesInv

\* CreateNfa does nothing when there is nothing to optimize.
LEMMA AnalysesInvCompile ==
  AnalysesInv /\ CreateNfaStep /\ UNCHANGED dotsVars /\ UNCHANGED redundantVars => AnalysesInv'
<1> SUFFICES ASSUME AnalysesInv, CreateNfaStep, UNCHANGED dotsVars, UNCHANGED redundantVars
             PROVE  AnalysesInv'
  OBVIOUS
<1>1. pass # "done" /\ UNCHANGED <<source, optimize>>
  BY DEF CreateNfaStep, EraseLoopedNoop, EraseNoop, NoopsErased, VisitNode, VisitEdge, LeaveNode,
         ChecksAdded, TakeNode, SplitEdge, EraseDuplicates, NfaCreated
<1>2. optimize
  BY <1>1 DEF AnalysesInv
<1>3. UNCHANGED <<board, search, progress>>
  BY DEF dotsVars, redundantVars
<1>4. QED
  BY <1>1, <1>2, <1>3 DEF AnalysesInv

\* A product made is that of the automaton, and the search leaves it alone.
LEMMA AnalysesInvSearch ==
  AnalysesInv /\ DotsStep /\ UNCHANGED redundantVars => AnalysesInv'
<1> SUFFICES ASSUME AnalysesInv, DotsStep, UNCHANGED redundantVars
             PROVE  AnalysesInv'
  OBVIOUS
<1>1. UNCHANGED <<asDots, determined, progress>>
  BY DEF redundantVars
<1>2. UNCHANGED <<source, optimize, graph, initial, final, pass, board>>
  BY DEF DotsStep, CreateProduct, StartSearch, FollowEdge, ReturnNode, NoopsFound, nfaVars
<1>3. CASE CreateProduct
  <2>1. ~optimize /\ product' = NfaBoardProduct(graph, board, initial, final, {1})
    BY <1>3 DEF CreateProduct
  <2>2. progress # "reading" => product' = product
    BY <2>1 DEF AnalysesInv, ProductHere
  <2>3. ProductHere'
    BY <1>2, <2>1 DEF ProductHere
  <2>4. QED
    BY <1>1, <1>2, <2>1, <2>2, <2>3 DEF AnalysesInv
<1>4. CASE StartSearch \/ FollowEdge \/ ReturnNode \/ NoopsFound
  <2>1. search # "product" /\ product' = product
    BY <1>4 DEF StartSearch, FollowEdge, ReturnNode, NoopsFound
  <2>2. ProductHere' <=> ProductHere
    BY <1>2, <2>1 DEF ProductHere
  <2>3. QED
    BY <1>1, <1>2, <2>1, <2>2 DEF AnalysesInv
<1>5. QED
  BY <1>3, <1>4 DEF DotsStep

\* The walks are taken on that product.
LEMMA AnalysesInvWalk == AnalysesInv /\ FindRedundant => AnalysesInv'
<1> SUFFICES ASSUME AnalysesInv, FindRedundant PROVE AnalysesInv'
  OBVIOUS
<1>1. UNCHANGED <<source, optimize, graph, initial, final, pass, board, search>>
  BY DEF FindRedundant, nfaVars
<1>2. ~optimize /\ ProductHere'
  BY <1>1 DEF FindRedundant, ProductHere
<1>3. /\ determined' = FindRedundantNoops(graph', product', board', asDots')
      /\ progress' = IF NeverReturns(graph', product', board', asDots') THEN "endless" ELSE "found"
  BY <1>1 DEF FindRedundant
<1>4. QED
  BY <1>1, <1>2, <1>3 DEF AnalysesInv

\* So it holds always.
LEMMA AnalysesInvAlways == AnalysesSpec => []AnalysesInv
<1>1. AnalysesInv /\ UNCHANGED analysesVars => AnalysesInv'
  BY DEF AnalysesInv, ProductHere, analysesVars, vars, nfaVars, dotsVars, redundantVars
<1>2. AnalysesInv /\ [(Next /\ UNCHANGED redundantVars) \/ FindRedundant]_analysesVars => AnalysesInv'
  BY <1>1, AnalysesInvCompile, AnalysesInvSearch, AnalysesInvWalk DEF Next
<1>3. QED
  BY <1>2, AnalysesInvInit, PTL DEF AnalysesSpec

\* What is known of the automaton, the board and the product once one is in use.
LEMMA ProductInUse ==
  ASSUME AnalysesInv, ~optimize, ProductHere
  PROVE  /\ WellFormed(graph) /\ initial \in graph.nodes /\ initial = source.initial
         /\ graph.ins[initial] = {} /\ DOMAIN graph.outs[final] = {}
         /\ 1 \in board.vertices /\ IsBoardOf(board, graph)
         /\ InitialNode = <<1, initial>>
         /\ IsProduct(graph, board, initial, final, product)
<1>1. /\ graph = source.graph /\ initial = source.initial /\ final = source.final
      /\ source \in Automata /\ board \in Boards
  BY DEF AnalysesInv
<1>2. IsAutomaton(source) /\ HasEnds(source)
  BY <1>1, AutomataAssumption, EndsAssumption
<1>3. 1 \in board.vertices /\ IsBoardOf(board, graph)
  BY <1>1, BoardsAssumption
<1>4. /\ WellFormed(graph) /\ initial \in graph.nodes
      /\ graph.ins[initial] = {} /\ DOMAIN graph.outs[final] = {}
  BY <1>1, <1>2 DEF IsAutomaton, HasEnds
<1>5. IsProduct(graph, board, initial, final, product)
  BY <1>3, <1>4, NfaBoardProductIs DEF ProductHere
<1>6. QED
  BY <1>1, <1>3, <1>4, <1>5 DEF InitialNode

\* NfaBoardProduct never loses a completion of a move, whatever the automaton and
\* the board (graph_creator.cc:304).
THEOREM AnalysesCompletionsKept == AnalysesSpec => []CompletionsKept
<1>1. AnalysesInv => CompletionsKept
  <2>1. SUFFICES ASSUME AnalysesInv, ProductNew
                 PROVE  /\ OnTheWay \subseteq product.nodes
                        /\ \A pn \in OnTheWay : \A pe \in Leaving(graph, board, pn) :
                             NodeTo(graph, board, pe) \in OnTheWay
                               => pe \in EdgesFrom(graph, product, pn)
    BY DEF CompletionsKept
  <2>2. ~optimize /\ ProductHere
    BY <2>1 DEF AnalysesInv, ProductNew
  <2>3. /\ WellFormed(graph) /\ initial \in graph.nodes /\ InitialNode = <<1, initial>>
        /\ 1 \in board.vertices /\ IsBoardOf(board, graph)
        /\ IsProduct(graph, board, initial, final, product)
    BY <2>1, <2>2, ProductInUse
  <2>4. OnTheWay \subseteq product.nodes
    BY <2>2, <2>3, ProductKeepsLive DEF OnTheWay, ProductHere
  <2>5. \A pn \in product.nodes : \A pe \in Leaving(graph, board, pn) :
          NodeTo(graph, board, pe) \in product.nodes => pe \in EdgesFrom(graph, product, pn)
    BY <2>3 DEF IsProduct
  <2>6. QED
    BY <2>4, <2>5
<1>2. QED
  BY <1>1, AnalysesInvAlways, PTL

\* FindRedundantNoops hangs only on a product with places from which no move is
\* completed (redundant_dots.cc:46).
THEOREM EndlessOnlyInTrapsAlways == AnalysesSpec => []EndlessOnlyInTraps
<1>1. AnalysesInv => EndlessOnlyInTraps
  <2>1. SUFFICES ASSUME AnalysesInv, progress = "endless"
                 PROVE  ~(product.nodes \subseteq OnTheWay)
    BY DEF EndlessOnlyInTraps
  <2>2. ~optimize /\ ProductHere /\ NeverReturns(graph, product, board, asDots)
    BY <2>1 DEF AnalysesInv
  <2>3. /\ WellFormed(graph) /\ initial \in graph.nodes /\ InitialNode = <<1, initial>>
        /\ 1 \in board.vertices /\ IsBoardOf(board, graph) /\ DOMAIN graph.outs[final] = {}
    BY <2>1, <2>2, ProductInUse
  <2>4. PICK pn \in product.nodes : IsRightDetermined(graph, product, asDots, pn) = "endless"
    BY <2>2 DEF NeverReturns, RightOutcomes, PlacesOf
  <2>5. QED
    BY <2>2, <2>3, <2>4, EndlessInTrap DEF OnTheWay, ProductHere
<1>2. QED
  BY <1>1, AnalysesInvAlways, PTL

\* A dot that FindRedundantNoops finds redundant is determined, wherever it is used,
\* by one marker or one end of the move (redundant_dots.h:16).
THEOREM DeterminedByOneAlways == AnalysesSpec => []DeterminedByOne
<1>1. AnalysesInv => DeterminedByOne
  <2>1. SUFFICES ASSUME AnalysesInv, progress = "found",
                        NEW pe \in DOMAIN product.to, pe[2] \in DOMAIN determined
                 PROVE  /\ "left" \in determined[pe[2]] => Cardinality(Previous(pe)) = 1
                        /\ "right" \in determined[pe[2]] => Cardinality(Following(pe)) = 1
    BY DEF DeterminedByOne
  <2>2. /\ ~optimize /\ ProductHere
        /\ determined = FindRedundantNoops(graph, product, board, asDots)
    BY <2>1 DEF AnalysesInv
  <2>3. /\ WellFormed(graph) /\ initial \in graph.nodes /\ initial = source.initial
        /\ graph.ins[initial] = {} /\ DOMAIN graph.outs[final] = {}
        /\ InitialNode = <<1, initial>>
        /\ IsProduct(graph, board, initial, final, product)
    BY <2>1, <2>2, ProductInUse
  <2>4. EdgesTo(product, InitialNode) = {}
    BY <2>3, FirstNotEntered
  <2>5. /\ NodeFrom(graph, pe) \in PlacesOf(product, board, graph.edges[pe[2]].from)
        /\ NodeFrom(graph, pe) \in product.nodes
    <3>1. NodeFrom(graph, pe) \in product.nodes /\ NodeFrom(graph, pe)[1] \in board.vertices
      BY <2>1, <2>3 DEF IsProduct
    <3>2. NodeFrom(graph, pe) = <<pe[1], graph.edges[pe[2]].from>>
      BY DEF NodeFrom
    <3>3. pe[1] \in board.vertices
      BY <3>1, <3>2
    <3>4. QED
      BY <3>1, <3>2, <3>3 DEF PlacesOf
  <2>6. /\ product.to[pe] \in PlacesOf(product, board, graph.edges[pe[2]].to)
        /\ product.to[pe] \in product.nodes
    <3>1. product.to[pe] \in product.nodes /\ product.to[pe] = NodeTo(graph, board, pe)
      BY <2>1, <2>3 DEF IsProduct
    <3>2. product.to[pe][1] \in board.vertices
      BY <2>3, <3>1 DEF IsProduct
    <3>3. product.to[pe] = <<product.to[pe][1], graph.edges[pe[2]].to>>
      BY <3>1 DEF NodeTo
    <3>4. QED
      BY <3>1, <3>2, <3>3 DEF PlacesOf
  <2>7. ASSUME "left" \in determined[pe[2]] PROVE Cardinality(Previous(pe)) = 1
    <3>1. LeftDetermined(graph, product, board, asDots, pe[2])
      BY <2>1, <2>2, <2>7 DEF FindRedundantNoops
    <3>2. IsLeftDetermined(graph, product, asDots, NodeFrom(graph, pe))
      BY <2>5, <3>1 DEF LeftDetermined
    <3>3. PICK one : {x \in Markers : product.to[x] \in Behind({NodeFrom(graph, pe)})}
                       \cup ({InitialNode} \cap Behind({NodeFrom(graph, pe)})) = {one}
      BY <2>3, <2>4, <2>5, <3>2, LeftIsOne
    <3>4. Previous(pe) = {one}
      BY <3>3 DEF Previous
    <3>5. QED
      BY <3>4, FS_Singleton
  <2>8. ASSUME "right" \in determined[pe[2]] PROVE Cardinality(Following(pe)) = 1
    <3>1. RightOutcomes(graph, product, board, asDots, pe[2]) \subseteq {"yes"}
      BY <2>1, <2>2, <2>8 DEF FindRedundantNoops
    <3>2. IsRightDetermined(graph, product, asDots, product.to[pe]) = "yes"
      BY <2>6, <3>1 DEF RightOutcomes
    <3>3. PICK one : {x \in Markers : NodeFrom(graph, x) \in Ahead({product.to[pe]})}
                       \cup {at \in Ahead({product.to[pe]}) : at[2] = final} = {one}
      BY <2>3, <2>6, <3>2, RightIsOne
    <3>4. Following(pe) = {one}
      BY <3>3 DEF Following
    <3>5. QED
      BY <3>4, FS_Singleton
  <2>9. QED
    BY <2>7, <2>8
<1>2. QED
  BY <1>1, AnalysesInvAlways, PTL
====
