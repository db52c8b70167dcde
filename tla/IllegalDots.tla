---- MODULE IllegalDots ----
(***************************************************************************)
(* FindIllegalNoops of illegal_dots.cc: which dots of the rules would give *)
(* more moves if they were modifiers.  It works on an automaton created    *)
(* without optimization, as mark_illegal_dots and move_illegal_dots do,    *)
(* and its product with the board.  FindIllegalNoopEdgesRec is a depth     *)
(* first search, here with its stack of calls; it is started from the      *)
(* initial node and from every node a modifier leads to.                   *)
(***************************************************************************)
EXTENDS CreateNfa, BoardProduct

CONSTANT Boards

\* Wherever a shift of the automaton is, it leads to a vertex of the board or to
\* none.
IsBoardOf(b, g) ==
  /\ IsFiniteSet(b.vertices)
  /\ \A e \in DOMAIN g.edges :
       g.edges[e].act.type = "shift" =>
         \A v \in b.vertices : b.next[g.edges[e].act.label][v] \in b.vertices \cup {0}

ASSUME BoardsAssumption ==
  \A b \in Boards : 1 \in b.vertices /\ \A a \in Automata : IsBoardOf(b, a.graph)

VARIABLES
  board,
  product,    \* board_product
  explored,   \* explored_nodes
  stack,      \* calls: [node, rest: edges still to follow, before: dots of the caller]
  enteredAt,  \* visited_in_times
  dotsAt,     \* visited_dot_applications
  finished, dots, time,  \* finished, current_dots_applications, current_time
  illegal,    \* dots of the rules found illegal
  search      \* "product", "search", "found"; "broken" where `at' throws

dotsVars == <<board, product, explored, stack, enteredAt, dotsAt, finished, dots, time,
              illegal, search>>
vars == <<nfaVars, dotsVars>>

NoProduct == [nodes |-> {}, to |-> <<>>, from |-> <<>>]

InitDots ==
  /\ Init
  /\ board \in Boards
  /\ product = NoProduct /\ explored = {} /\ stack = <<>>
  /\ enteredAt = <<>> /\ dotsAt = <<>> /\ finished = {} /\ dots = {} /\ time = 0
  /\ illegal = {} /\ search = "product"

\* IsModifier of move_type.cc.
ModifierTypes == {"off", "keeper", "switch", "assign"}

IsModifierEdge(pe) == graph.edges[pe[2]].act.type \in ModifierTypes
IsNoopEdge(pe)     == graph.edges[pe[2]].act.type = "noop"

InitialNode == <<1, source.initial>>

\* Nodes a modifier leads to.
AfterModifiers == {product.to[pe] : pe \in {x \in DOMAIN product.to : IsModifierEdge(x)}}

CreateProduct ==
  /\ pass = "done" /\ ~optimize /\ search = "product"
  /\ product' = NfaBoardProduct(graph, board, initial, final, {1})
  /\ search' = IF InitialNode \in product'.nodes THEN "search" ELSE "broken"
  /\ UNCHANGED <<nfaVars, board, explored, stack, enteredAt, dotsAt, finished, dots, time, illegal>>

----
\* A call for a node not visited before.  `before' are the dots of its caller.
Entered(calls, pn, before) ==
  Append(calls, [node |-> pn, rest |-> product.from[pn], before |-> before])

\* A search from a node, with a DfaState of its own.
StartSearch ==
  /\ search = "search" /\ stack = <<>>
  /\ \E pn \in IF explored = {} THEN {InitialNode} ELSE AfterModifiers \ explored :
       /\ explored' = explored \cup {pn}
       /\ stack' = Entered(<<>>, pn, {})
       /\ enteredAt' = [x \in {pn} |-> 0]
       /\ dotsAt' = [x \in {pn} |-> {}]
  /\ finished' = {} /\ dots' = {} /\ time' = 1
  /\ UNCHANGED <<nfaVars, board, product, illegal, search>>

\* The dots met when the edge is taken; a dot is known by its edge and by the
\* time its node was entered.
Taken(pe, pn) ==
  IF IsNoopEdge(pe) THEN dots \cup {[at |-> enteredAt[pn], edge |-> pe]} ELSE dots

DotsOf(applications) == {x.edge[2] : x \in applications}

Difference(S, T) == (S \ T) \cup (T \ S)

\* Mutant: a dot met on the way to the loop counts as one of the loop.
WholePathInLoop(now, to) == now

\* Dots on the loop that an edge to `to' closes.
InLoop(now, to) == {x \in now : x.at > enteredAt[to]}

FollowEdge ==
  /\ search = "search" /\ stack # <<>> /\ Last(stack).rest # <<>>
  /\ LET call == Last(stack)
         pe   == Head(call.rest)
         to   == product.to[pe]
         now  == Taken(pe, call.node)
         on   == ReplaceAt(stack, Len(stack), [call EXCEPT !.rest = Tail(@)])
         seen == to \in DOMAIN enteredAt
         new  == ~seen /\ ~IsModifierEdge(pe)
     IN  /\ illegal' = illegal \cup
              (IF ~seen THEN {}
               ELSE IF to \in finished THEN DotsOf(Difference(dotsAt[to], now))
               ELSE DotsOf(InLoop(now, to)))
         /\ stack' = IF new THEN Entered(on, to, dots) ELSE on
         /\ dots' = IF new THEN now ELSE dots
         /\ enteredAt' = IF new THEN [x \in DOMAIN enteredAt \cup {to} |->
                                        IF x = to THEN time ELSE enteredAt[x]]
                         ELSE enteredAt
         /\ dotsAt' = IF new THEN [x \in DOMAIN dotsAt \cup {to} |->
                                     IF x = to THEN now ELSE dotsAt[x]]
                      ELSE dotsAt
         /\ time' = IF new THEN time + 1 ELSE time
  /\ UNCHANGED <<nfaVars, board, product, explored, finished, search>>

ReturnNode ==
  /\ search = "search" /\ stack # <<>> /\ Last(stack).rest = <<>>
  /\ finished' = finished \cup {Last(stack).node}
  /\ dots' = Last(stack).before
  /\ stack' = Front(stack)
  /\ UNCHANGED <<nfaVars, board, product, explored, enteredAt, dotsAt, time, illegal, search>>

NoopsFound ==
  /\ search = "search" /\ stack = <<>>
  /\ InitialNode \in explored /\ AfterModifiers \subseteq explored
  /\ search' = "found"
  /\ UNCHANGED <<nfaVars, board, product, explored, stack, enteredAt, dotsAt, finished, dots,
                 time, illegal>>

DotsStep == CreateProduct \/ StartSearch \/ FollowEdge \/ ReturnNode \/ NoopsFound

Next == (CreateNfaStep /\ UNCHANGED dotsVars) \/ DotsStep

DotsSpec == InitDots /\ [][Next]_vars
====
