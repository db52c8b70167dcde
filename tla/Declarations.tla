---- MODULE Declarations ----
(***************************************************************************)
(* What the game manager keeps of the declarations and the board of a      *)
(* game: src/src/game_description/declarations.h and board.h.              *)
(*                                                                         *)
(* A parsed game (rbgParser) is a record of names:                         *)
(*   pieces, labels      sequences, in whatever order the parser's sets    *)
(*                       have; so are                                      *)
(*   players, variables  of [name, bound]; a player has its place in the   *)
(*                       text as well                                      *)
(*   vertices, starting  the vertices in order, and the piece on each      *)
(*   edges               <<vertex, label>> -> vertex                       *)
(***************************************************************************)
EXTENDS GameActions, NamesResolver, TLC

NamesOf(declared)  == [i \in DOMAIN declared |-> declared[i].name]
Resolver(names)    == FoldLeft(AddName, NoNames, names)

\* Players get their numbers in the order of the text, from 1.
SortedPlayers(parsed) == SortSeq(parsed.players, LAMBDA a, b : a.place < b.place)

\* BoardContent: the first piece everywhere, not counted on "<out>".
EmptyContent(size, pieces) ==
  [fields |-> [v \in 0 .. size - 1 |-> 0],
   counts |-> [x \in Ids(pieces) |-> IF x = 0 THEN size - 1 ELSE 0]]

\* Board: an edge that is not there leads to vertices_count.
Neighbours(parsed, vertices, edges, size) ==
  [e \in Ids(edges) |->
    [v \in 0 .. size - 1 |->
      LET edge == <<Name(vertices, v), Name(edges, e)>>
      IN  IF edge \in DOMAIN parsed.edges THEN Id(vertices, parsed.edges[edge]) ELSE size]]

\* Declarations::Declarations.
Declared(parsed) ==
  LET pieces    == Resolver(parsed.pieces)
      players   == Resolver(<<">">> \o NamesOf(SortedPlayers(parsed)))
      variables == Resolver(NamesOf(SortedPlayers(parsed)) \o NamesOf(parsed.variables))
      edges     == Resolver(parsed.labels)
      vertices  == Resolver(<<"<out>">> \o parsed.vertices)
      size      == Len(parsed.vertices) + 1
      Bound(x)  == CHOOSE d \in ToSet(parsed.players \o parsed.variables) :
                     d.name = Name(variables, x)
      Starting(content, i) ==
        SetPiece(content, Id(vertices, parsed.vertices[i]), Id(pieces, parsed.starting[i]))
  IN  [pieces |-> pieces, players |-> players, variables |-> variables,
       edges |-> edges, vertices |-> vertices,
       bounds |-> [x \in Ids(variables) |-> Bound(x).bound],
       keeper |-> Id(players, ">"),
       size   |-> size,
       next   |-> Neighbours(parsed, vertices, edges, size),
       content |-> FoldLeft(Starting, EmptyContent(size, pieces),
                            [i \in DOMAIN parsed.vertices |-> i])]
====
