---- MODULE MCSocket ----
(***************************************************************************)
(* A connection on which moves, "ready" and texts of clients of another    *)
(* make are written, and what DecodeMove makes of them.                    *)
(***************************************************************************)
EXTENDS MoveSocket

Modifier(v, i) == [vertex |-> v, modifier_index |-> i]

\* Moves of one and of two modifiers.
MCMoves == {<<Modifier(1, 2)>>, <<Modifier(1, 2), Modifier(2, 1)>>}

MCReady == <<Other, Other>>

\* An empty text, a blank, half a move, a move with blanks around it, one and
\* a half, a number that does not fit, another word as long as "ready".
MCStray == {<<>>, <<Blank>>, <<Number(1)>>, <<Number(1), Blank>>,
            <<Blank, Number(1), Blank, Number(2), Blank>>,
            <<Number(1), Blank, Number(2), Blank, Number(2)>>,
            <<Number(1), Blank, Number(9)>>, <<Number(1), Other>>}

MCTexts == {EncodeMove(m) : m \in MCMoves} \cup {MCReady} \cup MCStray

MCNull == [is |-> "null"]
====
