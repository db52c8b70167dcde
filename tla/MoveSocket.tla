---- MODULE MoveSocket ----
(***************************************************************************)
(* Moves as texts on a connection: what DecodeMove makes of what is read,  *)
(* by the server or by a client (socket.cc), whoever wrote it.             *)
(***************************************************************************)
EXTENDS StringSocket, MoveText

CONSTANT Moves   \* moves: vertices and indices of modifiers

ASSUME MovesAssumption ==
  Moves \subseteq Seq([vertex : 0 .. MaxUInt, modifier_index : 0 .. MaxUInt])

ASSUME TokensAssumption == \A text \in Texts : text \in Seq(TextTokens)

\* Every move that is read is the move that was sent, whatever memory held.
DecodedAsSent ==
  \A text \in ToSet(delivered) :
    \A m \in Moves : text = EncodeMove(m) => DecodeMove(text) = {m}

Numbers(text) == {i \in DOMAIN text : text[i].is = "number"}

\* No other words, and numbers that fit.
IsPlain(text) ==
  \A i \in DOMAIN text : text[i] # Other /\ (i \in Numbers(text) => text[i].value <= MaxUInt)

\* What was never set can only be in the last modifier of what is decoded, and
\* not in a text of numbers, two by two, with any blanks (socket.cc:23).
UnsetOnlyAtEnd ==
  \A text \in ToSet(delivered) :
    /\ \A d, e \in DecodeMove(text) :
         Len(d) = Len(e) /\ (d # <<>> => Front(d) = Front(e))
    /\ IsPlain(text) /\ Numbers(text) # {} /\ Cardinality(Numbers(text)) % 2 = 0
         => Cardinality(DecodeMove(text)) = 1
====
