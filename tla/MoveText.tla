---- MODULE MoveText ----
(***************************************************************************)
(* The texts of moves: EncodeMove and DecodeMove of networking/socket.cc.  *)
(*                                                                         *)
(* A text is a sequence of tokens: numbers, blanks and other characters.   *)
(* Two numbers never stand next to each other (they would be one).         *)
(***************************************************************************)
EXTENDS Naturals, Sequences, SequencesExt, FiniteSetsExt

CONSTANTS
  MaxUInt,  \* the largest unsigned int
  Memory    \* what a variable that was not initialised may hold

ASSUME NumberAssumption == MaxUInt \in Nat

Number(n) == [is |-> "number", value |-> n]
Blank     == [is |-> "blank"]
Other     == [is |-> "other"]

TextTokens == {Blank, Other} \cup [is : {"number"}, value : Nat]

\* Mutant: the two numbers of a modifier in the other order.
SwappedEncodeMove(move) ==
  FlattenSeq([i \in 1 .. Len(move) |->
    <<Number(move[i].modifier_index), Blank, Number(move[i].vertex)>>
      \o IF i # Len(move) THEN <<Blank>> ELSE <<>>])

EncodeMove(move) ==
  FlattenSeq([i \in 1 .. Len(move) |->
    <<Number(move[i].vertex), Blank, Number(move[i].modifier_index)>>
      \o IF i # Len(move) THEN <<Blank>> ELSE <<>>])

----
\* A stream is the place of the text it is at, and whether good() still holds.
Stream(at, good) == [at |-> at, good |-> good]

\* Whitespace is skipped; a stream that ends there is not good any more.
SkipBlanks(text, stream) ==
  LET left == {i \in stream.at .. Len(text) : text[i] # Blank}
  IN  IF left = {} THEN Stream(Len(text) + 1, FALSE) ELSE Stream(Min(left), stream.good)

\* operator>> of an unsigned int: the values the variable may have afterwards,
\* and the stream.  A stream that is not good leaves the variable as it was; a
\* text that is no number sets it to zero and one that does not fit to MaxUInt.
Extracted(text, stream) ==
  LET start == SkipBlanks(text, stream)
      token == text[start.at]
  IN  CASE ~start.good -> [values |-> Memory, stream |-> start]
        [] start.good /\ token.is = "number" /\ token.value <= MaxUInt ->
             [values |-> {token.value}, stream |-> Stream(start.at + 1, start.at < Len(text))]
        [] start.good /\ token.is = "number" /\ token.value > MaxUInt ->
             [values |-> {MaxUInt}, stream |-> Stream(start.at + 1, FALSE)]
        [] start.good /\ token.is = "other" ->
             [values |-> {0}, stream |-> Stream(start.at, FALSE)]

\* Mutant: no >> ws at the end of a turn.
BareTurn(text, stream) ==
  LET vertex == Extracted(text, stream)
      index  == Extracted(text, vertex.stream)
  IN  [added  |-> [vertex : vertex.values, modifier_index : index.values],
       stream |-> index.stream]

\* One turn of the loop of DecodeMove: the modifiers it may add, and the stream.
Turn(text, stream) ==
  LET vertex == Extracted(text, stream)
      index  == Extracted(text, vertex.stream)
  IN  [added  |-> [vertex : vertex.values, modifier_index : index.values],
       stream |-> SkipBlanks(text, index.stream)]

\* The moves that may have been read, and the stream.
Beginning(text) == [moves |-> {<<>>}, stream |-> Stream(1, text # <<>>)]

\* The loop ends when peek() is eof: at the end of the text or after a failure.
GoneOn(text, read) ==
  LET turn == Turn(text, read.stream)
  IN  IF ~read.stream.good THEN read
      ELSE [moves  |-> {Append(m, a) : m \in read.moves, a \in turn.added},
            stream |-> turn.stream]

\* After each number of turns; every turn reads a token or is the last.
Turns(text) ==
  LET after[n \in 0 .. Len(text)] ==
        IF n = 0 THEN Beginning(text) ELSE GoneOn(text, after[n - 1])
  IN  after

\* The moves that DecodeMove may make of a text.
DecodeMove(text) == Turns(text)[Len(text)].moves
====
