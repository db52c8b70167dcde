---- MODULE BitArrayStack ----
(***************************************************************************)
(* src/src/utility/resetabble_bitarray_stack.h and the chunks that         *)
(* BlocksCollection cuts out of it (blocks_creator.h).  A level of the     *)
(* stack is a ResettableBitArray: an index is set when its stamp in        *)
(* `data' equals the array's `threshold', so clearing the array is only    *)
(* threshold++.  Arrays above `depth' are kept for reuse with their stale  *)
(* stamps.  All checks share one array: check c owns the chunk that starts *)
(* at BeginIndex(c).                                                       *)
(***************************************************************************)
EXTENDS Naturals, Sequences, SequencesExt

CONSTANTS ChecksCount,  \* visited_checks_count_ (or condition_results_count_)
          BoardSize,    \* vertices_count of the board
          MaxUint,      \* numeric_limits<unsigned int>::max()
          MaxDepth      \* bound on the nesting of the search

\* BeginIndex computes index * bit_array_size in an unsigned int.  The code
\* relies on that product fitting for every index; nothing checks that it does.
ASSUME SizesFit ==
  /\ ChecksCount \in Nat \ {0}
  /\ BoardSize \in Nat \ {0}
  /\ MaxUint \in Nat \ {0}
  /\ MaxDepth \in Nat \ {0}
  /\ (ChecksCount - 1) * (ChecksCount * BoardSize) <= MaxUint

VARIABLES bitArrays,  \* bit_arrays_: every array ever created, bottom first
          depth,      \* depth_: how many of them are in use
          answer      \* what the last operator[] returned

vars == <<bitArrays, depth, answer>>

----
Checks   == 0 .. ChecksCount - 1

\* Vertex 0 is "<out>": a search starts at 1 and no edge leads to 0.
Vertices == 1 .. BoardSize - 1

BitArraySize == ChecksCount * BoardSize
Indices      == 0 .. BitArraySize - 1
BitArray     == [data : [Indices -> 0 .. MaxUint], threshold : 1 .. MaxUint]

\* Mutant: the division comes before the product, and rounds to zero.
DividedFirstBeginIndex(c) == (c \div ChecksCount) * BitArraySize

\* begin_index of GetVisitedArrayChunk / GetConditionsResultsArrayChunk.
BeginIndex(c) ==
  ((c * BitArraySize) % (MaxUint + 1)) \div ChecksCount

\* ResettableBitArray(size, false): no stamp equals the threshold.
FreshArray == [data |-> [i \in Indices |-> 0], threshold |-> 1]

\* Mutant: the stamps wrap around and the old ones are not wiped.
WrappingClear(a) ==
  [a EXCEPT !.threshold = IF @ = MaxUint THEN 1 ELSE @ + 1]

\* Mutant: the threshold is incremented without looking at its limit.
UncheckedClear(a) == [a EXCEPT !.threshold = @ + 1]

\* ResettableBitArray::reset.
Cleared(a) == IF a.threshold = MaxUint
              THEN FreshArray
              ELSE [a EXCEPT !.threshold = @ + 1]

\* ResettableBitArray::operator[] and set, on an array value.
IsSet(a, i)  == a.data[i] = a.threshold
WithSet(a, i) == [a EXCEPT !.data[i] = a.threshold]

TopArray == bitArrays[depth]

\* Push when d arrays are in use: a new array if all are, else a cleared one.
PushedFrom(d) == /\ bitArrays' = IF d = Len(bitArrays)
                                 THEN Append(bitArrays, FreshArray)
                                 ELSE [bitArrays EXCEPT ![d + 1] = Cleared(@)]
                 /\ depth' = d + 1

----
Init == /\ bitArrays = <<FreshArray>>
        /\ depth = 1
        /\ answer = FALSE

Push == /\ depth < MaxDepth
        /\ PushedFrom(depth)
        /\ UNCHANGED answer

\* Every Pop of the engine is paired with a Push: the level made by the
\* constructor is never popped.
Pop == /\ depth > 1
       /\ depth' = depth - 1
       /\ UNCHANGED <<bitArrays, answer>>

Reset == /\ PushedFrom(0)
         /\ UNCHANGED answer

\* ResetableBitArrayStackChunk::set and operator[] of check c.
Mark(c, v) ==
  /\ bitArrays' = [bitArrays EXCEPT ![depth] = WithSet(@, BeginIndex(c) + v)]
  /\ UNCHANGED <<depth, answer>>

Query(c, v) == /\ answer' = IsSet(TopArray, BeginIndex(c) + v)
               /\ UNCHANGED <<bitArrays, depth>>

Next == \/ Push
        \/ Pop
        \/ Reset
        \/ \E c \in Checks, v \in Vertices : Mark(c, v) \/ Query(c, v)

Spec == Init /\ [][Next]_vars

----
\* The stack has at least one level, at most as many as there are arrays,
\* and every stamp and threshold is an unsigned int (threshold not zero).
TypeOK == /\ bitArrays \in Seq(BitArray)
          /\ depth \in 1 .. Len(bitArrays)
          /\ Len(bitArrays) <= MaxDepth
          /\ answer \in BOOLEAN

\* No array, in use or waiting for reuse, holds a stamp from its threshold's
\* future: this is what makes threshold++ (resetabble_bitarray_stack.h:39)
\* clear the array, across the wrap at line 35 as well.
NoStampAhead ==
  \A l \in 1 .. Len(bitArrays) : \A i \in Indices :
    bitArrays[l].data[i] <= bitArrays[l].threshold

\* The marks a level stands for.
MarksOf(a) == {m \in Checks \X Vertices : IsSet(a, BeginIndex(m[1]) + m[2])}

Marks == INSTANCE VisitedMarks
           WITH marks <- [l \in 1 .. depth |-> MarksOf(bitArrays[l])]

\* Stamps, reuse of popped arrays and chunk addressing together behave as a
\* stack of mark sets: a reused array starts empty, a popped level leaves the
\* one below untouched, and two checks never share a bit.
ImplementsMarks == Marks!Spec
====
