---- MODULE BitArrayStack_proof ----
(***************************************************************************)
(* Proofs about BitArrayStack for every number of checks, board size,      *)
(* width of the stamps and depth.                                          *)
(***************************************************************************)
EXTENDS BitArrayStack, TLAPS

----
\* The chunk of check c starts at c * BoardSize: the product in BeginIndex
\* does not wrap (SizesFit), and the division is exact.
LEMMA BeginIsMultiple ==
  ASSUME NEW c \in Checks
  PROVE  BeginIndex(c) = c * BoardSize
<1> USE SizesFit
<1>1. c \in Nat /\ c <= ChecksCount - 1
  BY DEF Checks
<1>2. BitArraySize \in Nat /\ BitArraySize = ChecksCount * BoardSize
  BY DEF BitArraySize
<1>3. c * BitArraySize <= (ChecksCount - 1) * BitArraySize
  BY <1>1, <1>2
<1>4. c * BitArraySize \in 0 .. MaxUint
  BY <1>1, <1>2, <1>3
<1>5. (c * BitArraySize) % (MaxUint + 1) = c * BitArraySize
  BY <1>4
<1>6. c * BitArraySize = (c * BoardSize) * ChecksCount
  BY <1>1, <1>2
<1>7. ((c * BoardSize) * ChecksCount) \div ChecksCount = c * BoardSize
  BY <1>1
<1>8. QED
  BY <1>5, <1>6, <1>7 DEF BeginIndex

\* Every (check, vertex) pair has an index inside the array.
LEMMA IndexInArray ==
  ASSUME NEW c \in Checks, NEW v \in Vertices
  PROVE  BeginIndex(c) + v \in Indices
<1> USE SizesFit
<1>1. BeginIndex(c) = c * BoardSize
  BY BeginIsMultiple
<1>2. /\ c \in Nat /\ c <= ChecksCount - 1
      /\ v \in Nat /\ v <= BoardSize - 1
  BY DEF Checks, Vertices
<1>3. (c + 1) * BoardSize <= ChecksCount * BoardSize
  BY <1>2
<1>4. (c + 1) * BoardSize = c * BoardSize + BoardSize
  BY <1>2
<1>5. c * BoardSize \in Nat /\ ChecksCount * BoardSize \in Nat
  BY <1>2
<1>6. QED
  BY <1>1, <1>2, <1>3, <1>4, <1>5 DEF Indices, BitArraySize

\* Two different pairs never share an index: the chunks are disjoint.
LEMMA IndexInjective ==
  ASSUME NEW c1 \in Checks, NEW v1 \in Vertices,
         NEW c2 \in Checks, NEW v2 \in Vertices,
         BeginIndex(c1) + v1 = BeginIndex(c2) + v2
  PROVE  <<c1, v1>> = <<c2, v2>>
<1> USE SizesFit
<1>1. c1 * BoardSize + v1 = c2 * BoardSize + v2
  BY BeginIsMultiple
<1>2. /\ c1 \in Nat /\ c2 \in Nat
      /\ v1 \in Nat /\ v1 <= BoardSize - 1
      /\ v2 \in Nat /\ v2 <= BoardSize - 1
  BY DEF Checks, Vertices
<1>3. ASSUME NEW a \in Nat, NEW b \in Nat, a < b
      PROVE  a * BoardSize + BoardSize <= b * BoardSize
  <2>1. (a + 1) * BoardSize <= b * BoardSize
    BY <1>3
  <2>2. QED
    BY <2>1
<1>4. ~(c1 < c2)
  <2>1. SUFFICES ASSUME c1 < c2 PROVE FALSE
    OBVIOUS
  <2>2. c1 * BoardSize + BoardSize <= c2 * BoardSize
    BY <1>2, <1>3, <2>1
  <2>3. c1 * BoardSize \in Nat /\ c2 * BoardSize \in Nat
    BY <1>2
  <2>4. QED
    BY <1>1, <1>2, <2>2, <2>3
<1>5. ~(c2 < c1)
  <2>1. SUFFICES ASSUME c2 < c1 PROVE FALSE
    OBVIOUS
  <2>2. c2 * BoardSize + BoardSize <= c1 * BoardSize
    BY <1>2, <1>3, <2>1
  <2>3. c1 * BoardSize \in Nat /\ c2 * BoardSize \in Nat
    BY <1>2
  <2>4. QED
    BY <1>1, <1>2, <2>2, <2>3
<1>6. c1 = c2
  BY <1>2, <1>4, <1>5
<1>7. v1 = v2
  BY <1>1, <1>2, <1>6
<1>8. QED
  BY <1>6, <1>7

----
(***************************************************************************)
(* Single arrays.                                                          *)
(***************************************************************************)

\* No stamp of the array is ahead of its threshold.
Behind(a) == \A i \in Indices : a.data[i] <= a.threshold

LEMMA FreshArrayFacts ==
  /\ FreshArray \in BitArray
  /\ Behind(FreshArray)
  /\ MarksOf(FreshArray) = {}
<1> USE SizesFit
<1>1. FreshArray \in BitArray /\ Behind(FreshArray)
  BY DEF FreshArray, BitArray, Behind
<1>2. \A c \in Checks, v \in Vertices : ~IsSet(FreshArray, BeginIndex(c) + v)
  BY IndexInArray DEF FreshArray, IsSet
<1>3. QED
  BY <1>1, <1>2 DEF MarksOf

\* Clearing keeps the array well formed and leaves no mark, whether the
\* threshold is incremented or wraps.
LEMMA ClearedFacts ==
  ASSUME NEW a \in BitArray, Behind(a)
  PROVE  /\ Cleared(a) \in BitArray
         /\ Behind(Cleared(a))
         /\ MarksOf(Cleared(a)) = {}
<1> USE SizesFit
<1>1. CASE a.threshold = MaxUint
  BY <1>1, FreshArrayFacts DEF Cleared
<1>2. CASE a.threshold # MaxUint
  <2>1. /\ Cleared(a) = [a EXCEPT !.threshold = @ + 1]
        /\ a.threshold \in 1 .. MaxUint - 1
    BY <1>2 DEF Cleared, BitArray
  <2>2. /\ Cleared(a) \in BitArray
        /\ Cleared(a).data = a.data
        /\ Cleared(a).threshold = a.threshold + 1
    BY <2>1 DEF BitArray
  <2>3. \A i \in Indices : a.data[i] \in Nat /\ a.data[i] <= a.threshold
    BY DEF BitArray, Behind
  <2>4. Behind(Cleared(a))
    BY <2>1, <2>2, <2>3 DEF Behind
  <2>5. \A c \in Checks, v \in Vertices : ~IsSet(Cleared(a), BeginIndex(c) + v)
    BY <2>1, <2>2, <2>3, IndexInArray DEF IsSet
  <2>6. QED
    BY <2>2, <2>4, <2>5 DEF MarksOf
<1>3. QED
  BY <1>1, <1>2

\* Setting the bit of (c, v) adds that mark and no other.
LEMMA WithSetFacts ==
  ASSUME NEW a \in BitArray, Behind(a), NEW c \in Checks, NEW v \in Vertices
  PROVE  /\ WithSet(a, BeginIndex(c) + v) \in BitArray
         /\ Behind(WithSet(a, BeginIndex(c) + v))
         /\ MarksOf(WithSet(a, BeginIndex(c) + v)) = MarksOf(a) \cup {<<c, v>>}
<1> USE SizesFit
<1> DEFINE at == BeginIndex(c) + v
           b  == WithSet(a, at)
<1>1. at \in Indices
  BY IndexInArray
<1>2. /\ b \in BitArray
      /\ b.threshold = a.threshold
      /\ b.data = [a.data EXCEPT ![at] = a.threshold]
  BY <1>1 DEF WithSet, BitArray
<1>3. Behind(b)
  BY <1>1, <1>2 DEF Behind, BitArray
<1>4. ASSUME NEW c2 \in Checks, NEW v2 \in Vertices
      PROVE  IsSet(b, BeginIndex(c2) + v2)
               <=> \/ IsSet(a, BeginIndex(c2) + v2)
                   \/ <<c2, v2>> = <<c, v>>
  <2>1. BeginIndex(c2) + v2 \in Indices
    BY IndexInArray
  <2>2. CASE BeginIndex(c2) + v2 = at
    <3>1. <<c2, v2>> = <<c, v>>
      BY <2>2, IndexInjective
    <3>2. IsSet(b, at)
      BY <1>1, <1>2 DEF IsSet, BitArray
    <3>3. QED
      BY <2>2, <3>1, <3>2
  <2>3. CASE BeginIndex(c2) + v2 # at
    <3>1. b.data[BeginIndex(c2) + v2] = a.data[BeginIndex(c2) + v2]
      BY <1>2, <2>1, <2>3 DEF BitArray
    <3>2. <<c2, v2>> # <<c, v>>
      BY <2>3
    <3>3. QED
      BY <1>2, <3>1, <3>2 DEF IsSet
  <2>4. QED
    BY <2>2, <2>3
<1>5. MarksOf(b) = MarksOf(a) \cup {<<c, v>>}
  <2>1. ASSUME NEW m \in Checks \X Vertices
        PROVE  m \in MarksOf(b) <=> m \in MarksOf(a) \/ m = <<c, v>>
    <3>1. m[1] \in Checks /\ m[2] \in Vertices /\ m = <<m[1], m[2]>>
      OBVIOUS
    <3>2. QED
      BY <1>4, <3>1 DEF MarksOf
  <2>2. MarksOf(b) \subseteq Checks \X Vertices
    BY DEF MarksOf
  <2>3. MarksOf(a) \cup {<<c, v>>} \subseteq Checks \X Vertices
    BY DEF MarksOf
  <2>4. QED
    BY <2>1, <2>2, <2>3
<1>6. QED
  BY <1>2, <1>3, <1>5

----
(***************************************************************************)
(* The inductive invariant.                                                *)
(***************************************************************************)

IInv == TypeOK /\ NoStampAhead

LEMMA InvFacts ==
  ASSUME IInv
  PROVE  /\ \A l \in 1 .. Len(bitArrays) : /\ bitArrays[l] \in BitArray
                                           /\ Behind(bitArrays[l])
         /\ Len(bitArrays) \in Nat
         /\ depth \in Nat /\ 1 <= depth /\ depth <= Len(bitArrays)
BY DEF IInv, TypeOK, NoStampAhead, Behind

\* Push and Reset: taking one more array when d are in use.
LEMMA PushedFromInv ==
  ASSUME IInv, NEW d \in 0 .. Len(bitArrays), d < MaxDepth, PushedFrom(d)
  PROVE  /\ bitArrays' \in Seq(BitArray)
         /\ Len(bitArrays') <= MaxDepth
         /\ depth' = d + 1 /\ d + 1 <= Len(bitArrays')
         /\ MarksOf(bitArrays'[d + 1]) = {}
         /\ \A l \in 1 .. d : bitArrays'[l] = bitArrays[l]
         /\ \A l \in 1 .. Len(bitArrays') : Behind(bitArrays'[l])
<1> USE SizesFit, InvFacts, FreshArrayFacts
<1>1. bitArrays \in Seq(BitArray) /\ Len(bitArrays) <= MaxDepth
  BY DEF IInv, TypeOK
<1>2. CASE d = Len(bitArrays)
  <2>1. bitArrays' = Append(bitArrays, FreshArray) /\ depth' = d + 1
    BY <1>2 DEF PushedFrom
  <2>2. /\ Len(bitArrays') = d + 1
        /\ bitArrays'[d + 1] = FreshArray
        /\ \A l \in 1 .. d : bitArrays'[l] = bitArrays[l]
        /\ bitArrays' \in Seq(BitArray)
    BY <1>1, <1>2, <2>1
  <2>3. QED
    BY <1>1, <1>2, <2>1, <2>2
<1>3. CASE d # Len(bitArrays)
  <2>1. /\ bitArrays' = [bitArrays EXCEPT ![d + 1] = Cleared(@)]
        /\ depth' = d + 1
    BY <1>3 DEF PushedFrom
  <2>2. d + 1 \in 1 .. Len(bitArrays)
    BY <1>3
  <2>3. /\ Cleared(bitArrays[d + 1]) \in BitArray
        /\ Behind(Cleared(bitArrays[d + 1]))
        /\ MarksOf(Cleared(bitArrays[d + 1])) = {}
    BY <2>2, ClearedFacts
  <2>4. /\ Len(bitArrays') = Len(bitArrays)
        /\ bitArrays' \in Seq(BitArray)
        /\ bitArrays'[d + 1] = Cleared(bitArrays[d + 1])
        /\ \A l \in 1 .. Len(bitArrays) :
             l # d + 1 => bitArrays'[l] = bitArrays[l]
    BY <1>1, <2>1, <2>2, <2>3
  <2>5. QED
    BY <1>1, <2>1, <2>2, <2>3, <2>4
<1>4. QED
  BY <1>2, <1>3

\* Mark: one bit of the top array.
LEMMA MarkInv ==
  ASSUME IInv, NEW c \in Checks, NEW v \in Vertices, Mark(c, v)
  PROVE  /\ bitArrays' \in Seq(BitArray)
         /\ Len(bitArrays') = Len(bitArrays)
         /\ depth' = depth
         /\ MarksOf(bitArrays'[depth]) = MarksOf(bitArrays[depth]) \cup {<<c, v>>}
         /\ \A l \in 1 .. Len(bitArrays) :
              l # depth => bitArrays'[l] = bitArrays[l]
         /\ \A l \in 1 .. Len(bitArrays') : Behind(bitArrays'[l])
<1> USE InvFacts
<1> DEFINE b == WithSet(bitArrays[depth], BeginIndex(c) + v)
<1>1. bitArrays \in Seq(BitArray) /\ depth \in 1 .. Len(bitArrays)
  BY DEF IInv, TypeOK
<1>2. /\ b \in BitArray
      /\ Behind(b)
      /\ MarksOf(b) = MarksOf(bitArrays[depth]) \cup {<<c, v>>}
  BY <1>1, WithSetFacts
<1>3. bitArrays' = [bitArrays EXCEPT ![depth] = b] /\ depth' = depth
  BY DEF Mark
<1> HIDE DEF b
<1>4. /\ Len(bitArrays') = Len(bitArrays)
      /\ bitArrays' \in Seq(BitArray)
      /\ bitArrays'[depth] = b
      /\ \A l \in 1 .. Len(bitArrays) :
           l # depth => bitArrays'[l] = bitArrays[l]
  BY <1>1, <1>2, <1>3
<1>5. QED
  BY <1>1, <1>2, <1>3, <1>4

LEMMA InitInv == Init => IInv
<1> USE SizesFit, FreshArrayFacts
<1>1. SUFFICES ASSUME Init PROVE IInv
  OBVIOUS
<1>2. /\ bitArrays = <<FreshArray>> /\ bitArrays \in Seq(BitArray)
      /\ Len(bitArrays) = 1 /\ bitArrays[1] = FreshArray
  BY <1>1 DEF Init
<1>3. TypeOK
  <2>1. answer \in BOOLEAN
    BY <1>1, Zenon DEF Init
  <2>2. depth = 1
    BY <1>1 DEF Init
  <2>3. QED
    BY <1>2, <2>1, <2>2 DEF TypeOK
<1>4. NoStampAhead
  BY <1>2 DEF NoStampAhead, Behind
<1>5. QED
  BY <1>3, <1>4 DEF IInv

LEMMA NextInv == IInv /\ [Next]_vars => IInv'
<1> SUFFICES ASSUME IInv, [Next]_vars PROVE IInv'
  OBVIOUS
<1> USE SizesFit, InvFacts
<1>1. answer \in BOOLEAN /\ Len(bitArrays) <= MaxDepth
      /\ bitArrays \in Seq(BitArray)
  BY DEF IInv, TypeOK
<1>2. CASE Push
  <2>1. depth \in 0 .. Len(bitArrays) /\ depth < MaxDepth /\ PushedFrom(depth)
    BY <1>2 DEF Push
  <2>2. TypeOK'
    BY <1>1, <1>2, <2>1, PushedFromInv DEF TypeOK, Push
  <2>3. NoStampAhead'
    BY <2>1, PushedFromInv DEF NoStampAhead, Behind
  <2>4. QED
    BY <2>2, <2>3 DEF IInv
<1>3. CASE Pop
  <2>1. bitArrays' = bitArrays /\ answer' = answer
        /\ depth' \in 1 .. Len(bitArrays)
    BY <1>3 DEF Pop
  <2>2. QED
    BY <1>1, <2>1 DEF IInv, TypeOK, NoStampAhead
<1>4. CASE Reset
  <2>1. 0 \in 0 .. Len(bitArrays) /\ 0 < MaxDepth /\ PushedFrom(0)
    BY <1>4 DEF Reset
  <2>2. TypeOK'
    BY <1>1, <1>4, <2>1, PushedFromInv DEF TypeOK, Reset
  <2>3. NoStampAhead'
    BY <2>1, PushedFromInv DEF NoStampAhead, Behind
  <2>4. QED
    BY <2>2, <2>3 DEF IInv
<1>5. ASSUME NEW c \in Checks, NEW v \in Vertices, Mark(c, v)
      PROVE  IInv'
  <2>1. answer' \in BOOLEAN
    BY <1>1, <1>5, Zenon DEF Mark
  <2>2. /\ bitArrays' \in Seq(BitArray)
        /\ Len(bitArrays') = Len(bitArrays)
        /\ depth' = depth
        /\ \A l \in 1 .. Len(bitArrays') : Behind(bitArrays'[l])
    BY <1>5, MarkInv
  <2>3. TypeOK'
    BY <1>1, <2>1, <2>2 DEF TypeOK
  <2>4. NoStampAhead'
    BY <2>2 DEF NoStampAhead, Behind
  <2>5. QED
    BY <2>3, <2>4 DEF IInv
<1>6. ASSUME NEW c \in Checks, NEW v \in Vertices, Query(c, v)
      PROVE  IInv'
  BY <1>6 DEF IInv, TypeOK, NoStampAhead, Query, IsSet
<1>7. CASE UNCHANGED vars
  BY <1>7 DEF IInv, TypeOK, NoStampAhead, vars
<1>8. QED
  BY <1>2, <1>3, <1>4, <1>5, <1>6, <1>7 DEF Next

\* Whatever the sizes, every stamp stays an unsigned int and the stack
\* always has a level in use.
THEOREM TypeCorrect == Spec => []TypeOK
<1>1. IInv => TypeOK
  BY DEF IInv
<1>2. QED
  BY InitInv, NextInv, <1>1, PTL DEF Spec

\* Whatever the sizes and the number of resets, no array holds a stamp ahead
\* of its threshold, so threshold++ clears it.
THEOREM StampsBehind == Spec => []NoStampAhead
<1>1. IInv => NoStampAhead
  BY DEF IInv
<1>2. QED
  BY InitInv, NextInv, <1>1, PTL DEF Spec

----
(***************************************************************************)
(* Refinement: every step of the bit arrays is a step of the mark sets.    *)
(***************************************************************************)

M == [l \in 1 .. depth |-> MarksOf(bitArrays[l])]

LEMMA InitRefines == Init => Marks!Init
<1>1. SUFFICES ASSUME Init PROVE Marks!Init
  OBVIOUS
<1>2. depth = 1 /\ bitArrays[1] = FreshArray
  BY <1>1 DEF Init
<1>3. M = <<{}>>
  BY <1>2, FreshArrayFacts DEF M
<1>4. QED
  BY <1>1, <1>3 DEF Marks!Init, Init, M

LEMMA NextRefines == IInv /\ [Next]_vars => [Marks!Next]_Marks!vars
<1> SUFFICES ASSUME IInv, [Next]_vars PROVE [Marks!Next]_Marks!vars
  OBVIOUS
<1> USE SizesFit, InvFacts
<1>1. M \in Seq(SUBSET (Checks \X Vertices)) /\ Len(M) = depth
      /\ \A l \in 1 .. depth : M[l] = MarksOf(bitArrays[l])
  BY DEF M, MarksOf
<1>2. CASE Push
  <2>1. depth \in 0 .. Len(bitArrays) /\ depth < MaxDepth /\ PushedFrom(depth)
    BY <1>2 DEF Push
  <2>2. /\ depth' = depth + 1
        /\ MarksOf(bitArrays'[depth + 1]) = {}
        /\ \A l \in 1 .. depth : bitArrays'[l] = bitArrays[l]
    BY <2>1, PushedFromInv
  <2>3. M' = Append(M, {})
    BY <1>1, <2>2 DEF M
  <2>4. Marks!Push
    BY <1>1, <1>2, <2>1, <2>3 DEF Marks!Push, M, Push
  <2>5. QED
    BY <2>4 DEF Marks!Next
<1>3. CASE Pop
  <2>1. depth' = depth - 1 /\ depth > 1 /\ bitArrays' = bitArrays
    BY <1>3 DEF Pop
  <2>2. M' = SubSeq(M, 1, Len(M) - 1)
    BY <1>1, <2>1 DEF M
  <2>3. Marks!Pop
    BY <1>1, <1>3, <2>1, <2>2 DEF Marks!Pop, M, Pop
  <2>4. QED
    BY <2>3 DEF Marks!Next
<1>4. CASE Reset
  <2>1. 0 \in 0 .. Len(bitArrays) /\ 0 < MaxDepth /\ PushedFrom(0)
    BY <1>4 DEF Reset
  <2>2. depth' = 0 + 1 /\ MarksOf(bitArrays'[0 + 1]) = {}
    BY <2>1, PushedFromInv
  <2>3. M' = <<{}>>
    <3>1. depth' = 1 /\ MarksOf(bitArrays'[1]) = {}
      BY <2>2
    <3>2. M' = [l \in 1 .. 1 |-> MarksOf(bitArrays'[l])]
      BY <3>1 DEF M, MarksOf
    <3>3. [l \in 1 .. 1 |-> MarksOf(bitArrays'[l])] = [l \in 1 .. 1 |-> {}]
      BY <3>1
    <3>4. [l \in 1 .. 1 |-> {}] = <<{}>>
      OBVIOUS
    <3>5. QED
      BY <3>2, <3>3, <3>4, Zenon
  <2>4. Marks!Reset
    BY <1>4, <2>3 DEF Marks!Reset, M, Reset
  <2>5. QED
    BY <2>4 DEF Marks!Next
<1>5. ASSUME NEW c \in Checks, NEW v \in Vertices, Mark(c, v)
      PROVE  Marks!Next
  <2>1. /\ depth' = depth
        /\ MarksOf(bitArrays'[depth]) = MarksOf(bitArrays[depth]) \cup {<<c, v>>}
        /\ \A l \in 1 .. depth : l # depth => bitArrays'[l] = bitArrays[l]
    BY <1>5, MarkInv
  <2>2. M' = [M EXCEPT ![Len(M)] = @ \cup {<<c, v>>}]
    BY <1>1, <2>1 DEF M
  <2>3. Marks!Mark(c, v)
    BY <1>5, <2>2 DEF Marks!Mark, M, Mark
  <2>4. QED
    BY <2>3 DEF Marks!Next
<1>6. ASSUME NEW c \in Checks, NEW v \in Vertices, Query(c, v)
      PROVE  Marks!Next
  <2>1. M' = M
    BY <1>6 DEF Query, M
  <2>2. answer' = (<<c, v>> \in MarksOf(bitArrays[depth]))
    <3>1. answer' = IsSet(bitArrays[depth], BeginIndex(c) + v)
      BY <1>6 DEF Query, TopArray
    <3>2. <<c, v>> \in MarksOf(bitArrays[depth])
            <=> IsSet(bitArrays[depth], BeginIndex(c) + v)
      BY DEF MarksOf
    <3>3. (<<c, v>> \in MarksOf(bitArrays[depth]))
            = IsSet(bitArrays[depth], BeginIndex(c) + v)
      BY <3>2 DEF IsSet
    <3>4. QED
      BY <3>1, <3>3, Zenon
  <2>3. answer' = (<<c, v>> \in M[Len(M)])
    BY <1>1, <2>2
  <2>4. Marks!Query(c, v)
    BY <2>1, <2>3 DEF Marks!Query, M
  <2>5. QED
    BY <2>4 DEF Marks!Next
<1>7. CASE UNCHANGED vars
  BY <1>7 DEF vars, Marks!vars, M
<1>8. QED
  BY <1>2, <1>3, <1>4, <1>5, <1>6, <1>7 DEF Next

\* The bit arrays, for all sizes and any number of pushes, pops and resets,
\* implement the stack of mark sets the search relies on.
THEOREM Refinement == Spec => ImplementsMarks
<1>1. Spec => []IInv
  BY InitInv, NextInv, PTL DEF Spec
<1>2. QED
  BY <1>1, InitRefines, NextRefines, PTL DEF Spec, ImplementsMarks, Marks!Spec
====
