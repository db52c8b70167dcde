---- MODULE StringSocket_proof ----
(***************************************************************************)
(* A stream of bytes, read in pieces of any size, is a mailbox: for any    *)
(* texts, any number of them and any way the bytes arrive.  And the texts  *)
(* of moves are read as the moves they were written for.                   *)
(***************************************************************************)
EXTENDS MoveSocket, FiniteSetTheorems, SequenceTheorems, WellFoundedInduction, TLAPS

----
(***************************************************************************)
(* Messages end where nulls are: the k-th ends at the end that has k ends  *)
(* up to it.                                                               *)
(***************************************************************************)
LEMMA CountType ==
  ASSUME NEW S, NEW b \in Seq(S), NEW i \in Nat
  PROVE  /\ IsFiniteSet(Ends(b)) /\ Cardinality(Ends(b)) \in Nat
         /\ IsFiniteSet({j \in Ends(b) : j <= i})
         /\ Count(b, i) \in 0 .. Cardinality(Ends(b))
         /\ i >= Len(b) => Count(b, i) = Cardinality(Ends(b))
         /\ i \in Ends(b) => Count(b, i) > 0
<1>1. Ends(b) \in SUBSET (1 .. Len(b)) /\ Len(b) \in Nat
  BY DEF Ends
<1>2. IsFiniteSet(Ends(b)) /\ Cardinality(Ends(b)) \in Nat
  <2>1. IsFiniteSet(1 .. Len(b))
    BY <1>1, FS_Interval
  <2>2. IsFiniteSet(Ends(b))
    BY <1>1, <2>1, FS_Subset
  <2> QED BY <2>2, FS_CardinalityType
<1> DEFINE U == {j \in Ends(b) : j <= i}
<1>3. U \in SUBSET Ends(b)
  OBVIOUS
<1>4. IsFiniteSet(U) /\ Cardinality(U) \in Nat /\ Cardinality(U) <= Cardinality(Ends(b))
  BY <1>2, <1>3, FS_Subset, FS_CardinalityType
<1>5. i >= Len(b) => U = Ends(b)
  BY <1>1
<1>6. i \in Ends(b) => U # {}
  OBVIOUS
<1>7. i \in Ends(b) => Cardinality(U) # 0
  BY <1>4, <1>6, FS_EmptySet
<1> HIDE DEF U
<1>8. Count(b, i) = Cardinality(U)
  BY DEF Count, U
<1>9. IsFiniteSet({j \in Ends(b) : j <= i})
  BY <1>4 DEF U
<1> QED BY <1>2, <1>4, <1>5, <1>7, <1>8, <1>9

\* Two ends are not the k-th.
LEMMA CountIncreases ==
  ASSUME NEW S, NEW b \in Seq(S), NEW i \in Ends(b), NEW j \in Ends(b), i < j
  PROVE  Count(b, i) < Count(b, j)
<1> DEFINE U == {l \in Ends(b) : l <= i}
           V == {l \in Ends(b) : l <= j}
<1>1. i \in Nat /\ j \in Nat /\ Ends(b) \subseteq Nat
  BY DEF Ends
<1>2. U \in SUBSET V /\ j \in V /\ j \notin U
  BY <1>1
<1>3. IsFiniteSet(V)
  BY <1>1, CountType
<1>4. Count(b, i) = Cardinality(U) /\ Count(b, j) = Cardinality(V)
  BY DEF Count
<1> HIDE DEF U, V
<1>5. Cardinality(U) <= Cardinality(V) /\ Cardinality(U) # Cardinality(V)
  BY <1>2, <1>3, FS_Subset
<1>6. Count(b, i) \in Nat /\ Count(b, j) \in Nat
  <2>1. Count(b, i) \in 0 .. Cardinality(Ends(b)) /\ Count(b, j) \in 0 .. Cardinality(Ends(b))
    BY <1>1, CountType
  <2> QED BY <2>1
<1> QED BY <1>4, <1>5, <1>6

\* There is a k-th end, and it is End(b, k): counting is an injection of the ends
\* into as many numbers.
LEMMA EndCounted ==
  ASSUME NEW S, NEW b \in Seq(S), NEW k \in 1 .. Cardinality(Ends(b))
  PROVE  /\ End(b, k) \in Ends(b) /\ Count(b, End(b, k)) = k
         /\ \A i \in Ends(b) : Count(b, i) = k => i = End(b, k)
<1> DEFINE n == Cardinality(Ends(b))
           f == [i \in Ends(b) |-> Count(b, i)]
<1>1. /\ IsFiniteSet(Ends(b)) /\ n \in Nat /\ Ends(b) \subseteq Nat
      /\ \A i \in Ends(b) : Count(b, i) \in 1 .. n
  <2>1. Ends(b) \subseteq Nat
    BY DEF Ends
  <2>2. IsFiniteSet(Ends(b)) /\ n \in Nat
    BY CountType
  <2>3. ASSUME NEW i \in Ends(b) PROVE Count(b, i) \in 1 .. n
    <3>1. Count(b, i) \in 0 .. n /\ Count(b, i) > 0
      BY <2>1, CountType
    <3> QED BY <2>2, <3>1
  <2> QED BY <2>1, <2>2, <2>3
<1>2. \A i, j \in Ends(b) : Count(b, i) = Count(b, j) => i = j
  <2>1. SUFFICES ASSUME NEW i \in Ends(b), NEW j \in Ends(b), Count(b, i) = Count(b, j)
                 PROVE  i = j
    OBVIOUS
  <2>2. ~ i < j /\ ~ j < i
    BY <1>1, <2>1, CountIncreases
  <2> QED BY <1>1, <2>2
<1>3. f \in Injection(Ends(b), 1 .. n)
  BY <1>1, <1>2 DEF Injection, IsInjective
<1>4. IsFiniteSet(1 .. n) /\ Cardinality(1 .. n) = n
  BY <1>1, FS_Interval
<1> HIDE DEF f
<1>5. f \in Surjection(Ends(b), 1 .. n)
  BY <1>3, <1>4, FS_Injection
<1>6. \E i \in Ends(b) : f[i] = k
  BY <1>5 DEF Surjection
<1>7. \E i \in Ends(b) : Count(b, i) = k
  BY <1>6 DEF f
<1>8. End(b, k) = CHOOSE i \in Ends(b) : Count(b, i) = k
  BY DEF End
<1>9. End(b, k) \in Ends(b) /\ Count(b, End(b, k)) = k
  BY <1>7, <1>8
<1> QED BY <1>2, <1>9

\* Parts of two sequences whose elements agree.
LEMMA SamePart ==
  ASSUME NEW S, NEW b \in Seq(S), NEW c \in Seq(S), NEW n \in Nat,
         NEW i \in Nat \ {0}, NEW j \in 0 .. Len(c), j + n <= Len(b),
         \A l \in i .. j : c[l] = b[l + n]
  PROVE  SubSeq(c, i, j) = SubSeq(b, i + n, j + n)
<1>1. Len(b) \in Nat /\ Len(c) \in Nat
  OBVIOUS
<1>2. CASE j < i
  <2>1. SubSeq(c, i, j) = <<>>
    BY <1>1, <1>2, SubSeqEmpty
  <2>2. i + n \in Int /\ j + n \in Int /\ j + n < i + n
    BY <1>1, <1>2
  <2>3. SubSeq(b, i + n, j + n) = <<>>
    BY <2>2, SubSeqEmpty
  <2> QED BY <2>1, <2>3
<1>3. CASE i <= j
  <2>1. /\ SubSeq(c, i, j) \in Seq(S) /\ Len(SubSeq(c, i, j)) = j - i + 1
        /\ \A l \in 1 .. j - i + 1 : SubSeq(c, i, j)[l] = c[l + i - 1]
    BY <1>1, <1>3
  <2>2. /\ SubSeq(b, i + n, j + n) \in Seq(S) /\ Len(SubSeq(b, i + n, j + n)) = j - i + 1
        /\ \A l \in 1 .. j - i + 1 : SubSeq(b, i + n, j + n)[l] = b[l + i + n - 1]
    BY <1>1, <1>3
  <2>3. \A l \in 1 .. j - i + 1 : c[l + i - 1] = b[l + i + n - 1]
    <3>1. SUFFICES ASSUME NEW l \in 1 .. j - i + 1 PROVE c[l + i - 1] = b[l + i + n - 1]
      OBVIOUS
    <3>2. l + i - 1 \in i .. j /\ l + i - 1 + n = l + i + n - 1
      BY <1>1, <1>3
    <3> QED BY <3>2
  <2> QED BY <2>1, <2>2, <2>3, SeqEqual
<1> QED BY <1>1, <1>2, <1>3

LEMMA SameBetween ==
  ASSUME NEW S, NEW b \in Seq(S), NEW c \in Seq(S), NEW n \in Nat,
         NEW d \in Nat, NEW e \in 1 .. Len(c) + 1, e + n <= Len(b) + 1,
         \A l \in 1 .. Len(c) : d < l /\ l < e => c[l] = b[l + n]
  PROVE  Between(c, d, e) = Between(b, d + n, e + n)
<1>1. Len(b) \in Nat /\ Len(c) \in Nat
  OBVIOUS
<1>2. /\ d + 1 \in Nat \ {0} /\ e - 1 \in 0 .. Len(c) /\ e - 1 + n <= Len(b)
      /\ \A l \in d + 1 .. e - 1 : c[l] = b[l + n]
  BY <1>1
<1>3. SubSeq(c, d + 1, e - 1) = SubSeq(b, d + 1 + n, e - 1 + n)
  BY <1>2, SamePart
<1>4. d + 1 + n = d + n + 1 /\ e - 1 + n = e + n - 1
  OBVIOUS
<1> QED BY <1>3, <1>4 DEF Between

LEMMA SameBeginning ==
  ASSUME NEW S, NEW b \in Seq(S), NEW c \in Seq(S), NEW d \in Nat,
         NEW e \in 1 .. Len(c) + 1, e <= Len(b) + 1,
         \A l \in 1 .. Len(c) : c[l] = b[l]
  PROVE  Between(c, d, e) = Between(b, d, e)
<1>1. Len(b) \in Nat /\ Len(c) \in Nat
  OBVIOUS
<1>2. PICK i \in Nat \ {0}, j \in 0 .. Len(c) : i = d + 1 /\ j = e - 1 /\ j <= Len(b)
  BY <1>1
<1>3. SubSeq(c, i, j) = SubSeq(b, i, j)
  <2>1. CASE j < i
    <3>1. SubSeq(c, i, j) = <<>> /\ SubSeq(b, i, j) = <<>>
      BY <1>1, <2>1, SubSeqEmpty
    <3> QED BY <3>1
  <2>2. CASE i <= j
    <3>1. /\ SubSeq(c, i, j) \in Seq(S) /\ Len(SubSeq(c, i, j)) = j - i + 1
          /\ \A l \in 1 .. j - i + 1 : SubSeq(c, i, j)[l] = c[l + i - 1]
      BY <1>1, <2>2
    <3>2. /\ SubSeq(b, i, j) \in Seq(S) /\ Len(SubSeq(b, i, j)) = j - i + 1
          /\ \A l \in 1 .. j - i + 1 : SubSeq(b, i, j)[l] = b[l + i - 1]
      BY <1>1, <1>2, <2>2
    <3>3. ASSUME NEW l \in 1 .. j - i + 1 PROVE c[l + i - 1] = b[l + i - 1]
      <4>1. l + i - 1 \in 1 .. Len(c)
        BY <1>1
      <4> QED BY <4>1
    <3> QED BY <3>1, <3>2, <3>3, SeqEqual
  <2> QED BY <1>1, <2>1, <2>2
<1> QED BY <1>2, <1>3 DEF Between

LEMMA BetweenType ==
  ASSUME NEW S, NEW b \in Seq(S), NEW d \in 0 .. Len(b), NEW e \in 1 .. Len(b)
  PROVE  Between(b, d, e) \in Seq(S)
BY SubSeqProperties DEF Between

\* Where the k-th message is.
LEMMA WholeAt ==
  ASSUME NEW S, NEW b \in Seq(S)
  PROVE  /\ Whole(b) \in Seq(Seq(S)) /\ Len(Whole(b)) = Cardinality(Ends(b))
         /\ DOMAIN Whole(b) = 1 .. Cardinality(Ends(b))
         /\ \A k \in 1 .. Cardinality(Ends(b)) :
              /\ End(b, k - 1) \in 0 .. Len(b) /\ End(b, k) \in 1 .. Len(b)
              /\ Whole(b)[k] = Between(b, End(b, k - 1), End(b, k))
<1>1. Cardinality(Ends(b)) \in Nat /\ Len(b) \in Nat
  <2>1. 0 \in Nat /\ Len(b) \in Nat
    OBVIOUS
  <2>2. Cardinality(Ends(b)) \in Nat
    BY <2>1, CountType
  <2> QED BY <2>1, <2>2
<1>2. ASSUME NEW k \in 1 .. Cardinality(Ends(b))
      PROVE  /\ End(b, k - 1) \in 0 .. Len(b) /\ End(b, k) \in 1 .. Len(b)
             /\ Between(b, End(b, k - 1), End(b, k)) \in Seq(S)
  <2>1. End(b, k) \in Ends(b)
    BY EndCounted
  <2>2. End(b, k) \in 1 .. Len(b)
    BY <2>1 DEF Ends
  <2>3. CASE k = 1
    <3>1. End(b, k - 1) = 0
      BY <2>3 DEF End
    <3> QED BY <1>1, <2>2, <3>1, BetweenType
  <2>4. CASE k # 1
    <3>1. k - 1 \in 1 .. Cardinality(Ends(b))
      BY <1>1, <2>4
    <3>2. End(b, k - 1) \in Ends(b)
      BY <3>1, EndCounted
    <3>3. End(b, k - 1) \in 1 .. Len(b)
      BY <3>2 DEF Ends
    <3> QED BY <1>1, <2>2, <3>3, BetweenType
  <2> QED BY <2>3, <2>4
<1> DEFINE n == Cardinality(Ends(b))
           e == [k \in 1 .. n |-> Between(b, End(b, k - 1), End(b, k))]
<1>3. Whole(b) = e
  BY DEF Whole
<1>4. n \in Nat /\ e \in [1 .. n -> Seq(S)]
  BY <1>1, <1>2
<1>5. e \in Seq(Seq(S)) /\ Len(e) = n /\ DOMAIN e = 1 .. n
  <2> HIDE DEF n
  <2> QED BY <1>4
<1> QED BY <1>2, <1>3, <1>5

\* A part of the bytes holds a part of the messages.
LEMMA WholePart ==
  ASSUME NEW S, NEW b \in Seq(S), NEW p \in Seq(S), Len(p) <= Len(b),
         \A i \in 1 .. Len(p) : p[i] = b[i]
  PROVE  /\ Ends(p) = {i \in Ends(b) : i <= Len(p)}
         /\ Cardinality(Ends(p)) \in 0 .. Len(Whole(b))
         /\ \A k \in 1 .. Cardinality(Ends(p)) : End(p, k) = End(b, k)
         /\ Whole(p) = SubSeq(Whole(b), 1, Cardinality(Ends(p)))
<1> DEFINE n == Len(p)
           m == Cardinality(Ends(p))
<1>1. n \in 0 .. Len(b) /\ \A i \in 1 .. n : p[i] = b[i]
  OBVIOUS
<1>2. Ends(p) = {i \in Ends(b) : i <= n}
  BY <1>1 DEF Ends
<1>3. m = Count(b, n)
  BY <1>2 DEF Count
<1>4. /\ m \in 0 .. Cardinality(Ends(b))
      /\ Len(Whole(b)) = Cardinality(Ends(b)) /\ Cardinality(Ends(b)) \in Nat
  <2>1. n \in Nat
    OBVIOUS
  <2>2. Count(b, n) \in 0 .. Cardinality(Ends(b)) /\ Cardinality(Ends(b)) \in Nat
    BY <2>1, CountType
  <2>3. Len(Whole(b)) = Cardinality(Ends(b))
    BY WholeAt
  <2> QED BY <1>3, <2>2, <2>3
<1>5. ASSUME NEW k \in 1 .. m PROVE End(p, k) = End(b, k) /\ k \in 1 .. Cardinality(Ends(b))
  <2>1. End(p, k) \in Ends(p) /\ Count(p, End(p, k)) = k
    BY <1>1, EndCounted
  <2>2. End(p, k) \in Ends(b) /\ End(p, k) <= n
    BY <1>2, <2>1
  <2>3. {j \in Ends(b) : j <= End(p, k)} = {j \in Ends(p) : j <= End(p, k)}
    BY <1>2, <2>2 DEF Ends
  <2>4. Count(b, End(p, k)) = k
    BY <2>1, <2>3 DEF Count
  <2>5. k \in 1 .. Cardinality(Ends(b))
    BY <1>4
  <2> QED BY <2>2, <2>4, <2>5, EndCounted
<1>6. End(p, 0) = 0 /\ End(b, 0) = 0
  BY DEF End
<1>7. Whole(p) \in Seq(Seq(S)) /\ Len(Whole(p)) = m
  BY <1>1, WholeAt
<1>8. /\ SubSeq(Whole(b), 1, m) \in Seq(Seq(S)) /\ Len(SubSeq(Whole(b), 1, m)) = m
      /\ \A k \in 1 .. m : SubSeq(Whole(b), 1, m)[k] = Whole(b)[k]
  <2>1. Whole(b) \in Seq(Seq(S))
    BY WholeAt
  <2> QED BY <1>4, <2>1
<1>9. ASSUME NEW k \in 1 .. m PROVE Whole(p)[k] = Whole(b)[k]
  <2>1. End(p, k) = End(b, k) /\ End(p, k - 1) = End(b, k - 1)
    <3>1. CASE k = 1
      BY <1>5, <1>6, <3>1
    <3>2. CASE k # 1
      <4>1. k - 1 \in 1 .. m
        BY <1>4, <3>2
      <4> QED BY <1>5, <4>1
    <3> QED BY <3>1, <3>2
  <2>2. /\ End(p, k - 1) \in 0 .. n /\ End(p, k) \in 1 .. n
        /\ Whole(p)[k] = Between(p, End(p, k - 1), End(p, k))
    BY <1>1, WholeAt
  <2>3. Whole(b)[k] = Between(b, End(b, k - 1), End(b, k))
    BY <1>5, WholeAt
  <2>4. PICK d \in 0 .. n, e \in 1 .. n : d = End(p, k - 1) /\ e = End(p, k)
    BY <2>2
  <2>5. Between(p, d, e) = Between(b, d, e)
    <3>1. d \in Nat /\ e \in 1 .. n + 1 /\ e <= Len(b) + 1
      BY <1>1
    <3> QED BY <1>1, <3>1, SameBeginning
  <2> QED BY <2>1, <2>2, <2>3, <2>4, <2>5
<1>10. Whole(p) = SubSeq(Whole(b), 1, m)
  <2> HIDE DEF m
  <2> QED BY <1>4, <1>7, <1>8, <1>9, SeqEqual
<1> QED BY <1>2, <1>4, <1>5, <1>10

LEMMA CountAll ==
  ASSUME NEW S, NEW b \in Seq(S)
  PROVE  Count(b, Len(b)) = Cardinality(Ends(b)) /\ Cardinality(Ends(b)) \in Nat
<1>1. Len(b) \in Nat
  OBVIOUS
<1>2. Cardinality(Ends(b)) \in Nat
  BY <1>1, CountType
<1>3. {j \in Ends(b) : j <= Len(b)} = Ends(b)
  BY DEF Ends
<1> QED BY <1>2, <1>3 DEF Count

\* A text and a null behind whole messages are one message more.
IsWritten(c, b, text) ==
  /\ Len(c) = Len(b) + Len(text) + 1
  /\ \A i \in 1 .. Len(b) : c[i] = b[i]
  /\ \A i \in 1 .. Len(text) : text[i] = c[i + Len(b)]
  /\ c[Len(c)] = Null

LEMMA WholeWritten ==
  ASSUME NEW S, NEW b \in Seq(S), b = <<>> \/ Len(b) \in Ends(b),
         NEW text \in Seq(S), ~Contains(text, Null),
         NEW c \in Seq(S), IsWritten(c, b, text)
  PROVE  /\ Len(c) \in Ends(c)
         /\ Whole(c) # <<>> /\ Front(Whole(c)) = Whole(b) /\ Last(Whole(c)) = text
<1> SUFFICES ASSUME Len(c) = Len(b) + Len(text) + 1,
                    \A i \in 1 .. Len(b) : c[i] = b[i],
                    \A i \in 1 .. Len(text) : text[i] = c[i + Len(b)],
                    c[Len(c)] = Null
             PROVE  /\ Len(c) \in Ends(c)
                    /\ Whole(c) # <<>> /\ Front(Whole(c)) = Whole(b) /\ Last(Whole(c)) = text
  BY DEF IsWritten
<1> DEFINE K == Cardinality(Ends(c))
<1>1. Len(b) \in Nat /\ Len(text) \in Nat /\ Len(c) \in Nat \ {0}
  OBVIOUS
<1>4. Ends(c) = Ends(b) \cup {Len(c)} /\ Len(c) \notin Ends(b)
  <2>1. \A i \in 1 .. Len(text) : text[i] # Null
    BY DEF Contains
  <2>2. ASSUME NEW i \in Ends(c) PROVE i \in Ends(b) \/ i = Len(c)
    <3>1. CASE i <= Len(b)
      BY <1>1, <2>2, <3>1 DEF Ends
    <3>2. CASE i > Len(b) /\ i < Len(c)
      <4>1. i - Len(b) \in 1 .. Len(text) /\ i - Len(b) + Len(b) = i
        BY <1>1, <2>2, <3>2 DEF Ends
      <4>2. c[i] # Null
        BY <1>1, <2>1, <4>1
      <4> QED BY <4>2, <2>2 DEF Ends
    <3> QED BY <1>1, <2>2, <3>1, <3>2 DEF Ends
  <2>3. Ends(b) \cup {Len(c)} \subseteq Ends(c)
    BY <1>1 DEF Ends
  <2> QED BY <1>1, <2>2, <2>3 DEF Ends
<1>5. /\ IsFiniteSet(Ends(b)) /\ Cardinality(Ends(b)) \in Nat
      /\ K = Cardinality(Ends(b)) + 1
  <2>1. Len(b) \in Nat
    BY <1>1
  <2>2. IsFiniteSet(Ends(b)) /\ Cardinality(Ends(b)) \in Nat
    BY <2>1, CountType
  <2> QED BY <1>4, <2>2, FS_AddElement
<1>6. /\ Whole(b) = SubSeq(Whole(c), 1, K - 1)
      /\ \A k \in 1 .. K - 1 : End(b, k) = End(c, k)
  <2>1. Len(b) <= Len(c)
    BY <1>1
  <2>2. /\ Whole(b) = SubSeq(Whole(c), 1, Cardinality(Ends(b)))
        /\ \A k \in 1 .. Cardinality(Ends(b)) : End(b, k) = End(c, k)
    BY <2>1, WholePart
  <2>3. Cardinality(Ends(b)) = K - 1
    BY <1>5
  <2> QED BY <2>2, <2>3
<1>7. End(c, K) = Len(c)
  <2>1. K \in 1 .. Cardinality(Ends(c)) /\ Len(c) \in Nat /\ Len(c) \in Ends(c)
    BY <1>1, <1>4, <1>5
  <2>2. Count(c, Len(c)) = K
    BY CountAll
  <2> QED BY <1>1, <2>1, <2>2, EndCounted
<1>8. End(c, K - 1) = Len(b)
  <2>1. CASE Ends(b) = {}
    <3>1. K - 1 = 0 /\ b = <<>>
      BY <1>5, <2>1, FS_EmptySet
    <3> QED BY <3>1 DEF End
  <2>2. CASE Ends(b) # {}
    <3>1. K - 1 \in 1 .. Cardinality(Ends(b))
      BY <1>5, <2>2, FS_EmptySet
    <3>2. Len(b) \in Ends(b) /\ Len(b) \in Nat
      BY <1>1, <2>2 DEF Ends
    <3>3. Count(b, Len(b)) = Cardinality(Ends(b))
      BY CountAll
    <3>4. Len(b) = End(b, K - 1)
      BY <1>5, <3>1, <3>2, <3>3, EndCounted
    <3>5. K - 1 \in 1 .. K - 1
      BY <1>5, <3>1
    <3> QED BY <1>6, <3>4, <3>5
  <2> QED BY <2>1, <2>2
<1>9. Whole(c) \in Seq(Seq(S)) /\ Len(Whole(c)) = K /\ K \in Nat \ {0}
      /\ Whole(c)[K] = Between(c, Len(b), Len(c))
  <2>1. K \in 1 .. K
    BY <1>5
  <2>2. Whole(c)[K] = Between(c, End(c, K - 1), End(c, K))
    BY <1>1, <2>1, WholeAt
  <2>3. Whole(c) \in Seq(Seq(S)) /\ Len(Whole(c)) = K
    BY <1>1, WholeAt
  <2>4. Whole(c)[K] = Between(c, Len(b), Len(c))
    BY <1>7, <1>8, <2>2
  <2> QED BY <1>5, <2>3, <2>4
<1>10. Between(c, Len(b), Len(c)) = text
  <2> DEFINE part == SubSeq(c, Len(b) + 1, Len(c) - 1)
  <2>1. /\ part \in Seq(S) /\ Len(part) = Len(text)
        /\ \A i \in 1 .. Len(text) : part[i] = c[i + Len(b)]
    BY <1>1
  <2> HIDE DEF part
  <2>2. part = text
    BY <2>1, SeqEqual
  <2> QED BY <2>2 DEF Between, part
<1>11. Whole(c) # <<>> /\ Front(Whole(c)) = Whole(b) /\ Last(Whole(c)) = text
  BY <1>6, <1>9, <1>10 DEF Front, Last
<1> QED BY <1>4, <1>11

\* Behind the first null are the messages but the first.
LEMMA RestCounted ==
  ASSUME NEW S, NEW b \in Seq(S), NEW n \in Ends(b), \A j \in Ends(b) : n <= j,
         NEW r \in Seq(S), Len(b) = Len(r) + n, \A i \in 1 .. Len(r) : r[i] = b[i + n]
  PROVE  /\ \A i \in 1 .. Len(r) : i \in Ends(r) <=> i + n \in Ends(b)
         /\ \A i \in 0 .. Len(r) : Count(b, i + n) = Count(r, i) + 1
<1>1. n \in Nat \ {0} /\ Len(r) \in Nat
  BY DEF Ends
<1>2. ASSUME NEW i \in 1 .. Len(r) PROVE i \in Ends(r) <=> i + n \in Ends(b)
  BY <1>1 DEF Ends
<1>3. ASSUME NEW i \in 0 .. Len(r) PROVE Count(b, i + n) = Count(r, i) + 1
  <2> DEFINE U == {j \in Ends(r) : j <= i}
             V == {j \in Ends(b) : j <= i + n}
             f == [j \in U |-> j + n]
  <2>1. IsFiniteSet(U) /\ IsFiniteSet(V)
    <3>1. i \in Nat /\ i + n \in Nat
      BY <1>1
    <3> QED BY <3>1, CountType
  <2>2. n \in V
    BY <1>1
  <2>3. \A j \in U : j \in 1 .. Len(r)
    BY DEF Ends
  <2>4. \A j \in U : j + n \in V \ {n}
    BY <1>1, <1>2, <2>3
  <2>5. ASSUME NEW l \in V \ {n} PROVE \E j \in U : j + n = l
    <3>1. l \in Nat /\ l <= Len(b) /\ n < l /\ l <= i + n
      BY <1>1 DEF Ends
    <3>2. l - n \in 1 .. Len(r) /\ l - n + n = l /\ l - n <= i
      BY <1>1, <3>1
    <3> QED BY <1>2, <3>2
  <2>6. f \in Bijection(U, V \ {n})
    <3> HIDE DEF U, V
    <3>1. f \in [U -> V \ {n}]
      BY <2>4
    <3>2. \A j, l \in U : f[j] = f[l] => j = l
      BY <1>1, <2>3
    <3>3. \A l \in V \ {n} : \E j \in U : f[j] = l
      BY <2>5
    <3> HIDE DEF f
    <3> QED BY <3>1, <3>2, <3>3 DEF Bijection, Injection, Surjection, IsInjective
  <2>7. ExistsBijection(U, V \ {n})
    BY <2>6 DEF ExistsBijection
  <2>8. Count(r, i) = Cardinality(U) /\ Count(b, i + n) = Cardinality(V)
    BY DEF Count
  <2> HIDE DEF U, V
  <2>9. Cardinality(V \ {n}) = Cardinality(U)
    BY <2>1, <2>7, FS_Bijection
  <2>10. Cardinality(V \ {n}) = Cardinality(V) - 1 /\ Cardinality(V) \in Nat
    BY <2>1, <2>2, FS_RemoveElement, FS_CardinalityType
  <2> QED BY <2>8, <2>9, <2>10
<1> QED BY <1>2, <1>3

LEMMA WholeRead ==
  ASSUME NEW S, NEW b \in Seq(S), NEW n \in Ends(b), \A j \in Ends(b) : n <= j,
         NEW r \in Seq(S), Len(b) = Len(r) + n, \A i \in 1 .. Len(r) : r[i] = b[i + n]
  PROVE  /\ Whole(b) # <<>> /\ Head(Whole(b)) = Between(b, 0, n)
         /\ Tail(Whole(b)) = Whole(r)
         /\ Len(b) \in Ends(b) => r = <<>> \/ Len(r) \in Ends(r)
<1> DEFINE m == Cardinality(Ends(r))
<1>1. n \in Nat \ {0} /\ Len(r) \in Nat /\ n <= Len(b)
  BY DEF Ends
<1>2. \A i \in 1 .. Len(r) : i \in Ends(r) <=> i + n \in Ends(b)
  BY RestCounted
<1>3. \A i \in 0 .. Len(r) : Count(b, i + n) = Count(r, i) + 1
  BY RestCounted
<1>4. m \in Nat /\ Cardinality(Ends(b)) = m + 1
  <2>1. Count(b, Len(b)) = Count(r, Len(r)) + 1
    BY <1>1, <1>3
  <2>2. Count(b, Len(b)) = Cardinality(Ends(b))
    BY CountAll
  <2>3. Count(r, Len(r)) = m /\ m \in Nat
    BY CountAll
  <2> QED BY <2>1, <2>2, <2>3
<1>5. End(b, 1) = n
  <2>1. {j \in Ends(r) : j <= 0} = {}
    BY <1>1 DEF Ends
  <2>2. Count(r, 0) = 0
    BY <2>1, FS_EmptySet DEF Count
  <2>3. Count(b, n) = 1
    <3>1. Count(b, 0 + n) = Count(r, 0) + 1
      BY <1>1, <1>3
    <3> QED BY <1>1, <2>2, <3>1, BetweenType
  <2>4. 1 \in 1 .. Cardinality(Ends(b))
    BY <1>4
  <2> QED BY <2>3, <2>4, EndCounted
<1>6. ASSUME NEW k \in 1 .. m
      PROVE  End(b, k + 1) = End(r, k) + n /\ End(r, k) \in 1 .. Len(r)
  <2>1. End(r, k) \in Ends(r) /\ Count(r, End(r, k)) = k
    BY EndCounted
  <2>2. End(r, k) \in 1 .. Len(r)
    BY <2>1 DEF Ends
  <2>3. End(r, k) + n \in Ends(b)
    BY <1>2, <2>1, <2>2
  <2>4. Count(b, End(r, k) + n) = k + 1
    BY <1>3, <2>1, <2>2
  <2>5. k + 1 \in 1 .. Cardinality(Ends(b))
    BY <1>4
  <2> QED BY <2>2, <2>3, <2>4, <2>5, EndCounted
<1>7. /\ Whole(b) \in Seq(Seq(S)) /\ Len(Whole(b)) = m + 1
      /\ Whole(r) \in Seq(Seq(S)) /\ Len(Whole(r)) = m
  <2>1. Whole(b) \in Seq(Seq(S)) /\ Len(Whole(b)) = Cardinality(Ends(b))
    BY WholeAt
  <2>2. Whole(r) \in Seq(Seq(S)) /\ Len(Whole(r)) = m
    BY WholeAt
  <2> QED BY <1>4, <2>1, <2>2
<1>8. Whole(b)[1] = Between(b, 0, n)
  <2>1. 1 \in 1 .. Cardinality(Ends(b)) /\ 1 - 1 = 0
    BY <1>4
  <2>2. End(b, 0) = 0
    BY DEF End
  <2>3. Whole(b)[1] = Between(b, End(b, 1 - 1), End(b, 1))
    BY <2>1, WholeAt
  <2> QED BY <1>5, <2>1, <2>2, <2>3
<1>9. ASSUME NEW k \in 1 .. m PROVE Whole(b)[k + 1] = Whole(r)[k]
  <2>1. End(b, k + 1 - 1) = End(r, k - 1) + n /\ End(r, k - 1) \in 0 .. Len(r)
    <3>1. CASE k = 1
      <4>1. End(r, k - 1) = 0 /\ k + 1 - 1 = 1
        BY <3>1 DEF End
      <4> QED BY <1>1, <1>5, <4>1
    <3>2. CASE k # 1
      <4>1. k - 1 \in 1 .. m /\ k + 1 - 1 = k - 1 + 1
        BY <1>4, <3>2
      <4> QED BY <1>1, <1>6, <4>1
    <3> QED BY <3>1, <3>2
  <2>2. End(b, k + 1) = End(r, k) + n /\ End(r, k) \in 1 .. Len(r)
    BY <1>6
  <2>3. PICK d \in 0 .. Len(r), e \in 1 .. Len(r) : d = End(r, k - 1) /\ e = End(r, k)
    BY <2>1, <2>2
  <2>4. Whole(r)[k] = Between(r, d, e)
    <3>1. Whole(r)[k] = Between(r, End(r, k - 1), End(r, k))
      BY WholeAt
    <3> QED BY <2>3, <3>1
  <2>5. Whole(b)[k + 1] = Between(b, d + n, e + n)
    <3>1. k + 1 \in 1 .. Cardinality(Ends(b))
      BY <1>4
    <3>2. Whole(b)[k + 1] = Between(b, End(b, k + 1 - 1), End(b, k + 1))
      BY <3>1, WholeAt
    <3> QED BY <2>1, <2>2, <2>3, <3>2
  <2>6. Between(r, d, e) = Between(b, d + n, e + n)
    <3>1. /\ d \in Nat /\ e \in 1 .. Len(r) + 1 /\ n \in Nat /\ e + n <= Len(b) + 1
      BY <1>1
    <3> QED BY <3>1, SameBetween
  <2> QED BY <2>4, <2>5, <2>6
<1>10. Tail(Whole(b)) = Whole(r)
  <2> HIDE DEF m
  <2>1. /\ Tail(Whole(b)) \in Seq(Seq(S)) /\ Len(Tail(Whole(b))) = m
        /\ \A k \in 1 .. m : Tail(Whole(b))[k] = Whole(b)[k + 1]
    BY <1>4, <1>7
  <2> QED BY <1>7, <1>9, <2>1, SeqEqual
<1>11. Whole(b) # <<>> /\ Head(Whole(b)) = Whole(b)[1]
  BY <1>4, <1>7
<1>12. Len(b) \in Ends(b) => r = <<>> \/ Len(r) \in Ends(r)
  BY <1>1, <1>2
<1> QED BY <1>8, <1>10, <1>11, <1>12

----
(***************************************************************************)
(* The first null, as read_until finds it.                                 *)
(***************************************************************************)
LEMMA FirstIsAnEnd ==
  ASSUME NEW S, NEW b \in Seq(S)
  PROVE  /\ FirstSize(b) = 0 => Ends(b) = {}
         /\ FirstSize(b) # 0 =>
              FirstSize(b) \in Ends(b) /\ \A j \in Ends(b) : FirstSize(b) <= j
<1>1. FirstSize(b) = IF Ends(b) # {} THEN Min(Ends(b)) ELSE 0
  BY DEF FirstSize, SelectInSeq, Ends
<1>2. Ends(b) \subseteq Nat \ {0}
  BY DEF Ends
<1>3. SUFFICES ASSUME Ends(b) # {}
               PROVE  Min(Ends(b)) \in Ends(b) /\ \A j \in Ends(b) : Min(Ends(b)) <= j
  BY <1>1, <1>2
<1>4. 1 \in 1 .. Cardinality(Ends(b))
  <2>1. 0 \in Nat
    OBVIOUS
  <2>2. IsFiniteSet(Ends(b)) /\ Cardinality(Ends(b)) \in Nat
    BY <2>1, CountType
  <2>3. Cardinality(Ends(b)) # 0
    BY <1>3, <2>2, FS_EmptySet
  <2> QED BY <2>2, <2>3
<1>5. PICK e \in Ends(b) : Count(b, e) = 1
  BY <1>4, EndCounted
<1>6. ASSUME NEW j \in Ends(b) PROVE e <= j
  <2>1. CASE j < e
    <3>1. Count(b, j) < 1
      BY <1>5, <2>1, CountIncreases
    <3>2. j \in Nat
      BY <1>2
    <3>3. Count(b, j) \in 0 .. Cardinality(Ends(b)) /\ Count(b, j) > 0
      BY <3>2, CountType
    <3>4. Cardinality(Ends(b)) \in Nat
      BY CountAll
    <3> QED BY <3>1, <3>3, <3>4
  <2> QED BY <1>2, <2>1
<1> QED BY <1>6 DEF Min

----
(***************************************************************************)
(* The inductive invariant.  While the writer is there, what is buffered   *)
(* and on its way are whole messages; sockets are moved before anything    *)
(* was read into them, and the handler is called with a message.           *)
(***************************************************************************)
Tokens == {Null} \cup UNION {ToSet(text) : text \in Texts}

Bytes == buffer \o wire

Complete(b) == b = <<>> \/ Len(b) \in Ends(b)

SocketInv ==
  /\ buffer \in Seq(Tokens) /\ wire \in Seq(Tokens)
  /\ reader = "accepting" => buffer = <<>>
  /\ reader = "handling" => FirstSize(buffer) # 0
  /\ ~closed => Complete(Bytes)

LEMMA TextType ==
  ASSUME NEW text \in Texts
  PROVE  text \in Seq(Tokens) /\ ~Contains(text, Null) /\ Null \in Tokens
<1>1. text \in Seq(ToSet(text)) /\ ~Contains(text, Null)
  BY SocketAssumption
<1>2. ToSet(text) \subseteq Tokens /\ Null \in Tokens
  BY DEF Tokens
<1> QED BY <1>1, <1>2, SeqMonotonic

LEMMA BytesAre ==
  ASSUME NEW S, NEW b \in Seq(S), NEW w \in Seq(S)
  PROVE  /\ b \o w \in Seq(S) /\ Len(b \o w) = Len(b) + Len(w)
         /\ \A i \in 1 .. Len(b) : (b \o w)[i] = b[i]
         /\ \A i \in 1 .. Len(w) : (b \o w)[i + Len(b)] = w[i]
<1>1. /\ b \o w \in Seq(S) /\ Len(b \o w) = Len(b) + Len(w)
      /\ \A i \in 1 .. Len(b) + Len(w) :
           (b \o w)[i] = IF i <= Len(b) THEN b[i] ELSE w[i - Len(b)]
  BY ConcatProperties
<1>2. Len(b) \in Nat /\ Len(w) \in Nat
  OBVIOUS
<1>3. ASSUME NEW i \in 1 .. Len(w) PROVE (b \o w)[i + Len(b)] = w[i]
  <2>1. i + Len(b) \in 1 .. Len(b) + Len(w) /\ ~ i + Len(b) <= Len(b) /\ i + Len(b) - Len(b) = i
    BY <1>2
  <2> QED BY <1>1, <2>1
<1> QED BY <1>1, <1>2, <1>3

\* Bytes read and bytes on their way are the bytes there were.
LEMMA ReadBytes ==
  ASSUME NEW S, NEW b \in Seq(S), NEW w \in Seq(S), NEW n \in 0 .. Len(w)
  PROVE  /\ b \o SubSeq(w, 1, n) \in Seq(S) /\ SubSeq(w, n + 1, Len(w)) \in Seq(S)
         /\ (b \o SubSeq(w, 1, n)) \o SubSeq(w, n + 1, Len(w)) = b \o w
<1>1. Len(w) \in Nat /\ n \in Nat
  OBVIOUS
<1> DEFINE l == SubSeq(w, 1, n)
           r == SubSeq(w, n + 1, Len(w))
<1>2. l \in Seq(S) /\ Len(l) = n /\ \A i \in 1 .. n : l[i] = w[i]
  BY <1>1
<1>3. r \in Seq(S) /\ Len(r) = Len(w) - n /\ \A i \in 1 .. Len(w) - n : r[i] = w[i + n]
  BY <1>1
<1> HIDE DEF l, r
<1>4. /\ l \o r \in Seq(S) /\ Len(l \o r) = Len(l) + Len(r)
      /\ \A i \in 1 .. Len(l) : (l \o r)[i] = l[i]
      /\ \A i \in 1 .. Len(r) : (l \o r)[i + Len(l)] = r[i]
  BY <1>2, <1>3, BytesAre
<1>5. ASSUME NEW i \in 1 .. Len(w) PROVE (l \o r)[i] = w[i]
  <2>1. CASE i <= n
    BY <1>1, <1>2, <1>4, <2>1
  <2>2. CASE i > n
    <3>1. PICK j \in 1 .. Len(w) - n : i = j + n
      <4>1. i - n \in 1 .. Len(w) - n /\ i = i - n + n
        BY <1>1, <2>2
      <4> QED BY <4>1
    <3>2. (l \o r)[j + n] = r[j] /\ r[j] = w[j + n]
      BY <1>2, <1>3, <1>4
    <3> QED BY <3>1, <3>2
  <2>3. i <= n \/ i > n
    BY <1>1
  <2> QED BY <2>1, <2>2, <2>3
<1>6. l \o r = w
  <2>1. Len(l \o r) = Len(w)
    BY <1>1, <1>2, <1>3, <1>4
  <2> QED BY <1>4, <1>5, <2>1, SeqEqual
<1>7. b \o l \in Seq(S) /\ (b \o l) \o r = b \o (l \o r)
  BY <1>2, <1>3, BytesAre, ConcatAssociative
<1> QED BY <1>2, <1>3, <1>6, <1>7 DEF l, r

\* Extracting a message takes the first of those that are whole.
LEMMA SocketExtract ==
  ASSUME SocketInv, FirstSize(buffer) # 0, ExtractNextStringFromBuffer, wire' = wire
  PROVE  /\ buffer' \in Seq(Tokens)
         /\ Whole(Bytes) # <<>> /\ Whole(Bytes') = Tail(Whole(Bytes))
         /\ delivered' = Append(delivered, Head(Whole(Bytes)))
         /\ Complete(Bytes) => Complete(Bytes')
<1> DEFINE n == FirstSize(buffer)
<1>1. buffer \in Seq(Tokens) /\ wire \in Seq(Tokens)
  BY DEF SocketInv
<1>2. n \in Ends(buffer) /\ \A j \in Ends(buffer) : n <= j
  BY <1>1, FirstIsAnEnd
<1>3. /\ delivered' = Append(delivered, SubSeq(buffer, 1, n - 1))
      /\ buffer' = SubSeq(buffer, n + 1, Len(buffer))
  BY DEF ExtractNextStringFromBuffer
<1> HIDE DEF n
<1>4. n \in 1 .. Len(buffer) /\ Len(buffer) \in Nat /\ Len(wire) \in Nat
  BY <1>1, <1>2 DEF Ends
<1>5. /\ buffer' \in Seq(Tokens) /\ Len(buffer') = Len(buffer) - n
      /\ \A i \in 1 .. Len(buffer') : buffer'[i] = buffer[i + n]
  BY <1>1, <1>3, <1>4
<1>6. /\ Bytes \in Seq(Tokens) /\ Len(Bytes) = Len(buffer) + Len(wire)
      /\ \A i \in 1 .. Len(buffer) : Bytes[i] = buffer[i]
      /\ \A i \in 1 .. Len(wire) : Bytes[i + Len(buffer)] = wire[i]
  BY <1>1, BytesAre DEF Bytes
<1>7. /\ Bytes' \in Seq(Tokens) /\ Len(Bytes') = Len(buffer') + Len(wire)
      /\ \A i \in 1 .. Len(buffer') : (Bytes')[i] = buffer'[i]
      /\ \A i \in 1 .. Len(wire) : (Bytes')[i + Len(buffer')] = wire[i]
  <2>1. Bytes' = buffer' \o wire
    BY DEF Bytes
  <2>2. /\ buffer' \o wire \in Seq(Tokens) /\ Len(buffer' \o wire) = Len(buffer') + Len(wire)
        /\ \A i \in 1 .. Len(buffer') : (buffer' \o wire)[i] = buffer'[i]
        /\ \A i \in 1 .. Len(wire) : (buffer' \o wire)[i + Len(buffer')] = wire[i]
    <3>1. buffer' \in Seq(Tokens)
      BY <1>5
    <3> QED BY <1>1, <3>1, BytesAre
  <2> QED BY <2>1, <2>2
<1>8. Len(Bytes) = Len(Bytes') + n
  BY <1>4, <1>5, <1>6, <1>7
<1>9. ASSUME NEW i \in 1 .. Len(Bytes') PROVE (Bytes')[i] = Bytes[i + n]
  <2>1. CASE i <= Len(buffer')
    <3>1. i \in 1 .. Len(buffer') /\ i + n \in 1 .. Len(buffer)
      BY <1>4, <1>5, <2>1
    <3> QED BY <1>5, <1>6, <1>7, <3>1
  <2>2. CASE i > Len(buffer')
    <3>1. PICK j \in 1 .. Len(wire) : i = j + Len(buffer') /\ i + n = j + Len(buffer)
      <4>1. /\ i - Len(buffer') \in 1 .. Len(wire) /\ i = i - Len(buffer') + Len(buffer')
            /\ i + n = i - Len(buffer') + Len(buffer)
        BY <1>4, <1>5, <1>7, <2>2
      <4> QED BY <4>1
    <3> QED BY <1>6, <1>7, <3>1
  <2> QED BY <1>4, <1>5, <2>1, <2>2
<1>10. n \in Ends(Bytes) /\ \A j \in Ends(Bytes) : n <= j
  <2>1. n \in Ends(Bytes)
    BY <1>2, <1>4, <1>6 DEF Ends
  <2>2. ASSUME NEW j \in Ends(Bytes) PROVE n <= j
    <3>1. CASE j <= Len(buffer)
      <4>1. j \in Ends(buffer)
        BY <1>4, <1>6, <2>2, <3>1 DEF Ends
      <4> QED BY <1>2, <4>1
    <3>2. CASE j > Len(buffer)
      BY <1>4, <3>2 DEF Ends
    <3> QED BY <1>4, <3>1, <3>2 DEF Ends
  <2> QED BY <2>1, <2>2
<1>11. /\ Whole(Bytes) # <<>> /\ Head(Whole(Bytes)) = Between(Bytes, 0, n)
       /\ Tail(Whole(Bytes)) = Whole(Bytes')
       /\ Len(Bytes) \in Ends(Bytes) => Bytes' = <<>> \/ Len(Bytes') \in Ends(Bytes')
  BY <1>6, <1>7, <1>8, <1>9, <1>10, WholeRead
<1>12. SubSeq(buffer, 1, n - 1) = Between(Bytes, 0, n)
  <2>1. /\ 0 \in Nat /\ n \in 1 .. Len(buffer) + 1 /\ n <= Len(Bytes) + 1
        /\ \A l \in 1 .. Len(buffer) : buffer[l] = Bytes[l]
    BY <1>4, <1>6
  <2>2. Between(buffer, 0, n) = Between(Bytes, 0, n)
    BY <1>1, <1>6, <2>1, SameBeginning
  <2>3. 0 + 1 = 1
    OBVIOUS
  <2> QED BY <2>2, <2>3 DEF Between
<1>13. Bytes # <<>>
  BY <1>4, <1>6
<1> QED BY <1>3, <1>5, <1>11, <1>12, <1>13 DEF Complete

----
(***************************************************************************)
(* The steps.                                                              *)
(***************************************************************************)
LEMMA SocketInit == Init => SocketInv /\ Connection!Init
<1> SUFFICES ASSUME Init PROVE SocketInv /\ Connection!Init
  OBVIOUS
<1>1. /\ wire = <<>> /\ buffer = <<>> /\ ~closed /\ delivered = <<>>
      /\ reader \in {"idle", "accepting"}
  BY DEF Init
<1>2. Bytes = <<>> /\ <<>> \in Seq(Tokens)
  BY <1>1 DEF Bytes
<1>3. Whole(Bytes) = <<>>
  <2>1. Ends(Bytes) = {} /\ Cardinality(Ends(Bytes)) = 0
    BY <1>2, FS_EmptySet DEF Ends
  <2>2. Len(Whole(Bytes)) = 0 /\ Whole(Bytes) \in Seq(Seq(Tokens))
    BY <1>2, <2>1, WholeAt
  <2> QED BY <2>2
<1> QED BY <1>1, <1>2, <1>3 DEF SocketInv, Complete, Connection!Init, Bytes, Init

LEMMA TextWritten ==
  ASSUME NEW S, NEW b \in Seq(S), NEW w \in Seq(S), Complete(b \o w), Null \in S,
         NEW text \in Seq(S), ~Contains(text, Null)
  PROVE  LET v == w \o Append(text, Null)
         IN  /\ v \in Seq(S) /\ Complete(b \o v)
             /\ Whole(b \o v) # <<>> /\ Front(Whole(b \o v)) = Whole(b \o w)
             /\ Last(Whole(b \o v)) = text
<1> DEFINE t == Append(text, Null)
           p == b \o w
           c == p \o t
<1>1. /\ t \in Seq(S) /\ Len(t) = Len(text) + 1 /\ t[Len(text) + 1] = Null
      /\ \A i \in 1 .. Len(text) : t[i] = text[i]
      /\ Len(text) \in Nat
  OBVIOUS
<1> HIDE DEF t
<1>2. p \in Seq(S) /\ w \o t \in Seq(S) /\ c = b \o (w \o t)
  BY <1>1, BytesAre, ConcatAssociative
<1>3. p \in Seq(S) /\ Len(p) \in Nat /\ (p = <<>> \/ Len(p) \in Ends(p))
  BY <1>2 DEF Complete
<1> HIDE DEF p
<1>4. /\ c \in Seq(S) /\ Len(c) = Len(p) + Len(t)
      /\ \A i \in 1 .. Len(p) : c[i] = p[i]
      /\ \A i \in 1 .. Len(t) : c[i + Len(p)] = t[i]
  <2>1. t \in Seq(S)
    BY <1>1
  <2> QED BY <1>3, <2>1, BytesAre
<1> HIDE DEF c
<1>5. IsWritten(c, p, text)
  <2>1. Len(c) = Len(p) + Len(text) + 1
    BY <1>1, <1>3, <1>4
  <2>2. PICK l \in 1 .. Len(t) : l = Len(text) + 1 /\ Len(c) = l + Len(p)
    BY <1>1, <1>3, <1>4
  <2>3. c[l + Len(p)] = t[l]
    BY <1>4
  <2>4. ASSUME NEW i \in 1 .. Len(text) PROVE text[i] = c[i + Len(p)]
    <3>1. i \in 1 .. Len(t)
      BY <1>1
    <3> QED BY <1>1, <1>4, <3>1
  <2> QED BY <1>1, <1>4, <2>1, <2>2, <2>3, <2>4 DEF IsWritten
<1>6. /\ Len(c) \in Ends(c)
      /\ Whole(c) # <<>> /\ Front(Whole(c)) = Whole(p) /\ Last(Whole(c)) = text
  <2>1. c \in Seq(S)
    BY <1>4
  <2> QED BY <1>3, <1>5, <2>1, WholeWritten
<1> QED BY <1>2, <1>6 DEF t, p, Complete

LEMMA SocketWrite ==
  ASSUME SocketInv, NEW text \in Texts, WriteString(text)
  PROVE  SocketInv' /\ Connection!Post
<1> DEFINE v == wire \o Append(text, Null)
<1>1. /\ ~closed /\ wire' = v
      /\ UNCHANGED <<closed, buffer, reader, size, delivered>>
  BY DEF WriteString
<1>2. buffer \in Seq(Tokens) /\ wire \in Seq(Tokens) /\ Complete(buffer \o wire)
  BY <1>1 DEF SocketInv, Bytes
<1>3. /\ v \in Seq(Tokens) /\ Complete(buffer \o v)
      /\ Whole(buffer \o v) # <<>> /\ Front(Whole(buffer \o v)) = Whole(buffer \o wire)
      /\ Last(Whole(buffer \o v)) = text
  BY <1>2, TextType, TextWritten
<1> HIDE DEF v
<1>4. Connection!Post
  BY <1>1, <1>3 DEF Connection!Post, Front, Last, Connection!Front, Connection!Last
<1>5. SocketInv'
  BY <1>1, <1>2, <1>3 DEF SocketInv, Bytes
<1> QED BY <1>4, <1>5

\* What a part of the bytes on their way leaves of the messages.
LEMMA BytesLost ==
  ASSUME NEW S, NEW b \in Seq(S), NEW w \in Seq(S), NEW n \in 0 .. Len(w)
  PROVE  LET v == SubSeq(w, 1, n)
         IN  /\ v \in Seq(S)
             /\ \E m \in 0 .. Len(Whole(b \o w)) :
                  Whole(b \o v) = SubSeq(Whole(b \o w), 1, m)
<1> DEFINE v == SubSeq(w, 1, n)
<1>1. v \in Seq(S) /\ Len(v) = n /\ \A i \in 1 .. n : v[i] = w[i]
  OBVIOUS
<1>2. Len(b) \in Nat /\ Len(w) \in Nat
  OBVIOUS
<1> HIDE DEF v
<1> DEFINE p == b \o v
           c == b \o w
<1>3. /\ p \in Seq(S) /\ Len(p) = Len(b) + n
      /\ \A i \in 1 .. Len(b) : p[i] = b[i]
      /\ \A i \in 1 .. n : p[i + Len(b)] = v[i]
  <2>1. v \in Seq(S)
    BY <1>1
  <2>2. /\ p \in Seq(S) /\ Len(p) = Len(b) + Len(v)
        /\ \A i \in 1 .. Len(b) : p[i] = b[i]
        /\ \A i \in 1 .. Len(v) : p[i + Len(b)] = v[i]
    BY <2>1, BytesAre
  <2> QED BY <1>1, <2>2
<1>4. /\ c \in Seq(S) /\ Len(c) = Len(b) + Len(w)
      /\ \A i \in 1 .. Len(b) : c[i] = b[i]
      /\ \A i \in 1 .. Len(w) : c[i + Len(b)] = w[i]
  BY BytesAre
<1> HIDE DEF p, c
<1>5. Len(p) <= Len(c)
  BY <1>2, <1>3, <1>4
<1>6. ASSUME NEW i \in 1 .. Len(p) PROVE p[i] = c[i]
  <2>1. CASE i <= Len(b)
    BY <1>2, <1>3, <1>4, <2>1
  <2>2. CASE i > Len(b)
    <3>1. PICK j \in 1 .. n : i = j + Len(b)
      <4>1. i - Len(b) \in 1 .. n /\ i = i - Len(b) + Len(b)
        BY <1>2, <1>3, <2>2
      <4> QED BY <4>1
    <3>2. j \in 1 .. Len(w)
      BY <1>2
    <3> QED BY <1>1, <1>3, <1>4, <3>1, <3>2
  <2>3. i <= Len(b) \/ i > Len(b)
    BY <1>2, <1>3
  <2> QED BY <2>1, <2>2, <2>3
<1>7. /\ Cardinality(Ends(p)) \in 0 .. Len(Whole(c))
      /\ Whole(p) = SubSeq(Whole(c), 1, Cardinality(Ends(p)))
  BY <1>3, <1>4, <1>5, <1>6, WholePart
<1> QED BY <1>1, <1>7 DEF p, c, v

LEMMA SocketClose ==
  ASSUME SocketInv, Close
  PROVE  SocketInv' /\ Connection!Close
<1>1. /\ ~closed /\ closed' = TRUE
      /\ UNCHANGED <<writes, buffer, reader, size, delivered>>
  BY DEF Close
<1>2. PICK n \in 0 .. Len(wire) : wire' = SubSeq(wire, 1, n)
  BY DEF Close
<1>3. buffer \in Seq(Tokens) /\ wire \in Seq(Tokens)
  BY DEF SocketInv
<1>4. /\ wire' \in Seq(Tokens)
      /\ \E m \in 0 .. Len(Whole(buffer \o wire)) :
           Whole(buffer \o wire') = SubSeq(Whole(buffer \o wire), 1, m)
  BY <1>2, <1>3, BytesLost
<1>5. Connection!Close
  BY <1>1, <1>4 DEF Connection!Close
<1>6. SocketInv'
  BY <1>1, <1>3, <1>4 DEF SocketInv
<1> QED BY <1>5, <1>6

\* Reading moves bytes from the wire to the buffer.
LEMMA SocketReadSome ==
  ASSUME SocketInv, ReadSome
  PROVE  SocketInv' /\ UNCHANGED Connection!vars
<1>1. /\ reader \in {"reading", "awaiting"}
      /\ UNCHANGED <<closed, writes, reader, size, delivered>>
  BY DEF ReadSome
<1>2. buffer \in Seq(Tokens) /\ wire \in Seq(Tokens)
  BY DEF SocketInv
<1>3. \E n \in 1 .. Len(wire) : /\ buffer' = buffer \o SubSeq(wire, 1, n)
                               /\ wire' = SubSeq(wire, n + 1, Len(wire))
  BY DEF ReadSome
<1>4. buffer' \in Seq(Tokens) /\ wire' \in Seq(Tokens) /\ buffer' \o wire' = buffer \o wire
  <2>1. ASSUME NEW n \in 0 .. Len(wire)
        PROVE  LET c == buffer \o SubSeq(wire, 1, n)
                   v == SubSeq(wire, n + 1, Len(wire))
               IN  c \in Seq(Tokens) /\ v \in Seq(Tokens) /\ c \o v = buffer \o wire
    BY <1>2, ReadBytes
  <2>2. \A n \in 1 .. Len(wire) : n \in 0 .. Len(wire)
    BY <1>2
  <2> QED BY <1>3, <2>1, <2>2, Zenon
<1>5. SocketInv'
  BY <1>1, <1>4 DEF SocketInv, Bytes
<1>6. UNCHANGED Connection!vars
  BY <1>1, <1>4 DEF Connection!vars
<1> QED BY <1>5, <1>6

\* A message is extracted by a read, or by the handler that it was awaited for.
LEMMA SocketDeliver ==
  ASSUME SocketInv, FirstSize(buffer) # 0, reader \in {"reading", "handling"},
         ExtractNextStringFromBuffer, reader' = "idle", UNCHANGED <<wire, closed>>
  PROVE  SocketInv' /\ Connection!Deliver
<1>1. /\ buffer' \in Seq(Tokens)
      /\ Whole(Bytes) # <<>> /\ Whole(Bytes') = Tail(Whole(Bytes))
      /\ delivered' = Append(delivered, Head(Whole(Bytes)))
      /\ Complete(Bytes) => Complete(Bytes')
  BY SocketExtract
<1>2. Connection!Deliver
  BY <1>1 DEF Connection!Deliver, Bytes
<1>3. SocketInv'
  BY <1>1 DEF SocketInv
<1> QED BY <1>2, <1>3

LEMMA SocketRead ==
  ASSUME SocketInv, ReaderStep
  PROVE  SocketInv' /\ [Connection!Next]_Connection!vars
<1>1. CASE AsyncReadString
  BY <1>1 DEF AsyncReadString, SocketInv, Bytes, Connection!vars
<1>2. CASE ReadString
  BY <1>2 DEF ReadString, SocketInv, Bytes, Connection!vars
<1>3. CASE ReadSome
  BY <1>3, SocketReadSome
<1>4. CASE ReturnString
  BY <1>4, SocketDeliver DEF ReturnString, Connection!Next
<1>5. CASE CallHandler
  BY <1>5 DEF CallHandler, SocketInv, Bytes, Connection!vars
<1>6. CASE HandleReady
  <2>1. /\ FirstSize(buffer) # 0 /\ reader = "handling" /\ reader' = "idle"
        /\ UNCHANGED <<wire, closed>>
    BY <1>6 DEF HandleReady, SocketInv
  <2>2. CASE ExtractNextStringFromBuffer
    BY <2>1, <2>2, SocketDeliver DEF Connection!Next
  <2>3. CASE UNCHANGED <<buffer, delivered>>
    BY <2>1, <2>3 DEF SocketInv, Bytes, Connection!vars
  <2> QED BY <1>6, <2>2, <2>3 DEF HandleReady
<1>7. CASE EndOfStream
  <2>1. /\ reader \in {"reading", "awaiting"} /\ FirstSize(buffer) = 0 /\ wire = <<>> /\ closed
        /\ reader' = IF reader = "reading" THEN "failed" ELSE "idle"
        /\ UNCHANGED <<wire, closed, buffer, delivered>>
    BY <1>7 DEF EndOfStream
  <2>2. SocketInv'
    BY <2>1 DEF SocketInv
  <2>3. CASE reader = "awaiting"
    BY <2>1, <2>2, <2>3 DEF Connection!vars
  <2>4. CASE reader = "reading"
    <3>1. buffer \in Seq(Tokens) /\ wire \in Seq(Tokens)
      BY DEF SocketInv
    <3>2. Ends(buffer) = {} /\ buffer \o wire = buffer
      BY <2>1, <3>1, FirstIsAnEnd, ConcatEmptySeq
    <3>3. Cardinality(Ends(buffer)) = 0
      BY <3>2, FS_EmptySet
    <3>4. Whole(buffer) \in Seq(Seq(Tokens)) /\ Len(Whole(buffer)) = 0
      BY <3>1, <3>3, WholeAt
    <3>5. Whole(buffer \o wire) = <<>>
      BY <3>2, <3>4
    <3>6. Connection!Fail
      BY <2>1, <2>4, <3>5 DEF Connection!Fail
    <3> QED BY <2>2, <3>6 DEF Connection!Next
  <2> QED BY <2>1, <2>3, <2>4
<1> QED BY <1>1, <1>2, <1>3, <1>4, <1>5, <1>6, <1>7 DEF ReaderStep

LEMMA SocketNext ==
  ASSUME SocketInv, [Next]_vars
  PROVE  SocketInv' /\ [Connection!Next]_Connection!vars
<1>1. CASE \E text \in Texts : WriteString(text)
  BY <1>1, SocketWrite DEF Connection!Next
<1>2. CASE Close
  BY <1>2, SocketClose DEF Connection!Next
<1>3. CASE Relocate
  BY <1>3 DEF Relocate, SocketInv, Bytes, Connection!vars
<1>4. CASE ReaderStep
  BY <1>4, SocketRead
<1>5. CASE Done \/ UNCHANGED vars
  BY <1>5 DEF Done, vars, SocketInv, Bytes, Connection!vars
<1> QED BY <1>1, <1>2, <1>3, <1>4, <1>5 DEF Next

\* However the bytes arrive, and also for the message that the handler of
\* server.h leaves: the texts that are read are those written, whole, in order
\* and once, up to the last ones that a writer which leaves may take with it, and
\* a read fails only then and with nothing left.
THEOREM SocketIsMailbox == Spec => ImplementsMailbox
<1>1. Init => SocketInv /\ Connection!Init
  BY SocketInit
<1>2. SocketInv /\ [Next]_vars => SocketInv' /\ [Connection!Next]_Connection!vars
  BY SocketNext
<1> QED BY <1>1, <1>2, PTL DEF Spec, ImplementsMailbox, Connection!Spec

----
(***************************************************************************)
(* The texts of moves.  What is defined by its value for the number before *)
(* has a value for every number, by induction: the turns of DecodeMove,    *)
(* and what EncodeMove has written after each modifier.                    *)
(***************************************************************************)
\* A set with 0 and with the successor of each of its numbers has them all.
LEMMA NatInduct ==
  ASSUME NEW T, 0 \in T, \A n \in Nat : n \in T => n + 1 \in T
  PROVE  \A n \in Nat : n \in T
<1> DEFINE U == {n \in Nat : n \notin T}
           R == OpToRel(<, Nat)
<1>1. IsWellFoundedOn(R, Nat)
  BY NatLessThanWellFounded
<1>2. \A m, n \in Nat : m < n => <<m, n>> \in R
  BY Zenon DEF OpToRel
<1> HIDE DEF R
<1>3. SUFFICES ASSUME U # {} PROVE FALSE
  OBVIOUS
<1>4. PICK n \in U : \A m \in U : ~ (<<m, n>> \in R)
  BY <1>1, <1>3, WFMin
<1>5. n \in Nat /\ n # 0 /\ n - 1 \in Nat /\ n - 1 < n
  OBVIOUS
<1>6. n - 1 \notin U
  BY <1>2, <1>4, <1>5
<1> QED BY <1>5, <1>6

\* The loop of DecodeMove, turn by turn.
LEMMA TurnByTurn ==
  ASSUME NEW text, Len(text) \in Nat
  PROVE  /\ Turns(text)[0] = Beginning(text)
         /\ \A n \in 1 .. Len(text) : Turns(text)[n] = GoneOn(text, Turns(text)[n - 1])
<1> DEFINE L == Len(text)
           Body(f, k) == [n \in 0 .. k |-> IF n = 0 THEN Beginning(text) ELSE GoneOn(text, f[n - 1])]
           T == {k \in Nat : \E f : f = Body(f, k)}
<1>1. 0 \in T
  <2> DEFINE f == [n \in 0 .. 0 |-> Beginning(text)]
  <2>1. f = Body(f, 0)
    OBVIOUS
  <2> QED BY <2>1
<1>2. ASSUME NEW k \in Nat, k \in T
      PROVE  k + 1 \in T
  <2>1. PICK f : f = Body(f, k)
    BY <1>2
  <2> DEFINE g == [n \in 0 .. k + 1 |-> IF n = k + 1 THEN GoneOn(text, f[k]) ELSE f[n]]
  <2>2. \A n \in 0 .. k : f[n] = IF n = 0 THEN Beginning(text) ELSE GoneOn(text, f[n - 1])
    BY <2>1
  <2>3. \A n \in 0 .. k + 1 :
          g[n] = IF n = 0 THEN Beginning(text) ELSE GoneOn(text, g[n - 1])
    <3> TAKE n \in 0 .. k + 1
    <3>1. CASE n = k + 1
      BY <3>1
    <3>2. CASE n = 0
      BY <2>2, <3>2
    <3>3. CASE n # 0 /\ n # k + 1
      <4>1. n \in 0 .. k /\ n - 1 \in 0 .. k
        BY <3>3
      <4>2. g[n] = f[n] /\ g[n - 1] = f[n - 1]
        BY <4>1
      <4> HIDE DEF g
      <4> QED BY <2>2, <3>3, <4>1, <4>2
    <3> QED BY <3>1, <3>2, <3>3
  <2>4. g = Body(g, k + 1)
    <3>1. g = [n \in 0 .. k + 1 |-> g[n]]
      OBVIOUS
    <3> HIDE DEF g
    <3> QED BY <2>3, <3>1
  <2> HIDE DEF g, Body
  <2> QED BY <2>4
<1>3. \E f : f = Body(f, L)
  <2> HIDE DEF T, Body
  <2>1. L \in T
    BY <1>1, <1>2, NatInduct
  <2> QED BY <2>1 DEF T
<1>4. Turns(text) = CHOOSE f : f = Body(f, L)
  BY DEF Turns
<1> DEFINE t == Turns(text)
<1>5. t = Body(t, L)
  <2> HIDE DEF Body
  <2> QED BY <1>3, <1>4
<1> HIDE DEF t
<1>6. /\ t[0] = Beginning(text)
      /\ \A n \in 1 .. L : t[n] = GoneOn(text, t[n - 1])
  BY <1>5
<1> QED BY <1>6 DEF t

\* A set of numbers has a least.
LEMMA LeastOf ==
  ASSUME NEW left, left \subseteq Nat, left # {}
  PROVE  Min(left) \in left /\ \A i \in left : Min(left) <= i
<1> DEFINE T == {n \in Nat : \A i \in left : i > n}
<1>1. SUFFICES \E n \in left : \A i \in left : n <= i
  BY DEF Min
<1>2. SUFFICES ASSUME \A n \in left : \E i \in left : ~ (n <= i)
               PROVE  FALSE
  OBVIOUS
<1>3. \A n \in left : \E i \in left : i < n
  BY <1>2
<1>4. 0 \in T
  BY <1>3
<1>5. \A n \in Nat : n \in T => n + 1 \in T
  BY <1>3
<1>6. \A n \in Nat : n \in T
  <2> HIDE DEF T
  <2> QED BY <1>4, <1>5, NatInduct
<1>7. PICK n \in left : TRUE
  OBVIOUS
<1> QED BY <1>6, <1>7

\* What is read next is the first token that is no blank.
LEMMA Skipped ==
  ASSUME NEW text, Len(text) \in Nat, NEW stream, stream.at \in Nat
  PROVE  LET to == SkipBlanks(text, stream)
         IN  \/ /\ \A i \in stream.at .. Len(text) : text[i] = Blank
                /\ to.at = Len(text) + 1 /\ ~ to.good
             \/ \E j \in stream.at .. Len(text) :
                  /\ text[j] # Blank /\ \A i \in stream.at .. j - 1 : text[i] = Blank
                  /\ to = Stream(j, stream.good)
                  /\ to.at = j /\ (to.good <=> stream.good)
<1> DEFINE at == stream.at
           left == {i \in at .. Len(text) : text[i] # Blank}
           to == SkipBlanks(text, stream)
<1>1. to = IF left = {} THEN Stream(Len(text) + 1, FALSE) ELSE Stream(Min(left), stream.good)
  BY DEF SkipBlanks
<1>2. CASE left = {}
  <2>1. to = Stream(Len(text) + 1, FALSE)
    BY <1>1, <1>2
  <2>2. to.at = Len(text) + 1 /\ ~ to.good
    BY <2>1 DEF Stream
  <2> QED BY <1>2, <2>2
<1>3. CASE left # {}
  <2> DEFINE j == Min(left)
  <2>1. j \in left /\ \A i \in left : j <= i
    <3>1. left \subseteq Nat
      OBVIOUS
    <3> HIDE DEF left
    <3> QED BY <1>3, <3>1, LeastOf
  <2>2. to = Stream(j, stream.good)
    BY <1>1, <1>3
  <2>3. j \in at .. Len(text) /\ text[j] # Blank
    BY <2>1
  <2> HIDE DEF j, to
  <2>4. \A i \in at .. j - 1 : text[i] = Blank
    BY <2>1, <2>3
  <2>5. to.at = j /\ (to.good <=> stream.good)
    BY <2>2 DEF Stream
  <2> QED BY <2>2, <2>3, <2>4, <2>5 DEF to
<1> QED BY <1>2, <1>3

LEMMA SkippedTo ==
  ASSUME NEW text, Len(text) \in Nat, NEW at \in Nat, NEW good, NEW j \in at .. Len(text),
         text[j] # Blank, \A i \in at .. j - 1 : text[i] = Blank
  PROVE  SkipBlanks(text, Stream(at, good)) = Stream(j, good)
<1> DEFINE from == Stream(at, good)
<1>1. from.at = at /\ from.good = good
  BY DEF Stream
<1> HIDE DEF from
<1>2. ~ \A i \in from.at .. Len(text) : text[i] = Blank
  BY <1>1
<1>3. PICK k \in from.at .. Len(text) :
        /\ text[k] # Blank /\ \A i \in from.at .. k - 1 : text[i] = Blank
        /\ SkipBlanks(text, from) = Stream(k, from.good)
  BY <1>1, <1>2, Skipped
<1>4. ~ k < j /\ ~ j < k
  BY <1>1, <1>3
<1>5. k = j
  BY <1>1, <1>3, <1>4
<1> QED BY <1>1, <1>3, <1>5 DEF from

\* The token at a place is read.
LEMMA NumberRead ==
  ASSUME NEW text, Len(text) \in Nat, NEW at \in Nat, NEW j \in at .. Len(text),
         \A i \in at .. j - 1 : text[i] = Blank,
         NEW v \in 0 .. MaxUInt, text[j] = Number(v)
  PROVE  Extracted(text, Stream(at, TRUE)) =
           [values |-> {v}, stream |-> Stream(j + 1, j < Len(text))]
<1> DEFINE to == SkipBlanks(text, Stream(at, TRUE))
<1>1. text[j] # Blank /\ text[j].is = "number" /\ text[j].value = v
  BY DEF Blank, Number
<1>2. to = Stream(j, TRUE)
  BY <1>1, SkippedTo
<1>3. v <= MaxUInt
  BY NumberAssumption
<1>4. to.good /\ to.at = j
  BY <1>2 DEF Stream
<1> DEFINE token == text[j]
<1>5. Extracted(text, Stream(at, TRUE)) =
        CASE ~to.good -> [values |-> Memory, stream |-> to]
          [] to.good /\ token.is = "number" /\ token.value <= MaxUInt ->
               [values |-> {token.value}, stream |-> Stream(to.at + 1, to.at < Len(text))]
          [] to.good /\ token.is = "number" /\ token.value > MaxUInt ->
               [values |-> {MaxUInt}, stream |-> Stream(to.at + 1, FALSE)]
          [] to.good /\ token.is = "other" ->
               [values |-> {0}, stream |-> Stream(to.at, FALSE)]
  BY <1>4 DEF Extracted
<1> HIDE DEF to, token
<1>6. token.is = "number" /\ token.value = v
  BY <1>1 DEF token
<1>7. ~ token.value > MaxUInt
  BY <1>3, <1>6, NumberAssumption
<1> QED BY <1>3, <1>4, <1>5, <1>6, <1>7

----
(***************************************************************************)
(* Modifier by modifier, what is written is read.                          *)
(***************************************************************************)
Modifiers == [vertex : 0 .. MaxUInt, modifier_index : 0 .. MaxUInt]

\* Every modifier takes four tokens, the last one three.
IsModifierAt(t, i, a, n) ==
  /\ t[4 * i - 3] = Number(a.vertex) /\ t[4 * i - 2] = Blank
  /\ t[4 * i - 1] = Number(a.modifier_index) /\ (i < n => t[4 * i] = Blank)

\* The sequences one after the other.
LEMMA FlattenBySteps ==
  ASSUME NEW ss, Len(ss) \in Nat \ {0}
  PROVE  \E flat : /\ FlattenSeq(ss) = flat[Len(ss)] /\ flat[1] = ss[1]
                   /\ \A i \in 2 .. Len(ss) : flat[i] = flat[i - 1] \o ss[i]
<1> DEFINE L == Len(ss)
           Body(f, k) == [i \in 1 .. k |-> IF i = 1 THEN ss[i] ELSE f[i - 1] \o ss[i]]
           T == {k \in Nat : \E f : f = Body(f, k)}
<1>1. 0 \in T
  <2> DEFINE f == [i \in 1 .. 0 |-> ss[1]]
  <2>1. f = Body(f, 0)
    OBVIOUS
  <2> QED BY <2>1
<1>2. ASSUME NEW k \in Nat, k \in T
      PROVE  k + 1 \in T
  <2>1. PICK f : f = Body(f, k)
    BY <1>2
  <2> DEFINE new == IF k = 0 THEN ss[1] ELSE f[k] \o ss[k + 1]
             g == [i \in 1 .. k + 1 |-> IF i = k + 1 THEN new ELSE f[i]]
  <2>2. \A i \in 1 .. k : f[i] = IF i = 1 THEN ss[i] ELSE f[i - 1] \o ss[i]
    BY <2>1
  <2>3. \A i \in 1 .. k : g[i] = f[i]
    OBVIOUS
  <2>4. g[k + 1] = new
    OBVIOUS
  <2>5. g = [i \in 1 .. k + 1 |-> g[i]]
    OBVIOUS
  <2> HIDE DEF g
  <2>6. \A i \in 1 .. k + 1 : g[i] = IF i = 1 THEN ss[i] ELSE g[i - 1] \o ss[i]
    <3> TAKE i \in 1 .. k + 1
    <3>1. CASE i = k + 1
      <4>1. CASE k = 0
        BY <2>4, <3>1, <4>1
      <4>2. CASE k # 0
        <5>1. k \in 1 .. k /\ i # 1 /\ i - 1 = k
          BY <1>2, <3>1, <4>2
        <5>2. new = f[k] \o ss[i]
          BY <3>1, <4>2
        <5> HIDE DEF new
        <5> QED BY <2>3, <2>4, <3>1, <5>1, <5>2
      <4> QED BY <4>1, <4>2
    <3>2. CASE i # k + 1 /\ i = 1
      <4>1. 1 \in 1 .. k
        BY <3>2
      <4> QED BY <2>2, <2>3, <3>2, <4>1
    <3>3. CASE i # k + 1 /\ i # 1
      <4>1. i \in 1 .. k /\ i - 1 \in 1 .. k
        BY <3>3
      <4>2. g[i] = f[i] /\ g[i - 1] = f[i - 1]
        BY <2>3, <4>1
      <4> QED BY <2>2, <3>3, <4>1, <4>2
    <3> QED BY <3>1, <3>2, <3>3
  <2>7. g = Body(g, k + 1)
    BY <2>5, <2>6
  <2> HIDE DEF Body
  <2> QED BY <2>7
<1>3. \E f : f = Body(f, L)
  <2> HIDE DEF T, Body
  <2>1. L \in T
    BY <1>1, <1>2, NatInduct
  <2> QED BY <2>1 DEF T
<1> DEFINE flat == CHOOSE f : f = Body(f, L)
<1>4. FlattenSeq(ss) = flat[L]
  BY DEF FlattenSeq
<1>5. flat = Body(flat, L)
  <2> HIDE DEF Body
  <2> QED BY <1>3
<1> HIDE DEF flat
<1>6. \A i \in 1 .. L : flat[i] = IF i = 1 THEN ss[i] ELSE flat[i - 1] \o ss[i]
  BY <1>5
<1>7. 1 \in 1 .. L /\ \A i \in 2 .. L : i \in 1 .. L /\ i # 1
  OBVIOUS
<1>8. flat[1] = ss[1] /\ \A i \in 2 .. L : flat[i] = flat[i - 1] \o ss[i]
  <2> HIDE DEF L
  <2> QED BY <1>6, <1>7
<1> QED BY <1>4, <1>8

\* What a modifier is written as.
Part(m, i) ==
  <<Number(m[i].vertex), Blank, Number(m[i].modifier_index)>>
    \o IF i # Len(m) THEN <<Blank>> ELSE <<>>

LEMMA PartIs ==
  ASSUME NEW m \in Seq(Modifiers), NEW i \in 1 .. Len(m)
  PROVE  LET p == Part(m, i)
         IN  /\ p \in Seq(TextTokens) /\ Len(p) = IF i = Len(m) THEN 3 ELSE 4
             /\ p[1] = Number(m[i].vertex) /\ p[2] = Blank
             /\ p[3] = Number(m[i].modifier_index) /\ (i # Len(m) => p[4] = Blank)
<1> DEFINE N == Len(m)
           a == Number(m[i].vertex)
           b == Number(m[i].modifier_index)
<1>1. a \in TextTokens /\ b \in TextTokens /\ Blank \in TextTokens
  <2>1. m[i] \in Modifiers
    OBVIOUS
  <2>2. m[i].vertex \in Nat /\ m[i].modifier_index \in Nat
    BY <2>1, NumberAssumption DEF Modifiers
  <2>3. \A v \in Nat : Number(v) \in [is : {"number"}, value : Nat]
    BY DEF Number
  <2> QED BY <2>2, <2>3 DEF TextTokens
<1>2. Part(m, i) = <<a, Blank, b>> \o IF i # N THEN <<Blank>> ELSE <<>>
  BY DEF Part
<1> HIDE DEF a, b
<1> DEFINE p == Part(m, i)
<1>3. /\ p \in Seq(TextTokens) /\ Len(p) = IF i = N THEN 3 ELSE 4
      /\ p[1] = a /\ p[2] = Blank /\ p[3] = b /\ (i # N => p[4] = Blank)
  <2>1. CASE i = N
    <3>1. <<a, Blank, b>> \in Seq(TextTokens)
      BY <1>1
    <3>2. p = <<a, Blank, b>>
      BY <1>2, <2>1, <3>1, ConcatEmptySeq
    <3> QED BY <2>1, <3>1, <3>2
  <2>2. CASE i # N
    BY <1>1, <1>2, <2>2
  <2> QED BY <2>1, <2>2
<1> QED BY <1>3 DEF a, b

LEMMA Encoded ==
  ASSUME NEW m \in Seq(Modifiers), m # <<>>
  PROVE  /\ EncodeMove(m) \in Seq(TextTokens) /\ Len(EncodeMove(m)) = 4 * Len(m) - 1
         /\ \A i \in 1 .. Len(m) : IsModifierAt(EncodeMove(m), i, m[i], Len(m))
<1> DEFINE N == Len(m)
           parts == [i \in 1 .. N |-> Part(m, i)]
<1>1. N \in Nat \ {0} /\ Len(parts) = N
  OBVIOUS
<1>2. EncodeMove(m) = FlattenSeq(parts)
  BY DEF EncodeMove, Part
<1>3. PICK flat : /\ EncodeMove(m) = flat[N] /\ flat[1] = parts[1]
                  /\ \A i \in 2 .. N : flat[i] = flat[i - 1] \o parts[i]
  <2>1. Len(parts) \in Nat \ {0}
    BY <1>1
  <2> HIDE DEF parts
  <2>2. \E flat : /\ FlattenSeq(parts) = flat[Len(parts)] /\ flat[1] = parts[1]
                  /\ \A i \in 2 .. Len(parts) : flat[i] = flat[i - 1] \o parts[i]
    BY <2>1, FlattenBySteps
  <2> QED BY <1>1, <1>2, <2>2
<1>4. flat[1] = Part(m, 1) /\ \A i \in 2 .. N : flat[i] = flat[i - 1] \o Part(m, i)
  <2>1. \A i \in 1 .. N : parts[i] = Part(m, i)
    OBVIOUS
  <2>2. 1 \in 1 .. N /\ \A i \in 2 .. N : i \in 1 .. N
    BY <1>1
  <2> HIDE DEF parts
  <2> QED BY <1>3, <2>1, <2>2
<1> DEFINE length(k) == IF k = N THEN 4 * k - 1 ELSE 4 * k
           Good(k) == /\ flat[k] \in Seq(TextTokens) /\ Len(flat[k]) = length(k)
                      /\ \A i \in 1 .. k : IsModifierAt(flat[k], i, m[i], N)
           T == {k \in Nat : k + 1 <= N => Good(k + 1)}
<1>5. Good(1)
  <2> DEFINE p == Part(m, 1)
  <2>1. /\ p \in Seq(TextTokens) /\ Len(p) = IF 1 = N THEN 3 ELSE 4
        /\ p[1] = Number(m[1].vertex) /\ p[2] = Blank
        /\ p[3] = Number(m[1].modifier_index) /\ (1 # N => p[4] = Blank)
    BY <1>1, PartIs
  <2> HIDE DEF p
  <2>2. flat[1] = p
    BY <1>4 DEF p
  <2>3. 4 * 1 - 3 = 1 /\ 4 * 1 - 2 = 2 /\ 4 * 1 - 1 = 3 /\ 4 * 1 = 4
    OBVIOUS
  <2>4. IsModifierAt(p, 1, m[1], N)
    BY <1>1, <2>1, <2>3 DEF IsModifierAt
  <2>5. Len(p) = length(1)
    BY <2>1
  <2>6. \A i \in 1 .. 1 : i = 1
    OBVIOUS
  <2> HIDE DEF length
  <2> QED BY <2>1, <2>2, <2>4, <2>5, <2>6
<1>6. ASSUME NEW k \in 1 .. N, k + 1 <= N, Good(k)
      PROVE  Good(k + 1)
  <2> DEFINE p == Part(m, k + 1)
             new == flat[k + 1]
             old == flat[k]
  <2>1. k + 1 \in 1 .. N /\ k + 1 \in 2 .. N /\ k # N /\ k + 1 - 1 = k
    <3> HIDE DEF N
    <3> QED BY <1>1, <1>6
  <2>2. /\ p \in Seq(TextTokens) /\ Len(p) = IF k + 1 = N THEN 3 ELSE 4
        /\ p[1] = Number(m[k + 1].vertex) /\ p[2] = Blank
        /\ p[3] = Number(m[k + 1].modifier_index) /\ (k + 1 # N => p[4] = Blank)
    BY <2>1, PartIs
  <2>3. new = old \o p
    <3>1. PICK i \in 2 .. N : i = k + 1
      BY <2>1
    <3>2. flat[i] = flat[i - 1] \o Part(m, i)
      BY <1>4
    <3>3. i - 1 = k
      BY <2>1, <3>1
    <3>4. Part(m, i) = Part(m, k + 1)
      BY <3>1
    <3>5. flat[i] = flat[k + 1]
      BY <3>1
    <3>6. flat[i - 1] = flat[k]
      BY <3>3
    <3> QED BY <3>2, <3>4, <3>5, <3>6
  <2>4. old \in Seq(TextTokens) /\ Len(old) = 4 * k
    BY <1>6, <2>1
  <2> HIDE DEF p, new, old
  <2>5. /\ new \in Seq(TextTokens) /\ Len(new) = 4 * k + Len(p)
        /\ \A i \in 1 .. 4 * k : new[i] = old[i]
        /\ \A i \in 1 .. Len(p) : new[4 * k + i] = p[i]
    <3>1. p \in Seq(TextTokens)
      BY <2>2
    <3>2. /\ old \o p \in Seq(TextTokens) /\ Len(old \o p) = Len(old) + Len(p)
          /\ \A i \in 1 .. Len(old) + Len(p) :
               (old \o p)[i] = IF i <= Len(old) THEN old[i] ELSE p[i - Len(old)]
      BY <2>4, <3>1, ConcatProperties
    <3>3. \A i \in 1 .. Len(old) : new[i] = old[i]
      BY <2>3, <2>4, <3>1, <3>2
    <3>4. \A i \in 1 .. Len(p) : new[Len(old) + i] = p[i]
      BY <2>3, <2>4, <3>1, <3>2
    <3> QED BY <2>3, <2>4, <3>2, <3>3, <3>4
  <2>6. Len(new) = length(k + 1)
    BY <2>1, <2>2, <2>5
  <2>7. \A i \in 1 .. k + 1 : IsModifierAt(new, i, m[i], N)
    <3> TAKE i \in 1 .. k + 1
    <3>1. CASE i = k + 1
      <4>1. /\ new[4 * k + 1] = p[1] /\ new[4 * k + 2] = p[2] /\ new[4 * k + 3] = p[3]
            /\ k + 1 # N => new[4 * k + 4] = p[4]
        <5>1. 1 \in 1 .. Len(p) /\ 2 \in 1 .. Len(p) /\ 3 \in 1 .. Len(p)
              /\ (k + 1 # N => 4 \in 1 .. Len(p))
          BY <2>2
        <5> QED BY <2>5, <5>1
      <4>2. /\ 4 * i - 3 = 4 * k + 1 /\ 4 * i - 2 = 4 * k + 2 /\ 4 * i - 1 = 4 * k + 3
            /\ 4 * i = 4 * k + 4
        BY <3>1
      <4>3. i < N => k + 1 # N
        BY <3>1
      <4> QED BY <2>2, <3>1, <4>1, <4>2, <4>3 DEF IsModifierAt
    <3>2. CASE i # k + 1
      <4>1. i \in 1 .. k /\ i < N
        BY <2>1, <3>2
      <4>2. IsModifierAt(old, i, m[i], N)
        BY <1>6, <4>1 DEF old
      <4>3. \A j \in {4 * i - 3, 4 * i - 2, 4 * i - 1, 4 * i} : new[j] = old[j]
        <5>1. \A j \in {4 * i - 3, 4 * i - 2, 4 * i - 1, 4 * i} : j \in 1 .. 4 * k
          BY <4>1
        <5> QED BY <2>5, <5>1
      <4> QED BY <4>2, <4>3 DEF IsModifierAt
    <3> QED BY <3>1, <3>2
  <2> HIDE DEF length
  <2> QED BY <2>5, <2>6, <2>7 DEF new
<1>7. 0 \in T
  <2> HIDE DEF Good
  <2>1. 0 + 1 = 1
    OBVIOUS
  <2> QED BY <1>5, <2>1
<1>8. ASSUME NEW k \in Nat, k \in T
      PROVE  k + 1 \in T
  <2> HIDE DEF Good
  <2>1. SUFFICES ASSUME k + 1 + 1 <= N PROVE Good(k + 1 + 1)
    OBVIOUS
  <2>2. k + 1 \in 1 .. N /\ k + 1 <= N
    BY <1>1, <2>1
  <2>3. Good(k + 1)
    BY <1>8, <2>2
  <2> QED BY <1>6, <2>1, <2>2, <2>3
<1>9. Good(N)
  <2> HIDE DEF T, Good
  <2>1. N - 1 \in Nat /\ N - 1 + 1 = N
    BY <1>1
  <2>2. N - 1 \in T
    BY <1>7, <1>8, <2>1, NatInduct
  <2> QED BY <1>1, <2>1, <2>2 DEF T
<1> QED BY <1>1, <1>3, <1>9

\* A turn of DecodeMove reads a modifier.
LEMMA ModifierRead ==
  ASSUME NEW m \in Seq(Modifiers), NEW k \in 1 .. Len(m)
  PROVE  Turn(EncodeMove(m), Stream(4 * k - 3, TRUE)) =
           [added  |-> {m[k]},
            stream |-> IF k < Len(m) THEN Stream(4 * k + 1, TRUE) ELSE Stream(4 * k, FALSE)]
<1> DEFINE text == EncodeMove(m)
           N == Len(m)
           from == 4 * k - 3
<1>1. N \in Nat \ {0} /\ m # <<>>
  OBVIOUS
<1>2. Len(text) = 4 * N - 1 /\ \A i \in 1 .. N : IsModifierAt(text, i, m[i], N)
  BY <1>1, Encoded
<1>3. m[k] \in Modifiers
  OBVIOUS
<1> HIDE DEF text, N
<1>4. k \in 1 .. N
  BY DEF N
<1>5. PICK v \in 0 .. MaxUInt, w \in 0 .. MaxUInt :
        v = m[k].vertex /\ w = m[k].modifier_index /\ m[k] = [vertex |-> v, modifier_index |-> w]
  BY <1>3 DEF Modifiers
<1>6. /\ text[from] = Number(v) /\ text[from + 1] = Blank /\ text[from + 2] = Number(w)
      /\ k < N => text[from + 3] = Blank
  <2>1. IsModifierAt(text, k, m[k], N)
    BY <1>2, <1>4
  <2>2. from + 1 = 4 * k - 2 /\ from + 2 = 4 * k - 1 /\ from + 3 = 4 * k
    BY <1>4
  <2>3. text[from + 1] = text[4 * k - 2] /\ text[from + 2] = text[4 * k - 1]
        /\ text[from + 3] = text[4 * k]
    BY <2>2
  <2> QED BY <1>5, <2>1, <2>3 DEF IsModifierAt
<1>7. from \in Nat /\ from + 2 \in 1 .. Len(text) /\ Len(text) \in Nat /\ from >= 1
  BY <1>1, <1>2, <1>4
<1>8. Extracted(text, Stream(from, TRUE)) =
        [values |-> {v}, stream |-> Stream(from + 1, TRUE)]
  <2>1. from \in from .. Len(text) /\ \A i \in from .. from - 1 : text[i] = Blank
    BY <1>7
  <2>2. from < Len(text)
    BY <1>7
  <2> HIDE DEF from
  <2>3. Extracted(text, Stream(from, TRUE)) =
          [values |-> {v}, stream |-> Stream(from + 1, from < Len(text))]
    BY <1>6, <1>7, <2>1, NumberRead
  <2>4. (from < Len(text)) = TRUE
    BY <2>2
  <2> QED BY <2>3, <2>4
<1>9. Extracted(text, Stream(from + 1, TRUE)) =
        [values |-> {w}, stream |-> Stream(from + 3, k < N)]
  <2> DEFINE j == from + 2
  <2>1. /\ from + 1 \in Nat /\ j \in from + 1 .. Len(text) /\ text[j] = Number(w)
        /\ \A i \in from + 1 .. j - 1 : text[i] = Blank
    <3>1. \A i \in from + 1 .. j - 1 : i = from + 1
      BY <1>7
    <3> QED BY <1>6, <1>7, <3>1
  <2>2. (j < Len(text)) = (k < N) /\ j + 1 = from + 3
    BY <1>1, <1>2, <1>4
  <2> HIDE DEF j, from
  <2>3. Extracted(text, Stream(from + 1, TRUE)) =
          [values |-> {w}, stream |-> Stream(j + 1, j < Len(text))]
    BY <1>7, <2>1, NumberRead
  <2> QED BY <2>2, <2>3
<1>10. SkipBlanks(text, Stream(from + 3, k < N)) =
         IF k < N THEN Stream(from + 4, TRUE) ELSE Stream(from + 3, FALSE)
  <2>1. CASE k < N
    <3>1. PICK i \in 1 .. N : i = k + 1 /\ 4 * i - 3 = from + 4
      BY <1>1, <1>4, <2>1
    <3>2. text[from + 4] = Number(m[i].vertex)
      <4>1. IsModifierAt(text, i, m[i], N)
        BY <1>2
      <4>2. text[4 * i - 3] = Number(m[i].vertex)
        BY <4>1 DEF IsModifierAt
      <4> QED BY <3>1, <4>2
    <3>3. text[from + 4] # Blank
      BY <3>2 DEF Number, Blank
    <3> DEFINE j == from + 4
    <3>4. /\ from + 3 \in Nat /\ j \in from + 3 .. Len(text) /\ text[j] # Blank
          /\ \A l \in from + 3 .. j - 1 : text[l] = Blank
      <4>1. \A l \in from + 3 .. j - 1 : l = from + 3
        BY <1>7
      <4>2. from + 3 \in Nat /\ j \in from + 3 .. Len(text)
        BY <1>1, <1>2, <1>4, <2>1
      <4> QED BY <1>6, <2>1, <3>3, <4>1, <4>2
    <3>5. SkipBlanks(text, Stream(from + 3, TRUE)) = Stream(j, TRUE)
      <4> HIDE DEF j, from
      <4> QED BY <1>7, <3>4, SkippedTo
    <3>6. (k < N) = TRUE
      BY <2>1
    <3> HIDE DEF from
    <3> QED BY <3>5, <3>6
  <2>2. CASE ~ k < N
    <3>1. from + 3 \in Nat /\ from + 3 = Len(text) + 1 /\ from + 3 > Len(text)
      BY <1>1, <1>2, <1>4, <2>2
    <3>2. (k < N) = FALSE
      BY <2>2
    <3> HIDE DEF from
    <3> DEFINE stream == Stream(from + 3, FALSE)
               left == {i \in stream.at .. Len(text) : text[i] # Blank}
    <3>3. stream.at = from + 3
      BY DEF Stream
    <3> HIDE DEF stream
    <3>4. left = {}
      BY <1>7, <3>1, <3>3
    <3>5. SkipBlanks(text, stream) =
            IF left = {} THEN Stream(Len(text) + 1, FALSE) ELSE Stream(Min(left), stream.good)
      BY DEF SkipBlanks
    <3>6. SkipBlanks(text, stream) = Stream(Len(text) + 1, FALSE)
      BY <3>4, <3>5
    <3> QED BY <3>1, <3>2, <3>6 DEF stream
  <2> QED BY <2>1, <2>2
<1>11. [vertex : {v}, modifier_index : {w}] = {m[k]}
  <2>1. \A r \in [vertex : {v}, modifier_index : {w}] : r = [vertex |-> v, modifier_index |-> w]
    OBVIOUS
  <2>2. [vertex |-> v, modifier_index |-> w] \in [vertex : {v}, modifier_index : {w}]
    OBVIOUS
  <2> DEFINE records == [vertex : {v}, modifier_index : {w}]
             a == [vertex |-> v, modifier_index |-> w]
  <2> HIDE DEF records, a
  <2>3. records = {a}
    BY <2>1, <2>2 DEF records, a
  <2> QED BY <1>5, <2>3 DEF records, a
<1>12. from + 4 = 4 * k + 1 /\ from + 3 = 4 * k
  BY <1>4
<1> HIDE DEF from
<1>13. Turn(text, Stream(from, TRUE)) =
         [added  |-> {m[k]},
          stream |-> IF k < N THEN Stream(from + 4, TRUE) ELSE Stream(from + 3, FALSE)]
  <2> DEFINE vertex == Extracted(text, Stream(from, TRUE))
             index  == Extracted(text, vertex.stream)
  <2> HIDE DEF vertex, index
  <2>1. vertex.values = {v} /\ vertex.stream = Stream(from + 1, TRUE)
    <3>1. vertex = [values |-> {v}, stream |-> Stream(from + 1, TRUE)]
      BY <1>8 DEF vertex
    <3> QED BY <3>1
  <2>2. index.values = {w} /\ index.stream = Stream(from + 3, k < N)
    <3>1. index = Extracted(text, Stream(from + 1, TRUE))
      BY <2>1 DEF index
    <3>2. index = [values |-> {w}, stream |-> Stream(from + 3, k < N)]
      BY <1>9, <3>1
    <3> QED BY <3>2
  <2>3. Turn(text, Stream(from, TRUE)) =
          [added  |-> [vertex : vertex.values, modifier_index : index.values],
           stream |-> SkipBlanks(text, index.stream)]
    BY DEF Turn, vertex, index
  <2> QED BY <1>10, <1>11, <2>1, <2>2, <2>3
<1> QED BY <1>12, <1>13 DEF from, text, N

\* What is read is what was written, whatever memory held: DecodeMove undoes
\* EncodeMove, for moves of any length with any numbers that fit.
THEOREM DecodedMove ==
  ASSUME NEW m \in Seq(Modifiers)
  PROVE  DecodeMove(EncodeMove(m)) = {m}
<1> DEFINE text == EncodeMove(m)
           N == Len(m)
           t == Turns(text)
<1>1. CASE m = <<>>
  <2>1. text = <<>> /\ Len(text) = 0
    <3>1. text = FlattenSeq(<<>>)
      BY <1>1 DEF EncodeMove
    <3> QED BY <3>1 DEF FlattenSeq
  <2>2. t[0] = Beginning(text)
    BY <2>1, TurnByTurn
  <2> QED BY <1>1, <2>1, <2>2 DEF DecodeMove, Beginning
<1>2. CASE m # <<>>
  <2>1. N \in Nat \ {0} /\ Len(text) = 4 * N - 1 /\ Len(text) \in Nat
    BY <1>2, Encoded
  <2>2. t[0] = Beginning(text) /\ \A n \in 1 .. Len(text) : t[n] = GoneOn(text, t[n - 1])
    BY <2>1, TurnByTurn
  <2>3. text # <<>>
    BY <2>1
  <2> HIDE DEF t, text
  <2> DEFINE Read(k) ==
        IF k < N THEN [moves |-> {SubSeq(m, 1, k)}, stream |-> Stream(4 * k + 1, TRUE)]
        ELSE [moves |-> {m}, stream |-> Stream(4 * N, FALSE)]
             T == {k \in Nat : k <= Len(text) => t[k] = Read(k)}
  <2>4. 0 \in T
    <3>1. SubSeq(m, 1, 0) = <<>> /\ 4 * 0 + 1 = 1 /\ 0 < N
      BY <2>1
    <3>2. (text # <<>>) = TRUE
      BY <2>3
    <3> QED BY <2>2, <3>1, <3>2 DEF Beginning
  <2>5. ASSUME NEW k \in Nat, k \in T, k + 1 <= Len(text)
        PROVE  t[k + 1] = Read(k + 1)
    <3>1. t[k] = Read(k)
      BY <2>1, <2>5
    <3>2. t[k + 1] = GoneOn(text, t[k])
      <4>1. PICK n \in 1 .. Len(text) : n = k + 1 /\ n - 1 = k
        BY <2>1, <2>5
      <4>2. t[n] = GoneOn(text, t[n - 1])
        BY <2>2
      <4> QED BY <4>1, <4>2
    <3>3. CASE k < N
      <4>1. k + 1 \in 1 .. Len(m) /\ 4 * (k + 1) - 3 = 4 * k + 1
        BY <3>3
      <4> DEFINE turn == Turn(text, Stream(4 * k + 1, TRUE))
      <4>2. turn = [added  |-> {m[k + 1]},
                    stream |-> IF k + 1 < N THEN Stream(4 * (k + 1) + 1, TRUE)
                               ELSE Stream(4 * (k + 1), FALSE)]
        <5>1. turn = Turn(EncodeMove(m), Stream(4 * (k + 1) - 3, TRUE))
          BY <4>1 DEF text
        <5> QED BY <4>1, <5>1, ModifierRead
      <4>3. t[k].moves = {SubSeq(m, 1, k)} /\ t[k].stream = Stream(4 * k + 1, TRUE)
        BY <3>1, <3>3
      <4>4. t[k].stream.good = TRUE
        BY <4>3 DEF Stream
      <4> HIDE DEF turn
      <4> DEFINE moves == {Append(d, a) : d \in {SubSeq(m, 1, k)}, a \in {m[k + 1]}}
      <4>5. t[k + 1] = [moves |-> moves, stream |-> turn.stream]
        <5>1. Turn(text, t[k].stream) = turn
          BY <4>3 DEF turn
        <5>2. GoneOn(text, t[k]) =
                [moves  |-> {Append(d, a) : d \in t[k].moves, a \in turn.added},
                 stream |-> turn.stream]
          BY <4>4, <5>1 DEF GoneOn
        <5>3. turn.added = {m[k + 1]}
          BY <4>2
        <5> QED BY <3>2, <4>3, <5>2, <5>3
      <4>6. Append(SubSeq(m, 1, k), m[k + 1]) = SubSeq(m, 1, k + 1)
        BY <4>1
      <4>7. moves = {SubSeq(m, 1, k + 1)}
        BY <4>6
      <4> HIDE DEF moves
      <4>8. k + 1 = N => SubSeq(m, 1, k + 1) = m
        BY <4>1
      <4>9. t[k + 1] = [moves |-> {SubSeq(m, 1, k + 1)}, stream |-> turn.stream]
        BY <4>5, <4>7
      <4>10. turn.stream = IF k + 1 < N THEN Stream(4 * (k + 1) + 1, TRUE)
                           ELSE Stream(4 * (k + 1), FALSE)
        BY <4>2
      <4>11. CASE k + 1 < N
        BY <4>11, <4>9, <4>10
      <4>12. CASE k + 1 = N
        BY <4>8, <4>12, <4>9, <4>10
      <4> QED BY <3>3, <4>11, <4>12
    <3>4. CASE ~ k < N
      <4>1. t[k].stream.good = FALSE
        BY <3>1, <3>4 DEF Stream
      <4>2. t[k + 1] = t[k]
        BY <3>2, <4>1 DEF GoneOn
      <4>3. ~ k + 1 < N
        BY <3>4, <2>1
      <4> QED BY <3>1, <3>4, <4>2, <4>3
    <3> QED BY <3>3, <3>4
  <2>6. Len(text) \in T
    <3>1. \A k \in Nat : k \in T => k + 1 \in T
      <4> HIDE DEF Read, t
      <4> QED BY <2>5
    <3> HIDE DEF T
    <3> QED BY <2>1, <2>4, <3>1, NatInduct
  <2>7. t[Len(text)] = Read(Len(text)) /\ ~ Len(text) < N
    BY <2>1, <2>6
  <2>8. t[Len(text)].moves = {m}
    BY <2>7
  <2> QED BY <2>8 DEF DecodeMove, t, text
<1> QED BY <1>1, <1>2

----
(***************************************************************************)
(* What any text may be read as.                                           *)
(***************************************************************************)
Values == Nat \cup Memory

ReadModifiers == [vertex : Values, modifier_index : Values]

Places == Nat \ {0}

\* A stream that stays good has given the one value of a number.
LEMMA ExtractedType ==
  ASSUME NEW text, Len(text) \in Nat, \A i \in 1 .. Len(text) : text[i] \in TextTokens,
         NEW stream, stream.at \in Places
  PROVE  LET got == Extracted(text, stream)
         IN  /\ got.values \subseteq Values /\ got.stream.at \in Places
             /\ got.stream.good => stream.good /\ \E v \in Values : got.values = {v}
<1> DEFINE got == Extracted(text, stream)
           start == SkipBlanks(text, stream)
           token == text[start.at]
<1>1. stream.at \in Nat
  BY DEF Places
<1>2. /\ ~ start.good => got.values = Memory /\ got.stream = start
      /\ start.good /\ token.is = "number" /\ token.value <= MaxUInt /\ ~ token.value > MaxUInt =>
           got.values = {token.value} /\ got.stream.at = start.at + 1
      /\ start.good /\ token.is = "number" /\ token.value > MaxUInt /\ ~ token.value <= MaxUInt =>
           got.values = {MaxUInt} /\ got.stream.at = start.at + 1 /\ ~ got.stream.good
      /\ start.good /\ token.is = "other" =>
           got.values = {0} /\ got.stream.at = start.at /\ ~ got.stream.good
  <2>1. got =
          CASE ~start.good -> [values |-> Memory, stream |-> start]
            [] start.good /\ token.is = "number" /\ token.value <= MaxUInt ->
                 [values |-> {token.value}, stream |-> Stream(start.at + 1, start.at < Len(text))]
            [] start.good /\ token.is = "number" /\ token.value > MaxUInt ->
                 [values |-> {MaxUInt}, stream |-> Stream(start.at + 1, FALSE)]
            [] start.good /\ token.is = "other" ->
                 [values |-> {0}, stream |-> Stream(start.at, FALSE)]
    BY DEF Extracted
  <2> HIDE DEF got, start, token
  <2>2. CASE ~ start.good
    BY <2>1, <2>2
  <2>3. CASE start.good /\ token.is = "number" /\ token.value <= MaxUInt /\ ~ token.value > MaxUInt
    <3>1. got = [values |-> {token.value}, stream |-> Stream(start.at + 1, start.at < Len(text))]
      BY <2>1, <2>3
    <3>2. got.values = {token.value} /\ got.stream.at = start.at + 1
      BY <3>1 DEF Stream
    <3> QED BY <2>3, <3>2
  <2>4. CASE start.good /\ token.is = "number" /\ token.value > MaxUInt /\ ~ token.value <= MaxUInt
    <3>1. got = [values |-> {MaxUInt}, stream |-> Stream(start.at + 1, FALSE)]
      BY <2>1, <2>4
    <3>2. got.values = {MaxUInt} /\ got.stream.at = start.at + 1 /\ ~ got.stream.good
      BY <3>1 DEF Stream
    <3> QED BY <2>4, <3>2
  <2>5. CASE start.good /\ token.is = "other"
    <3>1. got = [values |-> {0}, stream |-> Stream(start.at, FALSE)]
      BY <2>1, <2>5
    <3>2. got.values = {0} /\ got.stream.at = start.at /\ ~ got.stream.good
      BY <3>1 DEF Stream
    <3> QED BY <2>5, <3>2
  <2> QED BY <2>2, <2>3, <2>4, <2>5
<1>3. \/ start.at = Len(text) + 1 /\ ~ start.good
      \/ \E j \in stream.at .. Len(text) :
           text[j] # Blank /\ start.at = j /\ (start.good <=> stream.good)
  BY <1>1, Skipped
<1>4. MaxUInt \in Values /\ 0 \in Values /\ Memory \subseteq Values /\ MaxUInt \in Nat
  BY NumberAssumption DEF Values
<1>5. start.at \in Places /\ start.at + 1 \in Places /\ (start.good => stream.good)
  BY <1>1, <1>3 DEF Places
<1> HIDE DEF got, start, token
<1>6. CASE ~ start.good
  <2>1. got.values = Memory /\ got.stream = start
    BY <1>2, <1>6
  <2> QED BY <1>4, <1>5, <1>6, <2>1 DEF got
<1>7. CASE start.good
  <2>1. token \in TextTokens /\ token # Blank
    BY <1>1, <1>3, <1>7 DEF token, Places
  <2>2. CASE token.is = "number" /\ token.value <= MaxUInt
    <3>1. token.value \in Nat
      BY <2>1, <2>2 DEF TextTokens, Blank, Other
    <3>2. token.value \in Values /\ ~ token.value > MaxUInt
      BY <1>4, <2>2, <3>1 DEF Values
    <3>3. got.values = {token.value} /\ got.stream.at = start.at + 1
      BY <1>2, <1>7, <2>2, <3>2
    <3> QED BY <1>5, <1>7, <3>2, <3>3 DEF got
  <2>3. CASE token.is = "number" /\ ~ token.value <= MaxUInt
    <3>1. token.value > MaxUInt
      BY <1>4, <2>1, <2>3 DEF TextTokens, Blank, Other
    <3>2. got.values = {MaxUInt} /\ got.stream.at = start.at + 1 /\ ~ got.stream.good
      BY <1>2, <1>7, <2>3, <3>1
    <3> QED BY <1>4, <1>5, <3>2 DEF got
  <2>4. CASE token.is # "number"
    <3>1. token.is = "other"
      BY <2>1, <2>4 DEF TextTokens, Blank, Other
    <3>2. got.values = {0} /\ got.stream.at = start.at /\ ~ got.stream.good
      BY <1>2, <1>7, <3>1
    <3> QED BY <1>4, <1>5, <3>2 DEF got
  <2> QED BY <2>2, <2>3, <2>4
<1> QED BY <1>6, <1>7 DEF got

\* A turn after which the stream is good has added one modifier.
LEMMA TurnType ==
  ASSUME NEW text, Len(text) \in Nat, \A i \in 1 .. Len(text) : text[i] \in TextTokens,
         NEW stream, stream.at \in Places
  PROVE  LET turn == Turn(text, stream)
         IN  /\ turn.added \subseteq ReadModifiers /\ turn.stream.at \in Places
             /\ turn.stream.good => \E a \in ReadModifiers : turn.added = {a}
<1> DEFINE vertex == Extracted(text, stream)
           index  == Extracted(text, vertex.stream)
           to     == SkipBlanks(text, index.stream)
           turn   == Turn(text, stream)
<1>1. /\ vertex.values \subseteq Values /\ vertex.stream.at \in Places
      /\ vertex.stream.good => \E v \in Values : vertex.values = {v}
  BY ExtractedType
<1>2. /\ turn.added = [vertex : vertex.values, modifier_index : index.values]
      /\ turn.stream = to
  BY DEF Turn
<1> HIDE DEF vertex, turn
<1>3. /\ index.values \subseteq Values /\ index.stream.at \in Places
      /\ index.stream.good => vertex.stream.good /\ \E w \in Values : index.values = {w}
  BY <1>1, ExtractedType
<1> HIDE DEF index
<1>4. to.at \in Places /\ (to.good => index.stream.good)
  <2>1. index.stream.at \in Nat
    BY <1>3 DEF Places
  <2> DEFINE from == index.stream
  <2> HIDE DEF from
  <2>2. \/ to.at = Len(text) + 1 /\ ~ to.good
        \/ \E j \in from.at .. Len(text) : to.at = j /\ (to.good <=> from.good)
    BY <2>1, Skipped DEF from
  <2> QED BY <1>3, <2>1, <2>2 DEF from, Places
<1>5. turn.added \subseteq ReadModifiers
  BY <1>1, <1>2, <1>3 DEF ReadModifiers
<1>6. turn.stream.good => \E a \in ReadModifiers : turn.added = {a}
  <2>1. SUFFICES ASSUME turn.stream.good
                 PROVE  \E a \in ReadModifiers : turn.added = {a}
    OBVIOUS
  <2>2. PICK v \in Values : vertex.values = {v}
    BY <1>1, <1>2, <1>3, <1>4, <2>1
  <2>3. PICK w \in Values : index.values = {w}
    BY <1>2, <1>3, <1>4, <2>1
  <2> DEFINE a == [vertex |-> v, modifier_index |-> w]
  <2>4. a \in ReadModifiers /\ a \in turn.added
    BY <1>2, <2>2, <2>3 DEF ReadModifiers
  <2>5. \A r \in turn.added : r = a
    BY <1>2, <2>2, <2>3
  <2> HIDE DEF a
  <2>6. turn.added = {a}
    BY <2>4, <2>5
  <2> QED BY <2>4, <2>6
<1> QED BY <1>2, <1>4, <1>5, <1>6 DEF turn

\* All the turns that were good have added the same; the last may add anything.
Known(read) ==
  /\ read.stream.at \in Places
  /\ \E d \in Seq(ReadModifiers) :
       \/ read.moves \subseteq {d}
       \/ ~ read.stream.good /\ read.moves \subseteq {Append(d, a) : a \in ReadModifiers}

LEMMA KnownGoesOn ==
  ASSUME NEW text, Len(text) \in Nat, \A i \in 1 .. Len(text) : text[i] \in TextTokens,
         NEW read, Known(read)
  PROVE  Known(GoneOn(text, read))
<1> DEFINE turn == Turn(text, read.stream)
           moves == {Append(m, a) : m \in read.moves, a \in turn.added}
<1>1. /\ turn.added \subseteq ReadModifiers /\ turn.stream.at \in Places
      /\ turn.stream.good => \E a \in ReadModifiers : turn.added = {a}
  BY TurnType DEF Known
<1>2. CASE ~ read.stream.good
  <2>1. GoneOn(text, read) = read
    BY <1>2 DEF GoneOn
  <2> QED BY <2>1
<1>3. CASE read.stream.good
  <2>1. PICK d \in Seq(ReadModifiers) : read.moves \subseteq {d}
    BY <1>3 DEF Known
  <2>2. GoneOn(text, read) = [moves |-> moves, stream |-> turn.stream]
    BY <1>3 DEF GoneOn
  <2>3. moves \subseteq {Append(d, a) : a \in turn.added}
    BY <2>1
  <2> HIDE DEF turn, moves
  <2>4. GoneOn(text, read).moves = moves /\ GoneOn(text, read).stream = turn.stream
    BY <2>2
  <2>5. CASE turn.stream.good
    <3>1. PICK a \in ReadModifiers : turn.added = {a}
      BY <1>1, <2>5
    <3>2. Append(d, a) \in Seq(ReadModifiers) /\ moves \subseteq {Append(d, a)}
      BY <2>3, <3>1
    <3> QED BY <1>1, <2>4, <3>2 DEF Known
  <2>6. CASE ~ turn.stream.good
    <3>1. moves \subseteq {Append(d, a) : a \in ReadModifiers}
      BY <1>1, <2>3
    <3> QED BY <1>1, <2>4, <2>6, <3>1 DEF Known
  <2> QED BY <2>5, <2>6
<1> QED BY <1>2, <1>3

LEMMA KnownInTheEnd ==
  ASSUME NEW text, Len(text) \in Nat, \A i \in 1 .. Len(text) : text[i] \in TextTokens
  PROVE  Known(Turns(text)[Len(text)])
<1> DEFINE t == Turns(text)
           T == {k \in Nat : k <= Len(text) => Known(t[k])}
<1>1. t[0] = Beginning(text) /\ \A n \in 1 .. Len(text) : t[n] = GoneOn(text, t[n - 1])
  BY TurnByTurn
<1> HIDE DEF t
<1>2. 0 \in T
  <2>1. t[0].moves = {<<>>} /\ t[0].stream.at = 1
    BY <1>1 DEF Beginning, Stream
  <2>2. <<>> \in Seq(ReadModifiers) /\ 1 \in Places
    BY DEF Places
  <2>3. Known(t[0])
    BY <2>1, <2>2 DEF Known
  <2> QED BY <2>3
<1>3. ASSUME NEW k \in Nat, k \in T PROVE k + 1 \in T
  <2>1. SUFFICES ASSUME k + 1 <= Len(text) PROVE Known(t[k + 1])
    OBVIOUS
  <2>2. PICK n \in 1 .. Len(text) : n = k + 1 /\ n - 1 = k
    BY <2>1
  <2>3. t[n] = GoneOn(text, t[n - 1])
    BY <1>1
  <2>4. Known(t[n - 1])
    BY <1>3, <2>2
  <2>5. Known(t[n])
    BY <2>3, <2>4, KnownGoesOn
  <2> QED BY <2>2, <2>5
<1>4. Len(text) \in T
  <2> HIDE DEF T
  <2> QED BY <1>2, <1>3, NatInduct
<1> QED BY <1>4 DEF t

\* Two readings of a text differ in the last modifier only.
LEMMA ReadTogether ==
  ASSUME NEW text \in Seq(TextTokens), NEW d \in DecodeMove(text), NEW e \in DecodeMove(text)
  PROVE  Len(d) = Len(e) /\ (d # <<>> => Front(d) = Front(e))
<1>1. Len(text) \in Nat /\ \A i \in 1 .. Len(text) : text[i] \in TextTokens
  OBVIOUS
<1>2. Known(Turns(text)[Len(text)])
  BY <1>1, KnownInTheEnd
<1>3. PICK c \in Seq(ReadModifiers) :
        \/ DecodeMove(text) \subseteq {c}
        \/ DecodeMove(text) \subseteq {Append(c, a) : a \in ReadModifiers}
  BY <1>2 DEF Known, DecodeMove
<1>4. CASE DecodeMove(text) \subseteq {c}
  <2>1. d = e
    BY <1>4
  <2> QED BY <2>1
<1>5. CASE DecodeMove(text) \subseteq {Append(c, a) : a \in ReadModifiers}
  <2>1. PICK a \in ReadModifiers, b \in ReadModifiers : d = Append(c, a) /\ e = Append(c, b)
    BY <1>5
  <2>2. Len(d) = Len(c) + 1 /\ Len(e) = Len(c) + 1
    BY <2>1
  <2>3. \A f \in Seq(ReadModifiers), a1 \in ReadModifiers : Front(Append(f, a1)) = f
    <3> SUFFICES ASSUME NEW f \in Seq(ReadModifiers), NEW a1 \in ReadModifiers
                 PROVE  Front(Append(f, a1)) = f
      OBVIOUS
    <3>1. Append(f, a1) \in Seq(ReadModifiers) /\ Len(Append(f, a1)) = Len(f) + 1
          /\ \A i \in 1 .. Len(f) : Append(f, a1)[i] = f[i]
      OBVIOUS
    <3>2. SubSeq(Append(f, a1), 1, Len(f) + 1 - 1) = f
      BY <3>1
    <3> QED BY <3>1, <3>2 DEF Front
  <2> QED BY <2>1, <2>2, <2>3
<1> QED BY <1>3, <1>4, <1>5

----
(***************************************************************************)
(* Texts of numbers that fit, two by two.                                  *)
(***************************************************************************)
IsNumber(token) == token.is = "number" /\ token.value \in 0 .. MaxUInt

\* The numbers of a text from a place on.
Left(text, at) == {i \in at .. Len(text) : text[i].is = "number"}

LEMMA PlainSkipped ==
  ASSUME NEW text, Len(text) \in Nat,
         \A i \in 1 .. Len(text) : text[i] = Blank \/ IsNumber(text[i]),
         NEW stream, stream.at \in Places
  PROVE  LET to == SkipBlanks(text, stream)
         IN  /\ to.at \in Places /\ Left(text, to.at) = Left(text, stream.at)
             /\ to.good => stream.good /\ to.at \in Left(text, stream.at)
             /\ stream.good /\ Left(text, stream.at) # {} => to.good
<1> DEFINE to == SkipBlanks(text, stream)
<1>1. stream.at \in Nat /\ stream.at >= 1
  BY DEF Places
<1>2. Blank.is # "number"
  BY DEF Blank
<1>3. \/ /\ \A i \in stream.at .. Len(text) : text[i] = Blank
         /\ to.at = Len(text) + 1 /\ ~ to.good
      \/ \E j \in stream.at .. Len(text) :
           /\ text[j] # Blank /\ \A i \in stream.at .. j - 1 : text[i] = Blank
           /\ to.at = j /\ (to.good <=> stream.good)
  BY <1>1, Skipped
<1> HIDE DEF to
<1>4. CASE /\ \A i \in stream.at .. Len(text) : text[i] = Blank
           /\ to.at = Len(text) + 1 /\ ~ to.good
  <2>1. Left(text, stream.at) = {}
    BY <1>2, <1>4 DEF Left
  <2>2. Left(text, to.at) = {}
    BY <1>4 DEF Left
  <2>3. to.at \in Places
    BY <1>4 DEF Places
  <2> QED BY <1>4, <2>1, <2>2, <2>3 DEF to
<1>5. CASE \E j \in stream.at .. Len(text) :
             /\ text[j] # Blank /\ \A i \in stream.at .. j - 1 : text[i] = Blank
             /\ to.at = j /\ (to.good <=> stream.good)
  <2>1. PICK j \in stream.at .. Len(text) :
          /\ text[j] # Blank /\ \A i \in stream.at .. j - 1 : text[i] = Blank
          /\ to.at = j /\ (to.good <=> stream.good)
    BY <1>5
  <2>2. j \in 1 .. Len(text) /\ j \in Places
    BY <1>1 DEF Places
  <2>3. text[j].is = "number"
    BY <2>1, <2>2 DEF IsNumber
  <2>4. j \in Left(text, stream.at)
    BY <2>3 DEF Left
  <2>5. Left(text, j) = Left(text, stream.at)
    <3>1. \A i \in stream.at .. Len(text) : text[i].is = "number" => i \in j .. Len(text)
      <4> SUFFICES ASSUME NEW i \in stream.at .. Len(text), text[i].is = "number"
                   PROVE  i \in j .. Len(text)
        OBVIOUS
      <4>1. ~ i \in stream.at .. j - 1
        BY <1>2, <2>1
      <4> QED BY <1>1, <4>1
    <3>2. \A i \in j .. Len(text) : i \in stream.at .. Len(text)
      BY <1>1
    <3> QED BY <3>1, <3>2 DEF Left
  <2> QED BY <2>1, <2>2, <2>4, <2>5 DEF to
<1> QED BY <1>3, <1>4, <1>5

\* A number is read while one is left, and it is the first of them.
LEMMA PlainExtracted ==
  ASSUME NEW text, Len(text) \in Nat,
         \A i \in 1 .. Len(text) : text[i] = Blank \/ IsNumber(text[i]),
         NEW stream, stream.at \in Places, stream.good, Left(text, stream.at) # {}
  PROVE  LET got == Extracted(text, stream)
         IN  /\ got.stream.at \in Places
             /\ \E v \in Values : got.values = {v}
             /\ \E j \in Left(text, stream.at) :
                  Left(text, got.stream.at) = Left(text, stream.at) \ {j}
             /\ Left(text, got.stream.at) # {} => got.stream.good
<1> DEFINE got == Extracted(text, stream)
           start == SkipBlanks(text, stream)
           j == start.at
           token == text[j]
<1>1. /\ j \in Places /\ Left(text, j) = Left(text, stream.at)
      /\ start.good /\ j \in Left(text, j)
  BY PlainSkipped
<1>2. got =
        CASE ~start.good -> [values |-> Memory, stream |-> start]
          [] start.good /\ token.is = "number" /\ token.value <= MaxUInt ->
               [values |-> {token.value}, stream |-> Stream(start.at + 1, start.at < Len(text))]
          [] start.good /\ token.is = "number" /\ token.value > MaxUInt ->
               [values |-> {MaxUInt}, stream |-> Stream(start.at + 1, FALSE)]
          [] start.good /\ token.is = "other" ->
               [values |-> {0}, stream |-> Stream(start.at, FALSE)]
  BY DEF Extracted
<1> HIDE DEF got, start
<1>3. j \in Nat /\ j \in 1 .. Len(text)
  BY <1>1 DEF Places, Left
<1>4. token.is = "number" /\ token.value \in 0 .. MaxUInt
  <2>1. token.is = "number"
    BY <1>1 DEF Left
  <2>2. token # Blank
    BY <2>1 DEF Blank
  <2> QED BY <1>3, <2>1, <2>2 DEF IsNumber
<1>5. token.value <= MaxUInt /\ ~ token.value > MaxUInt
  BY <1>4, NumberAssumption
<1> HIDE DEF token
<1>6. got = [values |-> {token.value}, stream |-> Stream(start.at + 1, start.at < Len(text))]
  BY <1>1, <1>2, <1>4, <1>5
<1>7. /\ got.values = {token.value} /\ got.stream.at = j + 1
      /\ got.stream.good <=> j < Len(text)
  BY <1>6 DEF Stream
<1> HIDE DEF j
<1>8. Left(text, j + 1) = Left(text, j) \ {j}
  BY <1>3 DEF Left
<1>9. Left(text, j + 1) # {} => j < Len(text)
  BY <1>3 DEF Left
<1>10. j + 1 \in Places /\ token.value \in Values
  BY <1>3, <1>4 DEF Places, Values
<1> QED BY <1>1, <1>7, <1>8, <1>9, <1>10 DEF got

\* An even number of numbers, not none.
IsPaired(S) == S # {} /\ IsFiniteSet(S) /\ \E h \in Nat : Cardinality(S) = 2 * h

LEMMA PairTaken ==
  ASSUME NEW S, IsPaired(S), NEW i \in S, NEW j \in S \ {i}
  PROVE  LET rest == (S \ {i}) \ {j} IN rest = {} \/ IsPaired(rest)
<1> DEFINE one == S \ {i}
           rest == one \ {j}
<1>1. PICK h \in Nat : Cardinality(S) = 2 * h
  BY DEF IsPaired
<1>2. IsFiniteSet(one) /\ Cardinality(one) = Cardinality(S) - 1
  BY FS_RemoveElement DEF IsPaired
<1>3. j \in one
  OBVIOUS
<1> HIDE DEF one
<1>4. IsFiniteSet(rest) /\ Cardinality(rest) = Cardinality(one) - 1
  BY <1>2, <1>3, FS_RemoveElement
<1>5. Cardinality(rest) \in Nat
  BY <1>4, FS_CardinalityType
<1> HIDE DEF rest
<1>6. h - 1 \in Nat /\ Cardinality(rest) = 2 * (h - 1)
  BY <1>1, <1>2, <1>4, <1>5
<1> QED BY <1>4, <1>6 DEF IsPaired, rest, one

LEMMA OneOfThemLeft ==
  ASSUME NEW S, IsPaired(S), NEW i \in S
  PROVE  S \ {i} # {}
<1>1. PICK h \in Nat : Cardinality(S) = 2 * h
  BY DEF IsPaired
<1>2. Cardinality(S \ {i}) = Cardinality(S) - 1
  BY FS_RemoveElement DEF IsPaired
<1>3. Cardinality(S \ {i}) # 0
  BY <1>1, <1>2
<1> QED BY <1>3, FS_EmptySet

\* A turn takes two numbers.
LEMMA PlainTurn ==
  ASSUME NEW text, Len(text) \in Nat,
         \A i \in 1 .. Len(text) : text[i] = Blank \/ IsNumber(text[i]),
         NEW stream, stream.at \in Places, stream.good, IsPaired(Left(text, stream.at))
  PROVE  LET turn == Turn(text, stream)
         IN  /\ turn.stream.at \in Places
             /\ \E a \in ReadModifiers : turn.added = {a}
             /\ turn.stream.good => IsPaired(Left(text, turn.stream.at))
<1> DEFINE S == Left(text, stream.at)
           vertex == Extracted(text, stream)
           index  == Extracted(text, vertex.stream)
           to     == SkipBlanks(text, index.stream)
           turn   == Turn(text, stream)
<1>1. S # {}
  BY DEF IsPaired
<1>2. /\ vertex.stream.at \in Places
      /\ \E v \in Values : vertex.values = {v}
      /\ \E j \in S : Left(text, vertex.stream.at) = S \ {j}
      /\ Left(text, vertex.stream.at) # {} => vertex.stream.good
  BY <1>1, PlainExtracted
<1>3. /\ turn.added = [vertex : vertex.values, modifier_index : index.values]
      /\ turn.stream = to
  BY DEF Turn
<1> HIDE DEF S, vertex, turn
<1>4. PICK i \in S : Left(text, vertex.stream.at) = S \ {i}
  BY <1>2
<1>5. S \ {i} # {}
  BY OneOfThemLeft DEF S
<1>6. vertex.stream.good /\ Left(text, vertex.stream.at) # {}
  BY <1>2, <1>4, <1>5
<1>7. /\ index.stream.at \in Places
      /\ \E w \in Values : index.values = {w}
      /\ \E j \in Left(text, vertex.stream.at) :
           Left(text, index.stream.at) = Left(text, vertex.stream.at) \ {j}
  <2> DEFINE from == vertex.stream
  <2>1. from.at \in Places /\ from.good /\ Left(text, from.at) # {}
    BY <1>2, <1>6
  <2> HIDE DEF from
  <2>2. LET got == Extracted(text, from)
        IN  /\ got.stream.at \in Places
            /\ \E w \in Values : got.values = {w}
            /\ \E j \in Left(text, from.at) : Left(text, got.stream.at) = Left(text, from.at) \ {j}
    BY <2>1, PlainExtracted
  <2> QED BY <2>2 DEF from
<1> HIDE DEF index
<1>8. PICK j \in S \ {i} : Left(text, index.stream.at) = (S \ {i}) \ {j}
  BY <1>4, <1>7
<1>9. Left(text, index.stream.at) = {} \/ IsPaired(Left(text, index.stream.at))
  BY <1>8, PairTaken DEF S
<1>10. /\ to.at \in Places /\ Left(text, to.at) = Left(text, index.stream.at)
       /\ to.good => to.at \in Left(text, index.stream.at)
  BY <1>7, PlainSkipped
<1> HIDE DEF to
<1>11. turn.stream.at \in Places /\ (turn.stream.good => IsPaired(Left(text, turn.stream.at)))
  BY <1>3, <1>9, <1>10
<1>12. \E a \in ReadModifiers : turn.added = {a}
  <2>1. PICK v \in Values : vertex.values = {v}
    BY <1>2
  <2>2. PICK w \in Values : index.values = {w}
    BY <1>7
  <2> DEFINE a == [vertex |-> v, modifier_index |-> w]
  <2>3. a \in ReadModifiers /\ a \in turn.added
    BY <1>3, <2>1, <2>2 DEF ReadModifiers
  <2>4. \A r \in turn.added : r = a
    BY <1>3, <2>1, <2>2
  <2> HIDE DEF a
  <2>5. turn.added = {a}
    BY <2>3, <2>4
  <2> QED BY <2>3, <2>5
<1> QED BY <1>11, <1>12 DEF turn

\* One move was read, and what is left are pairs.
One(text, read) ==
  /\ read.stream.at \in Places
  /\ \E d \in Seq(ReadModifiers) : read.moves = {d}
  /\ read.stream.good => IsPaired(Left(text, read.stream.at))

LEMMA OneGoesOn ==
  ASSUME NEW text, Len(text) \in Nat,
         \A i \in 1 .. Len(text) : text[i] = Blank \/ IsNumber(text[i]),
         NEW read, One(text, read)
  PROVE  One(text, GoneOn(text, read))
<1> DEFINE turn == Turn(text, read.stream)
           moves == {Append(m, a) : m \in read.moves, a \in turn.added}
<1>1. CASE ~ read.stream.good
  <2>1. GoneOn(text, read) = read
    BY <1>1 DEF GoneOn
  <2> QED BY <2>1
<1>2. CASE read.stream.good
  <2>1. PICK d \in Seq(ReadModifiers) : read.moves = {d}
    BY DEF One
  <2>2. GoneOn(text, read) = [moves |-> moves, stream |-> turn.stream]
    BY <1>2 DEF GoneOn
  <2>3. /\ turn.stream.at \in Places
        /\ \E a \in ReadModifiers : turn.added = {a}
        /\ turn.stream.good => IsPaired(Left(text, turn.stream.at))
    BY <1>2, PlainTurn DEF One
  <2> HIDE DEF turn
  <2>4. PICK a \in ReadModifiers : turn.added = {a}
    BY <2>3
  <2>5. moves = {Append(d, a)} /\ Append(d, a) \in Seq(ReadModifiers)
    BY <2>1, <2>4
  <2> HIDE DEF moves
  <2>6. GoneOn(text, read).moves = moves /\ GoneOn(text, read).stream = turn.stream
    BY <2>2
  <2> QED BY <2>3, <2>5, <2>6 DEF One
<1> QED BY <1>1, <1>2

\* A text of pairs is read as one move, without what was never set.
LEMMA ReadAsOne ==
  ASSUME NEW text \in Seq(TextTokens), IsPlain(text), Numbers(text) # {},
         Cardinality(Numbers(text)) % 2 = 0
  PROVE  Cardinality(DecodeMove(text)) = 1
<1> DEFINE t == Turns(text)
           T == {k \in Nat : k <= Len(text) => One(text, t[k])}
<1>1. Len(text) \in Nat
  OBVIOUS
<1>2. ASSUME NEW i \in 1 .. Len(text) PROVE text[i] = Blank \/ IsNumber(text[i])
  <2>1. text[i] \in TextTokens /\ text[i] # Other /\ i \in DOMAIN text
    BY DEF IsPlain
  <2>2. CASE text[i] # Blank
    <3>1. text[i].is = "number" /\ text[i].value \in Nat
      BY <2>1, <2>2 DEF TextTokens
    <3>2. text[i].value <= MaxUInt
      BY <2>1, <3>1 DEF IsPlain, Numbers
    <3> QED BY <3>1, <3>2, NumberAssumption DEF IsNumber
  <2> QED BY <2>2
<1>3. Left(text, 1) = Numbers(text)
  BY DEF Left, Numbers
<1>4. IsPaired(Left(text, 1))
  <2>1. Numbers(text) \in SUBSET (1 .. Len(text))
    BY DEF Numbers
  <2>2. IsFiniteSet(Numbers(text)) /\ Cardinality(Numbers(text)) \in Nat
    <3>1. IsFiniteSet(1 .. Len(text))
      BY <1>1, FS_Interval
    <3>2. IsFiniteSet(Numbers(text))
      BY <2>1, <3>1, FS_Subset
    <3> QED BY <3>2, FS_CardinalityType
  <2>3. PICK n \in Nat : n = Cardinality(Numbers(text)) /\ n % 2 = 0
    BY <2>2
  <2>4. \E h \in Nat : n = 2 * h
    <3>1. n \div 2 \in Nat /\ n = 2 * (n \div 2)
      BY <2>3
    <3> QED BY <3>1
  <2> QED BY <1>3, <2>2, <2>3, <2>4 DEF IsPaired
<1>5. t[0] = Beginning(text) /\ \A n \in 1 .. Len(text) : t[n] = GoneOn(text, t[n - 1])
  BY <1>1, TurnByTurn
<1> HIDE DEF t
<1>6. 0 \in T
  <2>1. t[0].moves = {<<>>} /\ t[0].stream.at = 1
    BY <1>5 DEF Beginning, Stream
  <2>2. <<>> \in Seq(ReadModifiers) /\ 1 \in Places
    BY DEF Places
  <2>3. One(text, t[0])
    BY <1>4, <2>1, <2>2 DEF One
  <2> QED BY <2>3
<1>7. ASSUME NEW k \in Nat, k \in T PROVE k + 1 \in T
  <2>1. SUFFICES ASSUME k + 1 <= Len(text) PROVE One(text, t[k + 1])
    OBVIOUS
  <2>2. PICK n \in 1 .. Len(text) : n = k + 1 /\ n - 1 = k
    BY <1>1, <2>1
  <2>3. t[n] = GoneOn(text, t[n - 1])
    BY <1>5
  <2>4. One(text, t[n - 1])
    BY <1>7, <1>1, <2>1, <2>2
  <2>5. One(text, t[n])
    BY <1>1, <1>2, <2>3, <2>4, OneGoesOn
  <2> QED BY <2>2, <2>5
<1>8. Len(text) \in T
  <2> HIDE DEF T
  <2> QED BY <1>1, <1>6, <1>7, NatInduct
<1>9. PICK d \in Seq(ReadModifiers) : DecodeMove(text) = {d}
  <2>1. One(text, t[Len(text)])
    BY <1>1, <1>8
  <2> QED BY <2>1 DEF One, DecodeMove, t
<1> QED BY <1>9, FS_Singleton

----
(***************************************************************************)
(* Moves on a connection.                                                  *)
(***************************************************************************)
\* A mailbox holds, and has delivered, what was written.
Held == Whole(Bytes) \in Seq(Texts) /\ delivered \in Seq(Texts)

LEMMA HeldStays ==
  ASSUME SocketInv', Held, [Connection!Next]_Connection!vars
  PROVE  Held'
<1>1. CASE Connection!Post
  <2> DEFINE q == Whole(buffer' \o wire')
  <2>1. q # <<>> /\ Front(q) \in Seq(Texts) /\ Last(q) \in Texts /\ delivered' = delivered
    BY <1>1 DEF Connection!Post, Held, Bytes, Front, Last, Connection!Front, Connection!Last
  <2>2. q \in Seq(Seq(Tokens))
    <3>1. buffer' \o wire' \in Seq(Tokens)
      BY DEF SocketInv
    <3> QED BY <3>1, WholeAt
  <2> HIDE DEF q
  <2>3. ASSUME NEW i \in 1 .. Len(q) PROVE q[i] \in Texts
    <3>1. CASE i = Len(q)
      BY <2>1, <3>1 DEF Last
    <3>2. CASE i # Len(q)
      <4>1. i \in 1 .. Len(q) - 1 /\ Len(Front(q)) = Len(q) - 1 /\ Front(q)[i] = q[i]
        BY <2>1, <2>2, <3>2 DEF Front
      <4> QED BY <2>1, <4>1
    <3> QED BY <3>1, <3>2
  <2>4. q \in Seq(Texts)
    <3>1. Len(q) \in Nat /\ q \in [1 .. Len(q) -> Seq(Tokens)]
      BY <2>2
    <3>2. q \in [1 .. Len(q) -> Texts]
      BY <2>3, <3>1
    <3> QED BY <3>1, <3>2, SeqDef
  <2> QED BY <2>1, <2>4 DEF Held, Bytes, q
<1>2. CASE Connection!Deliver
  BY <1>2 DEF Connection!Deliver, Held, Bytes
<1>3. CASE Connection!Close
  BY <1>3 DEF Connection!Close, Held, Bytes
<1>4. CASE Connection!Fail \/ UNCHANGED Connection!vars
  BY <1>4 DEF Connection!Fail, Connection!vars, Held, Bytes
<1> QED BY <1>1, <1>2, <1>3, <1>4 DEF Connection!Next

\* What is read was written: every text that was read is one of the texts.
LEMMA OnlyTextsAreRead == Spec => []Held
<1>1. Init => SocketInv /\ Held
  <2>1. Connection!Init => Held
    BY DEF Connection!Init, Held, Bytes
  <2> QED BY <2>1, SocketInit
<1>2. SocketInv /\ Held /\ [Next]_vars => SocketInv' /\ Held'
  BY SocketNext, HeldStays
<1> QED BY <1>1, <1>2, PTL DEF Spec

\* Whatever the pieces in which it arrives and whatever memory held, every move
\* that the server or a client reads is the move that was sent.
THEOREM MovesDecodedAsSent == Spec => []DecodedAsSent
<1>1. Moves \subseteq Seq(Modifiers)
  BY MovesAssumption DEF Modifiers
<1>2. DecodedAsSent
  BY <1>1, DecodedMove DEF DecodedAsSent
<1> QED BY <1>2, PTL

\* In every text that is read, sent by a client of any make, only the last
\* modifier may hold what was never set, and none does in a text of numbers, two
\* by two, with any blanks.
THEOREM UnsetAlwaysAtEnd == Spec => []UnsetOnlyAtEnd
<1>1. Held => UnsetOnlyAtEnd
  <2>1. SUFFICES ASSUME Held, NEW text \in ToSet(delivered)
                 PROVE  /\ \A d, e \in DecodeMove(text) :
                             Len(d) = Len(e) /\ (d # <<>> => Front(d) = Front(e))
                        /\ IsPlain(text) /\ Numbers(text) # {}
                             /\ Cardinality(Numbers(text)) % 2 = 0
                             => Cardinality(DecodeMove(text)) = 1
    BY DEF UnsetOnlyAtEnd
  <2>2. text \in Seq(TextTokens)
    <3>1. text \in Texts
      BY <2>1 DEF Held, ToSet
    <3> QED BY <3>1, TokensAssumption
  <2> QED BY <2>2, ReadTogether, ReadAsOne
<1> QED BY <1>1, OnlyTextsAreRead, PTL
====
