---- MODULE GameState_proof ----
(***************************************************************************)
(* The levels of visited marks and of results are those of the modifiers   *)
(* applied and of the conditions being run, for all games: LevelsMatch.    *)
(*                                                                         *)
(* LevelsMatch is not inductive: that a call pops what it pushed needs     *)
(* that the stack of calls holds a frame for each modifier applied, but    *)
(* for the switch and the modifiers a successful RunAndApplyFirst leaves   *)
(* behind.  Which calls those are depends on the mode a frame was called   *)
(* in, so LevelsInv says what the mode of each frame is: RunAndFindEnd     *)
(* above the first condition, and that of the search below it.             *)
(*                                                                         *)
(* The lemmas about the actions at the end are for the proofs that build   *)
(* on this one (GameUndo_proof, GameTypes_proof).                          *)
(***************************************************************************)
EXTENDS GameState, FiniteSetTheorems, SequenceTheorems, TLAPS

IsSeq(s) == s \in Seq({s[i] : i \in DOMAIN s})

IsCall(c) == c = [at |-> c.at, mode |-> c.mode, vertex |-> c.vertex]

IsFrame(f) ==
  \/ f.kind = "branch" /\ f = [kind |-> f.kind, rest |-> f.rest, call |-> f.call] /\ IsCall(f.call)
  \/ f.kind = "condition" /\ IsCall(f.call)
  \/ f.kind \in {"shift", "modifier", "result"}

\* The mode a frame's call was made in.
FrameMode(f) == IF f.kind \in {"branch", "condition"} THEN f.call.mode ELSE f.mode

\* The mode of what is called at place i of a stack, in a search of mode base.
Mode(stack, i, base) ==
  IF \E j \in OfKind(stack, "condition") : j < i THEN "FindEnd" ELSE base

TopMode(stack, base) == Mode(stack, Len(stack) + 1, base)

FramesOK(stack, base) ==
  \A i \in DOMAIN stack :
    IsFrame(stack[i]) /\ (stack[i].kind # "result" => FrameMode(stack[i]) = Mode(stack, i, base))

Base == IF operation = "Moves" THEN "Run" ELSE "ApplyFirst"

\* A RunAndApplyFirst that has succeeded is coming back.
Succeeding == phase = "return" /\ value /\ call.mode = "ApplyFirst"

Modifiers == Cardinality(OfKind(frames, "modifier"))

\* The loops of the API's methods.
LoopPhases == {"closure", "apply", "revert"}

LevelsInv ==
  /\ phase \in {"idle", "call", "return"} \cup LoopPhases /\ value \in BOOLEAN
  /\ IsSeq(frames) /\ IsSeq(visited) /\ IsSeq(results) /\ IsSeq(applied)
  /\ IsCall(call) /\ FramesOK(frames, Base)
  /\ phase = "call" \/ (phase = "return" /\ value) => call.mode = TopMode(frames, Base)
  /\ IF Succeeding THEN Len(applied) >= Modifiers ELSE Len(applied) = Modifiers
  /\ phase \in {"idle"} \cup LoopPhases => frames = <<>>
  /\ phase \in LoopPhases => operation # "Moves"
  /\ LevelsMatch

----
\* The stacks.
LEMMA IsSeqFacts ==
  ASSUME NEW s, IsSeq(s)
  PROVE  /\ Len(s) \in Nat /\ DOMAIN s = 1 .. Len(s)
         /\ s = <<>> <=> Len(s) = 0
  BY DEF IsSeq

LEMMA IsSeqIntro ==
  ASSUME NEW S, NEW s \in Seq(S)
  PROVE  IsSeq(s)
<1>1. /\ Len(s) \in Nat /\ DOMAIN s = 1 .. Len(s)
      /\ s = [i \in 1 .. Len(s) |-> s[i]]
  OBVIOUS
<1>2. s \in [1 .. Len(s) -> {s[i] : i \in DOMAIN s}]
  BY <1>1
<1> QED BY <1>1, <1>2, SeqDef DEF IsSeq

\* Append adds one place at the top.
LEMMA Pushed ==
  ASSUME NEW s, IsSeq(s), NEW e
  PROVE  LET t == Append(s, e)
         IN  /\ IsSeq(t) /\ Len(t) = Len(s) + 1 /\ t[Len(t)] = e
             /\ \A i \in 1 .. Len(s) : t[i] = s[i]
<1> DEFINE S == {s[i] : i \in DOMAIN s}
           T == S \cup {e}
<1>1. s \in Seq(T) /\ e \in T
  BY SeqMonotonic, S \subseteq T DEF IsSeq
<1>2. Append(s, e) \in Seq(T)
  BY <1>1
<1>3. IsSeq(Append(s, e))
  BY <1>2, IsSeqIntro
<1> QED BY <1>1, <1>3

\* Front takes the top place away.
LEMMA Popped ==
  ASSUME NEW s, IsSeq(s), s # <<>>
  PROVE  LET t == Front(s)
         IN  /\ IsSeq(t) /\ Len(t) = Len(s) - 1 /\ Last(s) = s[Len(s)]
             /\ Len(s) >= 1
             /\ \A i \in 1 .. Len(t) : t[i] = s[i]
<1> DEFINE S == {s[i] : i \in DOMAIN s}
<1>1. s \in Seq(S) /\ Len(s) \in Nat /\ Len(s) >= 1
  BY DEF IsSeq
<1>2. /\ SubSeq(s, 1, Len(s) - 1) \in Seq(S)
      /\ Len(SubSeq(s, 1, Len(s) - 1)) = Len(s) - 1
      /\ \A i \in 1 .. Len(s) - 1 : SubSeq(s, 1, Len(s) - 1)[i] = s[i]
  <2> DEFINE n == Len(s) - 1
  <2>1. n \in Nat /\ \A i \in 1 .. n : s[i] \in S
    BY <1>1
  <2>2. /\ SubSeq(s, 1, n) \in Seq(S)
        /\ Len(SubSeq(s, 1, n)) = IF 1 <= n THEN n - 1 + 1 ELSE 0
        /\ \A i \in 1 .. n - 1 + 1 : SubSeq(s, 1, n)[i] = s[1 + i - 1]
    <3> HIDE DEF S, n
    <3> QED BY <2>1, SubSeqProperties, 1 \in Int, n \in Int
  <2>3. n - 1 + 1 = n /\ \A i \in 1 .. n : 1 + i - 1 = i
    BY <2>1
  <2>4. Len(SubSeq(s, 1, n)) = n
    <3> HIDE DEF n, S
    <3> QED BY <2>1, <2>2, <2>3
  <2>5. \A i \in 1 .. n : SubSeq(s, 1, n)[i] = s[i]
    <3> HIDE DEF n, S
    <3> QED BY <2>2, <2>3
  <2> HIDE DEF S
  <2> QED BY <2>2, <2>4, <2>5
<1>3. IsSeq(SubSeq(s, 1, Len(s) - 1))
  BY <1>2, IsSeqIntro
<1> QED BY <1>1, <1>2, <1>3 DEF Front, Last

\* Setting a mark leaves the levels.
LEMMA Marked ==
  ASSUME NEW s, IsSeq(s), NEW m
  PROVE  IsSeq(WithMark(s, m)) /\ Len(WithMark(s, m)) = Len(s)
<1> DEFINE S == {s[i] : i \in DOMAIN s}
           T == S \cup {s[Len(s)] \cup {m}}
<1>1. s \in Seq(T) /\ s[Len(s)] \cup {m} \in T
  BY SeqMonotonic, S \subseteq T DEF IsSeq
<1>2. WithMark(s, m) \in Seq(T) /\ Len(WithMark(s, m)) = Len(s)
  <2>1. CASE Len(s) = 0
    <3>1. s = <<>>
      BY <1>1, <2>1
    <3>2. WithMark(s, m) = s
      BY <3>1 DEF WithMark
    <3> QED BY <1>1, <3>2
  <2>2. CASE Len(s) # 0
    BY <1>1, <2>2 DEF WithMark
  <2> QED BY <2>1, <2>2
<1> QED BY <1>2, IsSeqIntro

----
\* The frames of a kind.
LEMMA KindsFinite ==
  ASSUME NEW s, IsSeq(s), NEW kind
  PROVE  /\ IsFiniteSet(OfKind(s, kind)) /\ Cardinality(OfKind(s, kind)) \in Nat
         /\ OfKind(s, kind) \subseteq 1 .. Len(s)
         /\ s = <<>> => OfKind(s, kind) = {} /\ Cardinality(OfKind(s, kind)) = 0
         /\ OfKind(s, kind) # {} => Cardinality(OfKind(s, kind)) >= 1
<1>1. Len(s) \in Nat /\ OfKind(s, kind) \subseteq 1 .. Len(s)
  BY IsSeqFacts DEF OfKind
<1>2. IsFiniteSet(OfKind(s, kind))
  <2>1. IsFiniteSet(1 .. Len(s))
    BY <1>1, FS_Interval, 1 \in Int, Len(s) \in Int
  <2> QED BY <1>1, <2>1, FS_Subset
<1>3. Cardinality(OfKind(s, kind)) \in Nat
  BY <1>2, FS_CardinalityType
<1>4. s = <<>> => OfKind(s, kind) = {}
  BY <1>1
<1> QED BY <1>1, <1>2, <1>3, <1>4, FS_EmptySet

LEMMA KindsPushed ==
  ASSUME NEW s, IsSeq(s), NEW f, NEW kind
  PROVE  /\ OfKind(Append(s, f), kind) =
              OfKind(s, kind) \cup {i \in {Len(s) + 1} : f.kind = kind}
         /\ Cardinality(OfKind(Append(s, f), kind)) =
              Cardinality(OfKind(s, kind)) + (IF f.kind = kind THEN 1 ELSE 0)
<1> DEFINE t == Append(s, f)
<1>1. /\ Len(s) \in Nat /\ DOMAIN s = 1 .. Len(s) /\ DOMAIN t = 1 .. Len(s) + 1
      /\ t[Len(s) + 1] = f /\ \A i \in 1 .. Len(s) : t[i] = s[i]
  BY Pushed, IsSeqFacts
<1>2. OfKind(t, kind) = OfKind(s, kind) \cup {i \in {Len(s) + 1} : f.kind = kind}
  BY <1>1 DEF OfKind
<1>3. Len(s) + 1 \notin OfKind(s, kind)
  BY <1>1 DEF OfKind
<1>4. CASE f.kind = kind
  <2>1. OfKind(t, kind) = OfKind(s, kind) \cup {Len(s) + 1}
    BY <1>2, <1>4
  <2>2. IsFiniteSet(OfKind(s, kind))
    BY KindsFinite
  <2>3. Cardinality(OfKind(t, kind)) = Cardinality(OfKind(s, kind)) + 1
    BY <1>3, <2>1, <2>2, FS_AddElement
  <2> QED BY <1>2, <1>4, <2>3
<1>5. CASE f.kind # kind
  <2>1. OfKind(t, kind) = OfKind(s, kind)
    BY <1>2, <1>5
  <2>2. Cardinality(OfKind(s, kind)) \in Nat
    BY KindsFinite
  <2>3. Cardinality(OfKind(t, kind)) = Cardinality(OfKind(s, kind)) + 0
    BY <2>1, <2>2
  <2> QED BY <1>2, <1>5, <2>3
<1> QED BY <1>4, <1>5

LEMMA KindsPopped ==
  ASSUME NEW s, IsSeq(s), s # <<>>, NEW kind
  PROVE  /\ OfKind(s, kind) =
              OfKind(Front(s), kind) \cup {i \in {Len(s)} : Last(s).kind = kind}
         /\ Cardinality(OfKind(s, kind)) =
              Cardinality(OfKind(Front(s), kind)) + (IF Last(s).kind = kind THEN 1 ELSE 0)
<1> DEFINE t == Front(s)
<1>1. /\ IsSeq(t) /\ Len(t) = Len(s) - 1 /\ Last(s) = s[Len(s)]
      /\ Len(s) \in Nat /\ Len(s) >= 1
      /\ DOMAIN s = 1 .. Len(s) /\ DOMAIN t = 1 .. Len(s) - 1
      /\ \A i \in 1 .. Len(s) - 1 : t[i] = s[i]
  BY Popped, IsSeqFacts
<1>2. OfKind(s, kind) = OfKind(t, kind) \cup {i \in {Len(s)} : Last(s).kind = kind}
  BY <1>1 DEF OfKind
<1>3. Len(s) \notin OfKind(t, kind)
  BY <1>1 DEF OfKind
<1>4. CASE Last(s).kind = kind
  <2>1. OfKind(s, kind) = OfKind(t, kind) \cup {Len(s)}
    BY <1>2, <1>4
  <2>2. IsFiniteSet(OfKind(t, kind))
    BY <1>1, KindsFinite
  <2>3. Cardinality(OfKind(s, kind)) = Cardinality(OfKind(t, kind)) + 1
    BY <1>3, <2>1, <2>2, FS_AddElement
  <2> QED BY <1>2, <1>4, <2>3
<1>5. CASE Last(s).kind # kind
  <2>1. OfKind(s, kind) = OfKind(t, kind)
    BY <1>2, <1>5
  <2>2. Cardinality(OfKind(t, kind)) \in Nat
    BY <1>1, KindsFinite
  <2>3. Cardinality(OfKind(s, kind)) = Cardinality(OfKind(t, kind)) + 0
    BY <2>1, <2>2
  <2> QED BY <1>2, <1>5, <2>3
<1> QED BY <1>4, <1>5
----
\* The modes of the frames.
LEMMA FramesPushed ==
  ASSUME NEW s, IsSeq(s), NEW base, FramesOK(s, base), NEW f, IsFrame(f),
         f.kind # "result" => FrameMode(f) = TopMode(s, base)
  PROVE  /\ IsSeq(Append(s, f)) /\ FramesOK(Append(s, f), base)
         /\ TopMode(Append(s, f), base) =
              IF f.kind = "condition" THEN "FindEnd" ELSE TopMode(s, base)
<1> DEFINE t == Append(s, f)
           C  == OfKind(s, "condition")
           D  == OfKind(t, "condition")
<1>1. /\ Len(s) \in Nat /\ DOMAIN s = 1 .. Len(s)
      /\ Len(t) = Len(s) + 1 /\ DOMAIN t = 1 .. Len(s) + 1
      /\ t[Len(s) + 1] = f /\ \A i \in 1 .. Len(s) : t[i] = s[i]
      /\ IsSeq(t)
  BY Pushed, IsSeqFacts
<1>2. C \subseteq 1 .. Len(s) /\ D = C \cup {i \in {Len(s) + 1} : f.kind = "condition"}
  BY KindsFinite, KindsPushed
<1>3. ASSUME NEW i \in 1 .. Len(s) + 1
      PROVE  Mode(t, i, base) = Mode(s, i, base)
  <2>1. \A j : j \in D /\ j < i <=> j \in C /\ j < i
    BY <1>1, <1>2
  <2> QED BY <2>1 DEF Mode
<1>4. FramesOK(t, base)
  <2> SUFFICES ASSUME NEW i \in 1 .. Len(s) + 1
               PROVE  /\ IsFrame(t[i])
                      /\ t[i].kind # "result" => FrameMode(t[i]) = Mode(t, i, base)
    BY <1>1 DEF FramesOK
  <2>1. CASE i = Len(s) + 1
    BY <2>1, <1>1, <1>3 DEF TopMode
  <2>2. CASE i # Len(s) + 1
    <3>1. i \in 1 .. Len(s)
      BY <2>2, <1>1
    <3> QED BY <3>1, <1>1, <1>3 DEF FramesOK
  <2> QED BY <2>1, <2>2
<1>5. TopMode(t, base) = IF f.kind = "condition" THEN "FindEnd" ELSE TopMode(s, base)
  <2>1. (\E j \in D : j < Len(t) + 1) <=> D # {}
    BY <1>1, <1>2
  <2>2. (\E j \in C : j < Len(s) + 1) <=> C # {}
    BY <1>1, <1>2
  <2> QED BY <1>2, <2>1, <2>2 DEF TopMode, Mode
<1> QED BY <1>1, <1>4, <1>5

LEMMA FramesPopped ==
  ASSUME NEW s, IsSeq(s), s # <<>>, NEW base, FramesOK(s, base)
  PROVE  /\ IsSeq(Front(s)) /\ FramesOK(Front(s), base)
         /\ IsFrame(Last(s))
         /\ Last(s).kind # "result" => FrameMode(Last(s)) = TopMode(Front(s), base)
         /\ TopMode(s, base) =
              IF Last(s).kind = "condition" THEN "FindEnd" ELSE TopMode(Front(s), base)
<1> DEFINE t == Front(s)
           C  == OfKind(s, "condition")
           D  == OfKind(t, "condition")
<1>1. /\ IsSeq(t) /\ Len(s) \in Nat /\ Len(s) >= 1
      /\ DOMAIN s = 1 .. Len(s) /\ DOMAIN t = 1 .. Len(s) - 1
      /\ Len(t) = Len(s) - 1 /\ Last(s) = s[Len(s)]
      /\ \A i \in 1 .. Len(s) - 1 : t[i] = s[i]
  BY Popped, IsSeqFacts
<1>2. /\ D \subseteq 1 .. Len(s) - 1
      /\ C = D \cup {i \in {Len(s)} : Last(s).kind = "condition"}
  BY <1>1, KindsFinite, KindsPopped
<1>3. ASSUME NEW i \in 1 .. Len(s)
      PROVE  Mode(t, i, base) = Mode(s, i, base)
  <2>1. \A j : j \in D /\ j < i <=> j \in C /\ j < i
    BY <1>1, <1>2
  <2> QED BY <2>1 DEF Mode
<1>4. FramesOK(t, base)
  BY <1>1, <1>3 DEF FramesOK
<1>5. IsFrame(Last(s)) /\ (Last(s).kind # "result" => FrameMode(Last(s)) = TopMode(t, base))
  <2>1. /\ IsFrame(s[Len(s)])
        /\ s[Len(s)].kind # "result" => FrameMode(s[Len(s)]) = Mode(s, Len(s), base)
    BY <1>1 DEF FramesOK
  <2>2. TopMode(t, base) = Mode(s, Len(s), base)
    BY <1>1, <1>3 DEF TopMode
  <2> QED BY <1>1, <2>1, <2>2
<1>6. TopMode(s, base) = IF Last(s).kind = "condition" THEN "FindEnd" ELSE TopMode(t, base)
  <2>1. (\E j \in C : j < Len(s) + 1) <=> C # {}
    BY <1>1, <1>2
  <2>2. (\E j \in D : j < Len(t) + 1) <=> D # {}
    BY <1>1, <1>2
  <2> QED BY <1>2, <2>1, <2>2 DEF TopMode, Mode
<1> QED BY <1>1, <1>4, <1>5, <1>6

\* With no frame there is no condition above the search.
LEMMA NoFrames ==
  ASSUME NEW base
  PROVE  /\ IsSeq(<<>>) /\ FramesOK(<<>>, base) /\ TopMode(<<>>, base) = base
         /\ Cardinality(OfKind(<<>>, "modifier")) = 0
         /\ Cardinality(OfKind(<<>>, "condition")) = 0
<1>1. IsSeq(<<>>)
  BY DEF IsSeq
<1>2. OfKind(<<>>, "condition") = {}
  BY DEF OfKind
<1>3. OfKind(<<>>, "modifier") = {}
  BY DEF OfKind
<1>4. Cardinality({}) = 0
  BY FS_EmptySet
<1>5. FramesOK(<<>>, base)
  BY DEF FramesOK
<1>6. TopMode(<<>>, base) = base
  BY <1>2 DEF TopMode, Mode
<1> QED BY <1>1, <1>2, <1>3, <1>4, <1>5, <1>6
----
\* The steps of a call.

\* Going on in a block, or coming back from it, leaves the frames.
LEMMA GoesOn ==
  ASSUME LevelsInv, phase = "call", UNCHANGED <<frames, results, applied, operation>>,
         IsSeq(visited'), Len(visited') = Len(visited),
         \/ phase' = "call" /\ value' = value /\ IsCall(call') /\ call'.mode = call.mode
         \/ phase' = "return" /\ value' \in BOOLEAN /\ call' = call
  PROVE  LevelsInv'
<1>1. Len(applied) = Modifiers /\ call.mode = TopMode(frames, Base)
  BY DEF LevelsInv, Succeeding
<1>2. Modifiers' = Modifiers /\ Base' = Base
  BY DEF Modifiers, Base
<1>3. Modifiers \in Nat
  BY KindsFinite DEF LevelsInv, Modifiers
<1>4. IF Succeeding' THEN Len(applied') >= Modifiers' ELSE Len(applied') = Modifiers'
  BY <1>1, <1>2, <1>3
<1>5. LevelsMatch'
  BY DEF LevelsInv, LevelsMatch
<1> QED BY <1>1, <1>2, <1>4, <1>5 DEF LevelsInv, LoopPhases

\* A call that has work left leaves a frame; a modifier's comes with a level of
\* each stack, a condition's with one of marks.
LEMMA Enters ==
  ASSUME LevelsInv, phase = "call", NEW f, IsFrame(f),
         f.kind # "result" => FrameMode(f) = call.mode,
         frames' = Append(frames, f), phase' = "call", value' = value, operation' = operation,
         IsCall(call'), call'.mode = IF f.kind = "condition" THEN "FindEnd" ELSE call.mode,
         IsSeq(visited'), IsSeq(results'), IsSeq(applied'),
         Len(applied') = Len(applied) + (IF f.kind = "modifier" THEN 1 ELSE 0),
         Len(results') = Len(results) + (IF f.kind = "modifier" THEN 1 ELSE 0),
         Len(visited') =
           Len(visited) + (IF f.kind \in {"modifier", "condition"} THEN 1 ELSE 0)
  PROVE  LevelsInv'
<1>1. /\ Len(applied) = Modifiers /\ call.mode = TopMode(frames, Base)
      /\ IsSeq(frames) /\ FramesOK(frames, Base) /\ LevelsMatch
  BY DEF LevelsInv, Succeeding
<1>2. Base' = Base
  BY DEF Base
<1>3. /\ IsSeq(frames') /\ FramesOK(frames', Base)
      /\ TopMode(frames', Base) = IF f.kind = "condition" THEN "FindEnd" ELSE TopMode(frames, Base)
  BY <1>1, FramesPushed
<1>4. /\ Modifiers' = Modifiers + (IF f.kind = "modifier" THEN 1 ELSE 0)
      /\ Cardinality(OfKind(frames', "condition")) =
           Cardinality(OfKind(frames, "condition")) + (IF f.kind = "condition" THEN 1 ELSE 0)
  BY <1>1, KindsPushed DEF Modifiers
<1>5. /\ Len(applied) \in Nat /\ Len(results) \in Nat /\ Len(visited) \in Nat
      /\ Cardinality(OfKind(frames, "condition")) \in Nat
  BY <1>1, IsSeqFacts, KindsFinite DEF LevelsInv
<1>6. LevelsMatch'
  BY <1>1, <1>4, <1>5, SMTT(30) DEF LevelsMatch
<1>7. ~Succeeding' /\ Len(applied') = Modifiers'
  BY <1>1, <1>4 DEF Succeeding
<1>8. call'.mode = TopMode(frames', Base)
  BY <1>1, <1>3
<1> QED BY <1>2, <1>3, <1>6, <1>7, <1>8 DEF LevelsInv, LoopPhases

\* A call that has come back takes its frame away, and its levels unless it is
\* a modifier that a successful RunAndApplyFirst leaves.
LEMMA ComesBack ==
  ASSUME LevelsInv, phase = "return", frames # <<>>,
         frames' = Front(frames), operation' = operation,
         IsSeq(visited'), IsSeq(results'), IsSeq(applied'), NEW f, f = Last(frames),
         \/ /\ f.kind = "condition"
            /\ Len(visited') = Len(visited) - 1
            /\ Len(results') = Len(results) /\ Len(applied') = Len(applied)
            /\ \/ phase' = "return" /\ value' = FALSE /\ call' = call
               \/ phase' = "call" /\ value' = value /\ call' = f.call
         \/ /\ f.kind = "modifier" /\ ~Succeeding /\ UNCHANGED <<phase, call, value>>
            /\ Len(visited') = Len(visited) - 1
            /\ Len(results') = Len(results) - 1 /\ Len(applied') = Len(applied) - 1
         \/ /\ f.kind # "condition" /\ (f.kind = "modifier" => Succeeding)
            /\ UNCHANGED <<phase, call, value>>
            /\ Len(visited') = Len(visited)
            /\ Len(results') = Len(results) /\ Len(applied') = Len(applied)
  PROVE  LevelsInv'
<1>1. /\ IsSeq(frames) /\ FramesOK(frames, Base) /\ LevelsMatch
      /\ value => call.mode = TopMode(frames, Base)
      /\ IF Succeeding THEN Len(applied) >= Modifiers ELSE Len(applied) = Modifiers
      /\ value \in BOOLEAN /\ IsCall(call)
  BY DEF LevelsInv
<1>2. Base' = Base
  BY DEF Base
<1>3. /\ IsSeq(frames') /\ FramesOK(frames', Base) /\ IsFrame(f)
      /\ f.kind # "result" => FrameMode(f) = TopMode(frames', Base)
      /\ TopMode(frames, Base) = IF f.kind = "condition" THEN "FindEnd" ELSE TopMode(frames', Base)
  BY <1>1, FramesPopped
<1>4. /\ f.kind = "modifier" => Modifiers = Modifiers' + 1
      /\ f.kind # "modifier" => Modifiers = Modifiers' + 0
      /\ f.kind = "condition" => Cardinality(OfKind(frames, "condition")) =
                                  Cardinality(OfKind(frames', "condition")) + 1
      /\ f.kind # "condition" => Cardinality(OfKind(frames, "condition")) =
                                  Cardinality(OfKind(frames', "condition")) + 0
  BY <1>1, KindsPopped DEF Modifiers
<1>5. /\ Len(applied) \in Nat /\ Len(results) \in Nat /\ Len(visited) \in Nat
      /\ Cardinality(OfKind(frames, "condition")) \in Nat /\ Modifiers \in Nat
      /\ Cardinality(OfKind(frames', "condition")) \in Nat /\ Modifiers' \in Nat
  BY <1>1, <1>3, IsSeqFacts, KindsFinite DEF LevelsInv, Modifiers
<1>6. LevelsMatch'
  BY <1>1, <1>4, <1>5, SMTT(30) DEF LevelsMatch
<1>7. f.kind = "condition" => ~Succeeding
  BY <1>1, <1>3 DEF Succeeding
<1>8. IF Succeeding' THEN Len(applied') >= Modifiers' ELSE Len(applied') = Modifiers'
  <2>1. CASE f.kind = "condition"
    <3>1. ~Succeeding' /\ Len(applied) = Modifiers
      BY <1>1, <1>7, <2>1 DEF Succeeding
    <3>2. Modifiers = Modifiers' /\ Len(applied') = Len(applied)
      BY <1>4, <1>5, <2>1 DEF Modifiers
    <3> QED BY <3>1, <3>2
  <2>2. CASE f.kind # "condition"
    <3>1. Succeeding' = Succeeding
      BY <2>2 DEF Succeeding
    <3>2. CASE f.kind = "modifier" /\ ~Succeeding
      <4>1. Len(applied) = Modifiers /\ Modifiers = Modifiers' + 1 /\ Len(applied') = Len(applied) - 1
        BY <1>1, <1>4, <3>2
      <4>2. Len(applied') = Modifiers'
        BY <1>5, <4>1 DEF Modifiers
      <4> QED BY <3>1, <3>2, <4>2
    <3>3. CASE f.kind = "modifier" /\ Succeeding
      <4>1. Len(applied) >= Modifiers /\ Modifiers = Modifiers' + 1 /\ Len(applied') = Len(applied)
        BY <1>1, <1>4, <3>3
      <4>2. Len(applied') >= Modifiers'
        BY <1>5, <4>1
      <4> QED BY <3>1, <3>3, <4>2
    <3>4. CASE f.kind # "modifier"
      <4>1. Modifiers = Modifiers' /\ Len(applied') = Len(applied)
        BY <1>4, <1>5, <2>2, <3>4 DEF Modifiers
      <4> QED BY <1>1, <3>1, <4>1
    <3> QED BY <3>2, <3>3, <3>4
  <2> QED BY <2>1, <2>2
<1>9. f.kind = "condition" => IsCall(f.call) /\ f.call.mode = TopMode(frames', Base)
  BY <1>3 DEF IsFrame, FrameMode
<1>10. IsCall(call') /\ value' \in BOOLEAN /\ phase' \in {"call", "return"}
  BY <1>1, <1>9
<1>11. phase' = "call" \/ value' => call'.mode = TopMode(frames', Base)
  BY <1>1, <1>3, <1>9
<1> QED BY <1>2, <1>3, <1>6, <1>8, <1>10, <1>11 DEF LevelsInv, LoopPhases
----
\* A call keeps its form when it is moved.
LEMMA CallMoved ==
  ASSUME NEW c, IsCall(c), NEW at, NEW vertex
  PROVE  /\ IsCall([c EXCEPT !.at = at]) /\ [c EXCEPT !.at = at].mode = c.mode
         /\ IsCall([c EXCEPT !.vertex = vertex]) /\ [c EXCEPT !.vertex = vertex].mode = c.mode
<1>1. c = [at |-> c.at, mode |-> c.mode, vertex |-> c.vertex]
  BY DEF IsCall
<1>2. [c EXCEPT !.at = at] = [at |-> at, mode |-> c.mode, vertex |-> c.vertex]
  BY <1>1
<1>3. [c EXCEPT !.vertex = vertex] = [at |-> c.at, mode |-> c.mode, vertex |-> vertex]
  BY <1>1
<1> QED BY <1>2, <1>3 DEF IsCall

LEMMA FollowingCall ==
  ASSUME IsCall(call)
  PROVE  IsCall(Following) /\ Following.mode = call.mode
<1>1. Following = [call EXCEPT !.at = [call.at EXCEPT ![2] = @ + 1]]
  BY DEF Following
<1> HIDE DEF Following
<1> QED BY <1>1, CallMoved

\* What LevelsInv says of every state, in the words the steps use.
LEMMA LevelsFacts ==
  ASSUME LevelsInv
  PROVE  /\ IsSeq(frames) /\ IsSeq(visited) /\ IsSeq(results) /\ IsSeq(applied)
         /\ IsCall(call) /\ value \in BOOLEAN
         /\ Len(applied) \in Nat /\ Len(results) = 1 + Len(applied)
         /\ Len(visited) >= Len(results) /\ Len(visited) \in Nat
         /\ visited # <<>> /\ results # <<>>
<1>1. /\ Len(results) = 1 + Len(applied)
      /\ Len(visited) = Len(results) + Cardinality(OfKind(frames, "condition"))
      /\ Cardinality(OfKind(frames, "condition")) \in Nat
  BY KindsFinite DEF LevelsInv, LevelsMatch
<1>2. Len(applied) \in Nat /\ Len(results) \in Nat /\ Len(visited) \in Nat
  BY IsSeqFacts DEF LevelsInv
<1>3. Len(<<>>) = 0
  OBVIOUS
<1> QED BY <1>1, <1>2, <1>3 DEF LevelsInv

LEMMA TestStep ==
  ASSUME LevelsInv, RunTest \/ RunVisitedCheck \/ RunSwitch
  PROVE  LevelsInv'
<1>1. phase = "call" /\ UNCHANGED <<frames, results, applied, operation>>
  BY DEF RunTest, RunVisitedCheck, RunSwitch, At, searchVars, apiVars
<1>2. IsSeq(visited') /\ Len(visited') = Len(visited)
  <2>1. CASE RunVisitedCheck
    BY <2>1, LevelsFacts, Marked DEF RunVisitedCheck
  <2>2. CASE RunTest \/ RunSwitch
    BY <2>2, LevelsFacts, Zenon DEF RunTest, RunSwitch, searchVars
  <2> QED BY <2>1, <2>2
<1>3. \/ phase' = "call" /\ value' = value /\ call' = Following
      \/ phase' = "return" /\ value' = FALSE /\ call' = call
  BY DEF RunTest, RunVisitedCheck, RunSwitch, Calls, Returns
<1>4. IsCall(Following) /\ Following.mode = call.mode
  BY LevelsFacts, FollowingCall
<1> QED BY <1>1, <1>2, <1>3, <1>4, GoesOn

LEMMA ConditionStep ==
  ASSUME LevelsInv, RunCondition
  PROVE  LevelsInv'
<1> DEFINE f == [kind |-> "condition", negated |-> Action.negated, call |-> Following]
<1>1. /\ phase = "call" /\ frames' = Append(frames, f) /\ phase' = "call" /\ value' = value
      /\ call' = [at |-> <<Action.initial, 1>>, mode |-> "FindEnd", vertex |-> 0]
      /\ visited' = Append(visited, {}) /\ UNCHANGED <<results, applied, operation>>
  BY DEF RunCondition, At, PushFrame, Calls, Push, apiVars
<1>2. IsCall(Following) /\ Following.mode = call.mode
  BY LevelsFacts, FollowingCall
<1>3. f.kind = "condition" /\ IsFrame(f) /\ FrameMode(f) = call.mode
  BY <1>2 DEF IsFrame, FrameMode
<1>4. IsCall(call') /\ call'.mode = "FindEnd"
  BY <1>1 DEF IsCall
<1>5. IsSeq(visited') /\ Len(visited') = Len(visited) + 1
  BY <1>1, LevelsFacts, Pushed
<1>6. /\ IsSeq(results') /\ IsSeq(applied')
      /\ Len(results') = Len(results) + 0 /\ Len(applied') = Len(applied) + 0
  BY <1>1, LevelsFacts
<1> HIDE DEF f
<1> QED BY <1>1, <1>3, <1>4, <1>5, <1>6, Enters, Zenon

LEMMA ConditionReturns ==
  ASSUME LevelsInv, ReturnCondition
  PROVE  LevelsInv'
<1> DEFINE f == Frame
<1>1. /\ phase = "return" /\ frames # <<>> /\ f = Last(frames) /\ f.kind = "condition"
      /\ frames' = Front(frames) /\ operation' = operation
      /\ visited' = Front(visited) /\ UNCHANGED <<results, applied>>
  BY DEF ReturnCondition, Returning, PopFrame, Pop, Frame, apiVars
<1>2. \/ phase' = "return" /\ value' = FALSE /\ call' = call
      \/ phase' = "call" /\ value' = value /\ call' = f.call
  BY DEF ReturnCondition, Calls, Returns
<1>3. IsSeq(visited') /\ Len(visited') = Len(visited) - 1
  BY <1>1, LevelsFacts, Popped
<1>4. IsSeq(results') /\ IsSeq(applied')
      /\ Len(results') = Len(results) /\ Len(applied') = Len(applied)
  BY <1>1, LevelsFacts
<1> HIDE DEF f
<1> QED BY <1>1, <1>2, <1>3, <1>4, ComesBack

LEMMA ResultStep ==
  ASSUME LevelsInv, RunConditionVisitedCheck
  PROVE  LevelsInv'
<1> DEFINE m == Mark(Action.check)
           f == [kind |-> "result", mark |-> m]
<1>1. phase = "call" /\ UNCHANGED <<results, applied, operation>>
  BY DEF RunConditionVisitedCheck, At, apiVars
<1>2. CASE m \in Last(visited) \cup Last(results)
  <2>1. /\ UNCHANGED <<visited, frames>>
        /\ phase' = "return" /\ value' = (m \in Last(results)) /\ call' = call
    BY <1>2 DEF RunConditionVisitedCheck, Returns
  <2>2. value' \in BOOLEAN
    BY <2>1
  <2>3. IsSeq(visited') /\ Len(visited') = Len(visited)
    BY <2>1, LevelsFacts, Zenon
  <2> HIDE DEF m
  <2> QED BY <1>1, <2>1, <2>2, <2>3, GoesOn
<1>3. CASE m \notin Last(visited) \cup Last(results)
  <2>1. /\ visited' = WithMark(visited, m) /\ frames' = Append(frames, f)
        /\ phase' = "call" /\ value' = value /\ call' = Following
    BY <1>3 DEF RunConditionVisitedCheck, PushFrame, Calls
  <2>2. f.kind = "result" /\ IsFrame(f)
    BY DEF IsFrame
  <2>3. IsCall(Following) /\ Following.mode = call.mode
    BY LevelsFacts, FollowingCall
  <2>4. IsSeq(visited') /\ Len(visited') = Len(visited) + 0
    BY <2>1, LevelsFacts, Marked
  <2>5. /\ IsSeq(results') /\ IsSeq(applied')
        /\ Len(results') = Len(results) + 0 /\ Len(applied') = Len(applied) + 0
    BY <1>1, LevelsFacts
  <2> HIDE DEF f, m
  <2> QED BY <1>1, <2>1, <2>2, <2>3, <2>4, <2>5, Enters, Zenon
<1> QED BY <1>2, <1>3

LEMMA ResultReturns ==
  ASSUME LevelsInv, ReturnResult
  PROVE  LevelsInv'
<1> DEFINE f == Frame
<1>1. /\ phase = "return" /\ frames # <<>> /\ f = Last(frames) /\ f.kind = "result"
      /\ frames' = Front(frames) /\ operation' = operation
      /\ UNCHANGED <<visited, applied, phase, call, value>>
      /\ results' = results \/ results' = WithMark(results, Frame.mark)
  BY DEF ReturnResult, Returning, PopFrame, Frame, apiVars
<1>2. IsSeq(results') /\ Len(results') = Len(results)
  BY <1>1, LevelsFacts, Marked
<1>3. /\ IsSeq(visited') /\ IsSeq(applied')
      /\ Len(visited') = Len(visited) /\ Len(applied') = Len(applied)
  BY <1>1, LevelsFacts
<1>4. f.kind # "condition" /\ (f.kind = "modifier" => Succeeding)
  BY <1>1
<1> HIDE DEF f
<1> QED BY <1>1, <1>2, <1>3, <1>4, ComesBack

LEMMA ShiftStep ==
  ASSUME LevelsInv, RunShift
  PROVE  LevelsInv'
<1> DEFINE f == [kind |-> "shift", mode |-> call.mode, action |-> Action,
                 saved |-> Saved(Action, position)]
<1>1. /\ phase = "call" /\ frames' = Append(frames, f) /\ phase' = "call" /\ value' = value
      /\ call' = Following /\ UNCHANGED <<visited, results, applied, operation>>
  BY DEF RunShift, At, PushFrame, Calls, apiVars
<1>2. f.kind = "shift" /\ IsFrame(f) /\ FrameMode(f) = call.mode
  BY DEF IsFrame, FrameMode
<1>3. IsCall(Following) /\ Following.mode = call.mode
  BY LevelsFacts, FollowingCall
<1>4. /\ IsSeq(visited') /\ IsSeq(results') /\ IsSeq(applied')
      /\ Len(visited') = Len(visited) + 0 /\ Len(results') = Len(results) + 0
      /\ Len(applied') = Len(applied) + 0
  BY <1>1, LevelsFacts
<1> HIDE DEF f
<1> QED BY <1>1, <1>2, <1>3, <1>4, Enters, Zenon

LEMMA ShiftReturns ==
  ASSUME LevelsInv, ReturnShift
  PROVE  LevelsInv'
<1> DEFINE f == Frame
<1>1. /\ phase = "return" /\ frames # <<>> /\ f = Last(frames) /\ f.kind = "shift"
      /\ frames' = Front(frames) /\ operation' = operation
      /\ UNCHANGED <<visited, results, applied, phase, call, value>>
  BY DEF ReturnShift, Returning, PopFrame, Frame, apiVars
<1>2. /\ IsSeq(visited') /\ IsSeq(results') /\ IsSeq(applied')
      /\ Len(visited') = Len(visited) /\ Len(results') = Len(results)
      /\ Len(applied') = Len(applied)
  BY <1>1, LevelsFacts
<1>3. f.kind # "condition" /\ (f.kind = "modifier" => Succeeding)
  BY <1>1
<1> HIDE DEF f
<1> QED BY <1>1, <1>2, <1>3, ComesBack

LEMMA ModifierStep ==
  ASSUME LevelsInv, RunModifier
  PROVE  LevelsInv'
<1> DEFINE f == [kind |-> "modifier", mode |-> call.mode, action |-> Action,
                 saved |-> Saved(Action, position)]
<1>1. /\ phase = "call" /\ frames' = Append(frames, f) /\ phase' = "call" /\ value' = value
      /\ call' = [Following EXCEPT !.vertex = position.pos] /\ UNCHANGED operation
      /\ visited' = Append(visited, {}) /\ results' = Append(results, {})
      /\ applied' = Append(applied, Here)
  BY DEF RunModifier, PushFrame, Calls, LevelPushed, Push, apiVars
<1>2. f.kind = "modifier" /\ IsFrame(f) /\ FrameMode(f) = call.mode
  BY DEF IsFrame, FrameMode
<1>3. IsCall(call') /\ call'.mode = call.mode
  BY <1>1, LevelsFacts, FollowingCall, CallMoved
<1>4. /\ IsSeq(visited') /\ IsSeq(results') /\ IsSeq(applied')
      /\ Len(visited') = Len(visited) + 1 /\ Len(results') = Len(results) + 1
      /\ Len(applied') = Len(applied) + 1
  BY <1>1, LevelsFacts, Pushed
<1> HIDE DEF f
<1> QED BY <1>1, <1>2, <1>3, <1>4, Enters

LEMMA ModifierReturns ==
  ASSUME LevelsInv, ReturnModifier
  PROVE  LevelsInv'
<1> DEFINE f == Frame
<1>1. /\ phase = "return" /\ frames # <<>> /\ f = Last(frames) /\ f.kind = "modifier"
      /\ frames' = Front(frames) /\ operation' = operation /\ UNCHANGED <<phase, call, value>>
  BY DEF ReturnModifier, Returning, PopFrame, Frame, apiVars
<1>2. f.mode = "ApplyFirst" /\ value <=> Succeeding
  <2>1. /\ IsSeq(frames) /\ FramesOK(frames, Base)
        /\ value => call.mode = TopMode(frames, Base)
    BY <1>1 DEF LevelsInv
  <2>2. f.mode = TopMode(frames, Base)
    BY <1>1, <2>1, FramesPopped DEF FrameMode
  <2> QED BY <1>1, <2>1, <2>2 DEF Succeeding
<1>3. CASE Succeeding
  <2>1. UNCHANGED <<visited, results, applied>>
    BY <1>2, <1>3 DEF ReturnModifier
  <2>2. /\ IsSeq(visited') /\ IsSeq(results') /\ IsSeq(applied')
        /\ Len(visited') = Len(visited) /\ Len(results') = Len(results)
        /\ Len(applied') = Len(applied)
    BY <2>1, LevelsFacts
  <2> HIDE DEF f
  <2> QED BY <1>1, <1>3, <2>2, ComesBack
<1>4. CASE ~Succeeding
  <2>1. visited' = Front(visited) /\ results' = Front(results) /\ applied' = Front(applied)
    BY <1>2, <1>4 DEF ReturnModifier, LevelPopped, Pop
  <2>2. applied # <<>>
    <3>1. Len(applied) = Cardinality(OfKind(frames, "modifier"))
      BY <1>4 DEF LevelsInv, Modifiers
    <3>2. Len(frames) \in OfKind(frames, "modifier")
      BY <1>1, LevelsFacts, IsSeqFacts, Popped DEF OfKind
    <3>3. Cardinality(OfKind(frames, "modifier")) >= 1
      BY <3>2, LevelsFacts, KindsFinite
    <3>4. Len(<<>>) = 0
      OBVIOUS
    <3> QED BY <3>1, <3>3, <3>4
  <2>3. /\ IsSeq(visited') /\ IsSeq(results') /\ IsSeq(applied')
        /\ Len(visited') = Len(visited) - 1 /\ Len(results') = Len(results) - 1
        /\ Len(applied') = Len(applied) - 1
    BY <2>1, <2>2, LevelsFacts, Popped
  <2> HIDE DEF f
  <2> QED BY <1>1, <1>4, <2>3, ComesBack
<1> QED BY <1>3, <1>4

\* The switch that ends a RunAndApplyFirst has a level and no frame.
LEMMA SwitchApplied ==
  ASSUME LevelsInv, ApplySwitch
  PROVE  LevelsInv'
<1>1. /\ phase = "call" /\ phase' = "return" /\ value' = TRUE /\ call' = call
      /\ call.mode = "ApplyFirst" /\ UNCHANGED <<frames, operation>>
      /\ visited' = Append(visited, {}) /\ results' = Append(results, {})
      /\ applied' = Append(applied, Here)
  BY DEF ApplySwitch, At, Returns, LevelPushed, Push, apiVars
<1>2. /\ IsSeq(visited') /\ IsSeq(results') /\ IsSeq(applied')
      /\ Len(visited') = Len(visited) + 1 /\ Len(results') = Len(results) + 1
      /\ Len(applied') = Len(applied) + 1
  BY <1>1, LevelsFacts, Pushed
<1>3. Base' = Base
  BY <1>1 DEF Base
<1>4. Succeeding' /\ ~Succeeding
  BY <1>1 DEF Succeeding
<1>5. Len(applied') >= Modifiers'
  <2>1. Len(applied) = Modifiers
    BY <1>4 DEF LevelsInv
  <2> QED BY <1>1, <1>2, <2>1, LevelsFacts DEF Modifiers
<1>6. LevelsMatch'
  <2>1. Cardinality(OfKind(frames, "condition")) \in Nat
    BY LevelsFacts, KindsFinite
  <2>2. Len(results) \in Nat
    BY LevelsFacts, IsSeqFacts
  <2> QED BY <1>1, <1>2, <2>1, <2>2, LevelsFacts DEF LevelsInv, LevelsMatch
<1>7. call.mode = TopMode(frames, Base)
  BY <1>1 DEF LevelsInv
<1> QED BY <1>1, <1>2, <1>3, <1>4, <1>5, <1>6, <1>7 DEF LevelsInv, LoopPhases

LEMMA BranchStep ==
  ASSUME LevelsInv, RunBranch
  PROVE  LevelsInv'
<1> DEFINE nexts == Block.nexts
           To(k) == [call EXCEPT !.at = <<nexts[k], 1>>]
           f == [kind |-> "branch", rest |-> Tail(nexts), call |-> call]
<1>1. phase = "call" /\ UNCHANGED <<visited, results, applied, operation>>
  BY DEF RunBranch, searchVars, apiVars
<1>2. \/ Len(nexts) = 0 /\ Returns(call.mode = "FindEnd") /\ UNCHANGED frames
      \/ Len(nexts) = 1 /\ Calls(To(1)) /\ UNCHANGED frames
      \/ Calls(To(1)) /\ PushFrame(f)
  BY DEF RunBranch
<1>3. IsCall(To(1)) /\ To(1).mode = call.mode
  BY LevelsFacts, CallMoved
<1>4. CASE Returns(call.mode = "FindEnd") /\ UNCHANGED frames
  <2>1. phase' = "return" /\ value' \in BOOLEAN /\ call' = call
    BY <1>4 DEF Returns
  <2>2. IsSeq(visited') /\ Len(visited') = Len(visited)
    BY <1>1, LevelsFacts
  <2> HIDE DEF f, To
  <2> QED BY <1>1, <1>4, <2>1, <2>2, GoesOn
<1>5. CASE Calls(To(1)) /\ UNCHANGED frames
  <2>1. phase' = "call" /\ value' = value /\ call' = To(1)
    BY <1>5, Zenon DEF Calls
  <2>2. IsSeq(visited') /\ Len(visited') = Len(visited)
    BY <1>1, LevelsFacts
  <2> HIDE DEF f, To
  <2> QED BY <1>1, <1>3, <1>5, <2>1, <2>2, GoesOn
<1>6. CASE Calls(To(1)) /\ PushFrame(f)
  <2>1. phase' = "call" /\ value' = value /\ call' = To(1) /\ frames' = Append(frames, f)
    BY <1>6 DEF Calls, PushFrame
  <2>2. f.kind = "branch" /\ IsFrame(f) /\ FrameMode(f) = call.mode
    BY LevelsFacts DEF IsFrame, FrameMode
  <2>3. /\ IsSeq(visited') /\ IsSeq(results') /\ IsSeq(applied')
        /\ Len(visited') = Len(visited) + 0 /\ Len(results') = Len(results) + 0
        /\ Len(applied') = Len(applied) + 0
    BY <1>1, LevelsFacts
  <2> HIDE DEF f, To
  <2> QED BY <1>1, <1>3, <2>1, <2>2, <2>3, Enters, Zenon
<1> QED BY <1>2, <1>4, <1>5, <1>6

LEMMA BranchReturns ==
  ASSUME LevelsInv, ReturnBranch
  PROVE  LevelsInv'
<1> DEFINE f == Frame
           g == [f EXCEPT !.rest = Tail(@)]
<1>1. /\ phase = "return" /\ frames # <<>> /\ f = Last(frames) /\ f.kind = "branch"
      /\ UNCHANGED <<visited, results, applied, operation>>
  BY DEF ReturnBranch, Returning, Frame, searchVars, apiVars
<1>2. /\ IsSeq(visited') /\ IsSeq(results') /\ IsSeq(applied')
      /\ Len(visited') = Len(visited) /\ Len(results') = Len(results)
      /\ Len(applied') = Len(applied)
  BY <1>1, LevelsFacts
<1>3. CASE value \/ f.rest = <<>>
  <2>1. frames' = Front(frames) /\ UNCHANGED <<phase, call, value>>
    BY <1>3 DEF ReturnBranch, PopFrame
  <2>2. f.kind # "condition" /\ (f.kind = "modifier" => Succeeding)
    BY <1>1
  <2> HIDE DEF f
  <2> QED BY <1>1, <1>2, <2>1, <2>2, ComesBack
<1>4. CASE ~(value \/ f.rest = <<>>)
  <2> DEFINE s == Front(frames)
  <2>1. /\ frames' = Append(s, g) /\ phase' = "call" /\ value' = value
        /\ call' = [f.call EXCEPT !.at = <<Head(f.rest), 1>>]
    BY <1>4 DEF ReturnBranch, Calls
  <2>2. /\ IsSeq(frames) /\ FramesOK(frames, Base) /\ LevelsMatch
        /\ Len(applied) = Modifiers /\ ~value
    BY <1>4, <1>1 DEF LevelsInv, Succeeding
  <2>3. /\ IsSeq(s) /\ FramesOK(s, Base) /\ IsFrame(f) /\ FrameMode(f) = TopMode(s, Base)
    BY <1>1, <2>2, FramesPopped
  <2>4. IsCall(f.call) /\ f.call.mode = TopMode(s, Base)
    BY <1>1, <2>3 DEF IsFrame, FrameMode
  <2>5. g = [kind |-> "branch", rest |-> Tail(f.rest), call |-> f.call]
    <3>1. f = [kind |-> "branch", rest |-> f.rest, call |-> f.call]
      BY <1>1, <2>3 DEF IsFrame
    <3>2. DOMAIN g = {"kind", "rest", "call"}
      <4> HIDE DEF f
      <4> QED BY <3>1
    <3>3. g.kind = "branch" /\ g.rest = Tail(f.rest) /\ g.call = f.call
      <4> HIDE DEF f
      <4> QED BY <3>1
    <3>4. g = [x \in DOMAIN f |-> g[x]]
      OBVIOUS
    <3>5. g = [x \in {"kind", "rest", "call"} |-> g[x]]
      <4> HIDE DEF g, f
      <4> QED BY <3>1, <3>4
    <3> HIDE DEF g, f
    <3> QED BY <3>2, <3>3, <3>5
  <2>6. g.kind = "branch" /\ IsFrame(g) /\ FrameMode(g) = TopMode(s, Base)
    <3> HIDE DEF g, f
    <3> QED BY <2>4, <2>5 DEF IsFrame, FrameMode
  <2>7. /\ IsSeq(frames') /\ FramesOK(frames', Base) /\ TopMode(frames', Base) = TopMode(s, Base)
    <3> HIDE DEF g, f, s
    <3> QED BY <2>1, <2>3, <2>6, FramesPushed
  <2>8. ASSUME NEW kind \in {"modifier", "condition"}
        PROVE  Cardinality(OfKind(frames', kind)) = Cardinality(OfKind(frames, kind))
    <3>1. Cardinality(OfKind(s, kind)) \in Nat
      BY <2>3, KindsFinite
    <3>2. Cardinality(OfKind(frames, kind)) = Cardinality(OfKind(s, kind)) + 0
      BY <1>1, <2>2, KindsPopped
    <3>3. Cardinality(OfKind(frames', kind)) = Cardinality(OfKind(s, kind)) + 0
      <4> HIDE DEF g, f, s
      <4> QED BY <2>1, <2>3, <2>6, KindsPushed
    <3> QED BY <3>1, <3>2, <3>3
  <2>9. LevelsMatch' /\ Len(applied') = Modifiers'
    BY <1>2, <2>2, <2>8 DEF LevelsMatch, Modifiers
  <2>10. IsCall(call') /\ call'.mode = TopMode(frames', Base)
    BY <2>1, <2>4, <2>7, CallMoved
  <2>11. ~Succeeding' /\ Base' = Base
    BY <1>1, <2>1 DEF Succeeding, Base
  <2>12. value' \in BOOLEAN
    BY <2>1, LevelsFacts
  <2> QED BY <1>2, <2>1, <2>7, <2>9, <2>10, <2>11, <2>12 DEF LevelsInv, LoopPhases
<1> QED BY <1>3, <1>4
----
\* The steps of the API: they run with no frame.

\* With no frame and nothing applied the stacks have one level each.
LEMMA Emptied ==
  ASSUME LevelsInv, frames' = <<>>, applied' = <<>>, IsCall(call'), value' \in BOOLEAN,
         phase' \in {"idle", "call"} \cup LoopPhases,
         phase' = "call" => call'.mode = Base',
         phase' \in LoopPhases => operation' # "Moves",
         IsSeq(visited'), IsSeq(results'), Len(visited') = 1, Len(results') = 1
  PROVE  LevelsInv'
<1>1. /\ IsSeq(<<>>) /\ FramesOK(<<>>, Base') /\ TopMode(<<>>, Base') = Base'
      /\ Cardinality(OfKind(<<>>, "modifier")) = 0
      /\ Cardinality(OfKind(<<>>, "condition")) = 0
  BY NoFrames
<1>2. Len(applied') = 0
  OBVIOUS
<1>3. Modifiers' = 0 /\ ~Succeeding'
  BY <1>1 DEF Modifiers, Succeeding, LoopPhases
<1>4. LevelsMatch'
  BY <1>1, <1>2 DEF LevelsMatch
<1> QED BY <1>1, <1>2, <1>3, <1>4 DEF LevelsInv, LoopPhases

\* What holds when no call is running.
LEMMA AtRest ==
  ASSUME LevelsInv, frames = <<>>, ~Succeeding
  PROVE  applied = <<>> /\ Len(results) = 1 /\ Len(visited) = 1
<1>1. Cardinality(OfKind(frames, "modifier")) = 0 /\ Cardinality(OfKind(frames, "condition")) = 0
  BY NoFrames
<1>2. Len(applied) = 0
  BY <1>1 DEF LevelsInv, Modifiers
<1>3. applied = <<>>
  BY <1>2, LevelsFacts, IsSeqFacts
<1> QED BY <1>1, <1>2, <1>3 DEF LevelsInv, LevelsMatch

LEMMA StacksReset ==
  ASSUME ResetStacks
  PROVE  IsSeq(visited') /\ IsSeq(results') /\ Len(visited') = 1 /\ Len(results') = 1
BY IsSeqIntro, <<{}>> \in Seq({{}}) DEF ResetStacks

LEMMA ClosureStep ==
  ASSUME LevelsInv, ClosureRun \/ ClosureReturn \/ ClosureEnd \/ MovesReturn
  PROVE  LevelsInv'
<1>1. IsSeq(visited) /\ IsSeq(results) /\ IsCall(call) /\ value \in BOOLEAN
  BY LevelsFacts
<1>2. CASE ClosureRun
  <2>1. /\ phase = "closure" /\ applied' = <<>> /\ phase' = "call" /\ value' = value
        /\ call' = [at |-> currentBlock, mode |-> "ApplyFirst", vertex |-> position.pos]
        /\ UNCHANGED <<visited, results, frames, operation>>
    BY <1>2 DEF ClosureRun, Calls
  <2>2. frames = <<>> /\ operation # "Moves" /\ ~Succeeding
    BY <2>1 DEF LevelsInv, Succeeding, LoopPhases
  <2>3. Len(results) = 1 /\ Len(visited) = 1
    BY <2>2, AtRest
  <2>4. IsCall(call') /\ call'.mode = "ApplyFirst"
    BY <2>1 DEF IsCall
  <2>5. Base' = "ApplyFirst"
    BY <2>1, <2>2 DEF Base
  <2> QED BY <1>1, <2>1, <2>2, <2>3, <2>4, <2>5, Emptied
<1>3. CASE ClosureReturn
  <2>1. /\ phase = "return" /\ frames = <<>> /\ operation # "Moves" /\ phase' = "closure"
        /\ ResetStacks /\ UNCHANGED <<operation, call, value, frames>>
        /\ \/ value /\ applied' = <<>>
           \/ ~value /\ applied' = applied
    BY <1>3 DEF ClosureReturn
  <2>2. ~value => applied = <<>>
    BY <2>1, AtRest DEF Succeeding
  <2>3. applied' = <<>>
    BY <2>1, <2>2
  <2> QED BY <1>1, <2>1, <2>3, StacksReset, Emptied DEF LoopPhases
<1>4. CASE ClosureEnd
  <2>1. /\ phase = "closure" /\ phase' = "idle"
        /\ UNCHANGED <<visited, results, applied, call, value, frames>>
    BY <1>4 DEF ClosureEnd
  <2>2. frames = <<>> /\ ~Succeeding
    BY <2>1 DEF LevelsInv, Succeeding, LoopPhases
  <2>3. applied = <<>> /\ Len(results) = 1 /\ Len(visited) = 1
    BY <2>2, AtRest
  <2> QED BY <1>1, <2>1, <2>2, <2>3, Emptied DEF LoopPhases
<1>5. CASE MovesReturn
  <2>1. /\ phase = "return" /\ frames = <<>> /\ operation = "Moves" /\ phase' = "idle"
        /\ UNCHANGED <<visited, results, applied, call, value, frames>>
    BY <1>5 DEF MovesReturn, searchVars
  <2>2. ~Succeeding
    <3>1. value => call.mode = TopMode(frames, Base)
      BY <2>1 DEF LevelsInv
    <3>2. TopMode(frames, Base) = "Run"
      BY <2>1, NoFrames DEF Base
    <3> QED BY <3>1, <3>2 DEF Succeeding
  <2>3. applied = <<>> /\ Len(results) = 1 /\ Len(visited) = 1
    BY <2>1, <2>2, AtRest
  <2> QED BY <1>1, <2>1, <2>3, Emptied DEF LoopPhases
<1> QED BY <1>2, <1>3, <1>4, <1>5

LEMMA ApiStep ==
  ASSUME LevelsInv,
         \/ Moves \/ (\E move \in ToSet(Last(nodes).moves) : Apply(move)) \/ Revert \/ Reset
         \/ ApplyModifier \/ ApplySwitched \/ RevertModifier \/ RevertReturn
  PROVE  LevelsInv'
<1>1. /\ phase \in {"idle", "apply", "revert"} /\ UNCHANGED frames
      /\ IsSeq(visited) /\ IsSeq(results) /\ IsCall(call) /\ value \in BOOLEAN
  BY LevelsFacts DEF Moves, Apply, Revert, Reset, Idle, ApplyModifier, ApplySwitched,
                     RevertModifier, RevertReturn
<1>2. /\ frames = <<>> /\ ~Succeeding
      /\ phase \in LoopPhases => operation # "Moves"
  BY <1>1 DEF LevelsInv, Succeeding, LoopPhases
<1>3. applied = <<>> /\ Len(results) = 1 /\ Len(visited) = 1
  BY <1>2, AtRest
<1>4. CASE Moves
  <2>1. /\ phase' = "call" /\ value' = value /\ operation' = "Moves"
        /\ call' = [at |-> currentBlock, mode |-> "Run", vertex |-> 0]
        /\ UNCHANGED <<visited, results, applied>>
    BY <1>4 DEF Moves, Calls, searchVars
  <2>2. IsCall(call') /\ call'.mode = Base'
    BY <2>1 DEF IsCall, Base
  <2> QED BY <1>1, <1>2, <1>3, <2>1, <2>2, Emptied DEF LoopPhases
<1>5. CASE ApplySwitched \/ Reset
  <2>1. /\ ResetStacks /\ phase' = "closure" /\ value' = TRUE /\ operation' # "Moves"
        /\ applied' = applied \/ applied' = <<>>
        /\ UNCHANGED call
    BY <1>2, <1>5 DEF ApplySwitched, Reset, LoopPhases
  <2> QED BY <1>1, <1>2, <1>3, <2>1, StacksReset, Emptied DEF LoopPhases
<1>6. CASE \/ (\E move \in ToSet(Last(nodes).moves) : Apply(move)) \/ Revert
           \/ ApplyModifier \/ RevertModifier \/ RevertReturn
  <2>1. /\ UNCHANGED <<visited, results, applied, call, value>>
        /\ phase' \in {"idle", "apply", "revert"} /\ (phase' \in LoopPhases => operation' # "Moves")
    BY <1>2, <1>6 DEF Apply, Revert, ApplyModifier, RevertModifier, RevertReturn, searchVars,
                      apiVars, LoopPhases
  <2> QED BY <1>1, <1>2, <1>3, <2>1, Emptied DEF LoopPhases
<1> QED BY <1>4, <1>5, <1>6

----
LEMMA LevelsInit ==
  ASSUME Init
  PROVE  LevelsInv
<1>1. /\ visited = <<{}>> /\ results = <<{}>> /\ applied = <<>> /\ frames = <<>>
      /\ operation = "construct" /\ phase = "closure" /\ value = TRUE
      /\ call = [at |-> Initial, mode |-> "ApplyFirst", vertex |-> 0]
  BY DEF Init
<1>2. /\ IsSeq(<<{}>>) /\ Len(<<{}>>) = 1 /\ Len(<<>>) = 0
  BY IsSeqIntro, <<{}>> \in Seq({{}})
<1>3. /\ IsSeq(<<>>) /\ FramesOK(<<>>, Base)
      /\ Cardinality(OfKind(<<>>, "modifier")) = 0
      /\ Cardinality(OfKind(<<>>, "condition")) = 0
  BY NoFrames
<1>4. IsCall(call) /\ ~Succeeding
  BY <1>1 DEF IsCall, Succeeding
<1>5. Modifiers = 0 /\ LevelsMatch
  BY <1>1, <1>2, <1>3 DEF Modifiers, LevelsMatch
<1> QED BY <1>1, <1>2, <1>3, <1>4, <1>5 DEF LevelsInv, LoopPhases

LEMMA LevelsInductive ==
  ASSUME LevelsInv, [Next]_vars
  PROVE  LevelsInv'
<1>1. CASE RunTest \/ RunVisitedCheck \/ RunSwitch
  BY <1>1, TestStep
<1>2. CASE RunCondition \/ ReturnCondition
  BY <1>2, ConditionStep, ConditionReturns
<1>3. CASE RunConditionVisitedCheck \/ ReturnResult
  BY <1>3, ResultStep, ResultReturns
<1>4. CASE RunShift \/ ReturnShift
  BY <1>4, ShiftStep, ShiftReturns
<1>5. CASE RunModifier \/ ReturnModifier
  BY <1>5, ModifierStep, ModifierReturns
<1>6. CASE ApplySwitch
  BY <1>6, SwitchApplied
<1>7. CASE RunBranch \/ ReturnBranch
  BY <1>7, BranchStep, BranchReturns
<1>8. CASE ClosureRun \/ ClosureReturn \/ ClosureEnd \/ MovesReturn
  BY <1>8, ClosureStep
<1>9. CASE \/ FirstMoves \/ (\E move \in ToSet(Last(nodes).moves) : Apply(move)) \/ Revert
           \/ Reset \/ ApplyModifier \/ ApplySwitched \/ RevertModifier \/ RevertReturn
  BY <1>9, ApiStep DEF FirstMoves
<1>10. CASE UNCHANGED vars
  BY <1>10 DEF vars, searchVars, apiVars, LevelsInv, LevelsMatch, Succeeding, Modifiers, Base,
               LoopPhases
<1> QED BY <1>1, <1>2, <1>3, <1>4, <1>5, <1>6, <1>7, <1>8, <1>9, <1>10 DEF Next, Step

\* Every modifier applied has a level of marks and of results of its own, and
\* every condition being run one more level of marks, in every search of every
\* game: the calls of block.h pop what they pushed however they return.
THEOREM LevelsAlwaysMatch == Spec => []LevelsMatch
<1>1. Init => LevelsInv
  BY LevelsInit
<1>2. LevelsInv /\ [Next]_vars => LevelsInv'
  BY LevelsInductive
<1>3. LevelsInv => LevelsMatch
  BY DEF LevelsInv
<1> QED BY <1>1, <1>2, <1>3, PTL DEF Spec

----
(***************************************************************************)
(* What the actions do to a position, for all boards: the counts of pieces *)
(* stay those of the board, and an action reverted with what it saved      *)
(* leaves the position it was applied in.                                  *)
(***************************************************************************)
Squares(g) == 1 .. g.size - 1
PiecesOf(g) == DOMAIN g.content.counts

\* The vertices where a board has a piece.
Occupied(g, fields, piece) == {v \in Squares(g) : fields[v] = piece}

Counted(g, fields) == [piece \in PiecesOf(g) |-> Cardinality(Occupied(g, fields, piece))]

IsFields(g, fields) == fields \in [{0} \cup Squares(g) -> PiecesOf(g)]

IsPosition(g, p) ==
  /\ p = [pos |-> p.pos, vars |-> p.vars, player |-> p.player,
          fields |-> p.fields, counts |-> p.counts]
  /\ p.pos \in 1 .. g.size
  /\ p.vars = [x \in DOMAIN p.vars |-> p.vars[x]]
  /\ IsFields(g, p.fields)
  /\ p.counts = Counted(g, p.fields)

\* An action that changes a position, and what it may have saved.
IsChange(g, a) ==
  /\ a.type \in ModifierTypes \cup {"shift", "switch"}
  /\ a.type = "off" => a.piece \in PiecesOf(g)
  /\ a.type = "shift" => a.label \in DOMAIN g.next

IsSaved(g, a, saved) ==
  /\ a.type = "shift" => saved \in Squares(g)
  /\ a.type = "off" => saved \in PiecesOf(g)

----
LEMMA NoOverflow ==
  ASSUME NEW n \in Nat, n < Width
  PROVE  n % Width = n
<1>1. Width \in Nat \ {0}
  BY WidthAssumption
<1> QED BY <1>1

LEMMA BoardFacts ==
  ASSUME NEW g, IsBoard(g)
  PROVE  /\ g.size \in Nat /\ 1 < g.size /\ g.size <= Width
         /\ \A label \in DOMAIN g.next : \A v \in Squares(g) : g.next[label][v] \in 1 .. g.size
         /\ IsFields(g, g.content.fields) /\ g.content.counts = Counted(g, g.content.fields)
         /\ 1 \in Squares(g) /\ \A v \in Squares(g) : v < g.size /\ v \in 1 .. g.size
         /\ g.size \notin Squares(g)
BY DEF IsBoard, IsFields, Counted, Occupied, Squares, PiecesOf

\* Pieces do not outnumber the vertices.
LEMMA OccupiedFinite ==
  ASSUME NEW g, IsBoard(g), NEW fields, NEW piece
  PROVE  /\ IsFiniteSet(Occupied(g, fields, piece))
         /\ Cardinality(Occupied(g, fields, piece)) \in Nat
         /\ Cardinality(Occupied(g, fields, piece)) < Width
<1>1. /\ g.size \in Nat /\ 1 < g.size /\ g.size <= Width /\ Width \in Nat
  BY BoardFacts, WidthAssumption
<1>2. IsFiniteSet(Squares(g)) /\ Cardinality(Squares(g)) = g.size - 1
  <2>1. /\ IsFiniteSet(1 .. g.size - 1)
        /\ Cardinality(1 .. g.size - 1) = IF 1 > g.size - 1 THEN 0 ELSE (g.size - 1) - 1 + 1
    BY <1>1, FS_Interval, 1 \in Int, g.size - 1 \in Int
  <2> QED BY <1>1, <2>1 DEF Squares
<1>3. Occupied(g, fields, piece) \subseteq Squares(g)
  BY DEF Occupied
<1>4. /\ IsFiniteSet(Occupied(g, fields, piece))
      /\ Cardinality(Occupied(g, fields, piece)) <= Cardinality(Squares(g))
  BY <1>2, <1>3, FS_Subset
<1>5. Cardinality(Occupied(g, fields, piece)) \in Nat
  BY <1>4, FS_CardinalityType
<1> QED BY <1>1, <1>2, <1>4, <1>5

\* BoardContent::set keeps the counts those of the board.
LEMMA PieceSet ==
  ASSUME NEW g, IsBoard(g), NEW p, IsPosition(g, p), NEW v \in Squares(g), NEW piece \in PiecesOf(g)
  PROVE  LET fields == [p.fields EXCEPT ![v] = piece]
         IN  /\ IsFields(g, fields)
             /\ SetPiece(p, v, piece) =
                  [pos |-> p.pos, vars |-> p.vars, player |-> p.player,
                   fields |-> fields, counts |-> Counted(g, fields)]
<1> DEFINE old == p.fields[v]
           fields == [p.fields EXCEPT ![v] = piece]
           lifted == [p.counts EXCEPT ![old] = (@ - 1) % Width]
           placed == [lifted EXCEPT ![piece] = (@ + 1) % Width]
<1>1. p = [pos |-> p.pos, vars |-> p.vars, player |-> p.player,
           fields |-> p.fields, counts |-> p.counts]
  BY DEF IsPosition
<1>2. SetPiece(p, v, piece) =
        [pos |-> p.pos, vars |-> p.vars, player |-> p.player, fields |-> fields, counts |-> placed]
  <2> DEFINE q == [p EXCEPT !.counts[p.fields[v]] = (@ - 1) % Width]
  <2>1. q = [pos |-> p.pos, vars |-> p.vars, player |-> p.player,
             fields |-> p.fields, counts |-> lifted]
    BY <1>1
  <2>2. SetPiece(p, v, piece) = [q EXCEPT !.fields[v] = piece, !.counts[piece] = (@ + 1) % Width]
    BY DEF SetPiece
  <2> HIDE DEF q, lifted
  <2> DEFINE r == [q EXCEPT !.fields[v] = piece]
  <2>3. r = [pos |-> p.pos, vars |-> p.vars, player |-> p.player,
             fields |-> fields, counts |-> lifted]
    BY <2>1
  <2>4. SetPiece(p, v, piece) = [r EXCEPT !.counts[piece] = (@ + 1) % Width]
    BY <2>2, Zenon
  <2> HIDE DEF r
  <2>5. [r EXCEPT !.counts[piece] = (@ + 1) % Width] =
          [pos |-> p.pos, vars |-> p.vars, player |-> p.player, fields |-> fields, counts |-> placed]
    BY <2>3
  <2> QED BY <2>4, <2>5
<1>3. p.fields \in [{0} \cup Squares(g) -> PiecesOf(g)] /\ v \in {0} \cup Squares(g)
  BY DEF IsPosition, IsFields
<1>4. /\ fields \in [{0} \cup Squares(g) -> PiecesOf(g)] /\ old \in PiecesOf(g)
      /\ fields[v] = piece /\ \A u \in Squares(g) : u # v => fields[u] = p.fields[u]
  BY <1>3
<1>5. /\ p.counts = Counted(g, p.fields) /\ DOMAIN p.counts = PiecesOf(g)
      /\ \A c \in PiecesOf(g) : p.counts[c] = Cardinality(Occupied(g, p.fields, c))
  BY DEF IsPosition, Counted
<1>6. ASSUME NEW c \in PiecesOf(g)
      PROVE  /\ lifted[c] = Cardinality(Occupied(g, p.fields, c) \ {v})
             /\ lifted[c] \in Nat
  <2>1. /\ IsFiniteSet(Occupied(g, p.fields, c)) /\ Cardinality(Occupied(g, p.fields, c)) \in Nat
        /\ Cardinality(Occupied(g, p.fields, c)) < Width
    BY OccupiedFinite
  <2>2. CASE c = old
    <3>1. v \in Occupied(g, p.fields, c)
      BY <2>2 DEF Occupied
    <3>2. Cardinality(Occupied(g, p.fields, c) \ {v}) = Cardinality(Occupied(g, p.fields, c)) - 1
      BY <2>1, <3>1, FS_RemoveElement
    <3>3. Cardinality(Occupied(g, p.fields, c) \ {v}) \in Nat
      BY <2>1, FS_Subset, FS_CardinalityType
    <3>4. lifted[c] = (Cardinality(Occupied(g, p.fields, c)) - 1) % Width
      BY <1>5, <2>2
    <3>5. Cardinality(Occupied(g, p.fields, c) \ {v}) < Width
      BY <2>1, <3>2, WidthAssumption
    <3>6. Cardinality(Occupied(g, p.fields, c) \ {v}) % Width = Cardinality(Occupied(g, p.fields, c) \ {v})
      BY <3>3, <3>5, NoOverflow
    <3> HIDE DEF lifted
    <3> QED BY <3>2, <3>3, <3>4, <3>6
  <2>3. CASE c # old
    <3>1. Occupied(g, p.fields, c) \ {v} = Occupied(g, p.fields, c)
      BY <2>3 DEF Occupied
    <3>2. lifted[c] = p.counts[c]
      BY <1>5, <2>3
    <3> QED BY <1>5, <2>1, <3>1, <3>2
  <2> QED BY <2>2, <2>3
<1>7. ASSUME NEW c \in PiecesOf(g)
      PROVE  placed[c] = Cardinality(Occupied(g, fields, c))
  <2>1. DOMAIN lifted = PiecesOf(g)
    BY <1>5
  <2>2. CASE c = piece
    <3>1. Occupied(g, fields, c) = (Occupied(g, p.fields, c) \ {v}) \cup {v}
      BY <1>4, <2>2 DEF Occupied
    <3>2. IsFiniteSet(Occupied(g, p.fields, c) \ {v})
      BY OccupiedFinite, FS_Subset
    <3>3. Cardinality(Occupied(g, fields, c)) = Cardinality(Occupied(g, p.fields, c) \ {v}) + 1
      BY <3>1, <3>2, FS_AddElement
    <3>4. Cardinality(Occupied(g, fields, c)) \in Nat /\ Cardinality(Occupied(g, fields, c)) < Width
      BY OccupiedFinite
    <3>5. placed[c] = (lifted[c] + 1) % Width
      BY <2>1, <2>2
    <3> HIDE DEF lifted, placed, fields
    <3> QED BY <1>6, <3>3, <3>4, <3>5, NoOverflow
  <2>3. CASE c # piece
    <3>1. Occupied(g, fields, c) = Occupied(g, p.fields, c) \ {v}
      BY <1>4, <2>3 DEF Occupied
    <3>2. placed[c] = lifted[c]
      BY <2>1, <2>3
    <3> HIDE DEF lifted, placed, fields
    <3> QED BY <1>6, <3>1, <3>2
  <2> QED BY <2>2, <2>3
<1>8. placed = Counted(g, fields)
  <2>1. placed = [c \in PiecesOf(g) |-> placed[c]]
    BY <1>5
  <2> HIDE DEF lifted, placed, fields
  <2> QED BY <1>7, <2>1 DEF Counted
<1> HIDE DEF lifted, placed, fields
<1>9. IsFields(g, fields)
  BY <1>4 DEF IsFields
<1> QED BY <1>2, <1>8, <1>9 DEF fields

----
\* A position with one part replaced.
LEMMA Moved ==
  ASSUME NEW g, NEW p, IsPosition(g, p), NEW v \in 1 .. g.size
  PROVE  IsPosition(g, [p EXCEPT !.pos = v]) /\ [p EXCEPT !.pos = v].pos = v
<1>1. p = [pos |-> p.pos, vars |-> p.vars, player |-> p.player,
           fields |-> p.fields, counts |-> p.counts]
  BY DEF IsPosition
<1>2. [p EXCEPT !.pos = v] = [pos |-> v, vars |-> p.vars, player |-> p.player,
                              fields |-> p.fields, counts |-> p.counts]
  BY <1>1
<1> QED BY <1>2 DEF IsPosition

LEMMA Replaced ==
  ASSUME NEW g, NEW p, IsPosition(g, p)
  PROVE  /\ \A v \in 1 .. g.size :
              /\ IsPosition(g, [p EXCEPT !.pos = v]) /\ [p EXCEPT !.pos = v].pos = v
              /\ [p EXCEPT !.pos = v] = [pos |-> v, vars |-> p.vars, player |-> p.player,
                                         fields |-> p.fields, counts |-> p.counts]
         /\ \A player : [p EXCEPT !.player = player] =
                          [pos |-> p.pos, vars |-> p.vars, player |-> player,
                           fields |-> p.fields, counts |-> p.counts]
         /\ \A x, y : [p EXCEPT !.vars[x] = y] =
                        [pos |-> p.pos, vars |-> [p.vars EXCEPT ![x] = y], player |-> p.player,
                         fields |-> p.fields, counts |-> p.counts]
<1>1. p = [pos |-> p.pos, vars |-> p.vars, player |-> p.player,
           fields |-> p.fields, counts |-> p.counts]
  BY DEF IsPosition
<1>2. ASSUME NEW v \in 1 .. g.size
      PROVE  /\ IsPosition(g, [p EXCEPT !.pos = v]) /\ [p EXCEPT !.pos = v].pos = v
             /\ [p EXCEPT !.pos = v] = [pos |-> v, vars |-> p.vars, player |-> p.player,
                                        fields |-> p.fields, counts |-> p.counts]
  <2>1. [p EXCEPT !.pos = v] = [pos |-> v, vars |-> p.vars, player |-> p.player,
                                fields |-> p.fields, counts |-> p.counts]
    BY <1>1
  <2> QED BY <2>1 DEF IsPosition
<1>3. ASSUME NEW player
      PROVE  [p EXCEPT !.player = player] = [pos |-> p.pos, vars |-> p.vars, player |-> player,
                                             fields |-> p.fields, counts |-> p.counts]
  BY <1>1
<1>4. ASSUME NEW x, NEW y
      PROVE  [p EXCEPT !.vars[x] = y] =
               [pos |-> p.pos, vars |-> [p.vars EXCEPT ![x] = y], player |-> p.player,
                fields |-> p.fields, counts |-> p.counts]
  BY <1>1
<1> QED BY <1>2, <1>3, <1>4

\* An action applied on the board leads to a position of the game; what it
\* saves is enough to revert it.
LEMMA ChangeApplied ==
  ASSUME NEW g, IsBoard(g), NEW p, IsPosition(g, p), p.pos \in Squares(g), NEW a, IsChange(g, a)
  PROVE  /\ IsPosition(g, Applied(g, a, p)) /\ IsSaved(g, a, Saved(a, p))
         /\ Reverted(a, Applied(g, a, p), Saved(a, p)) = p
         /\ a.type # "shift" => Applied(g, a, p).pos = p.pos
<1> DEFINE q == Applied(g, a, p)
<1>1. p = [pos |-> p.pos, vars |-> p.vars, player |-> p.player,
           fields |-> p.fields, counts |-> p.counts]
  BY DEF IsPosition
<1>2. CASE a.type = "shift"
  <2>1. q = [p EXCEPT !.pos = g.next[a.label][p.pos]] /\ Saved(a, p) = p.pos
    BY <1>2 DEF Applied, Saved
  <2>2. g.next[a.label][p.pos] \in 1 .. g.size /\ p.pos \in 1 .. g.size
    BY <1>2, BoardFacts DEF IsChange
  <2>3. IsPosition(g, q)
    <3> DEFINE n == g.next[a.label][p.pos]
    <3> HIDE DEF q, n
    <3> QED BY <2>1, <2>2, Replaced DEF n
  <2>4. Reverted(a, q, Saved(a, p)) = [q EXCEPT !.pos = p.pos]
    BY <1>2, <2>1 DEF Reverted
  <2>5. q = [pos |-> g.next[a.label][p.pos], vars |-> p.vars, player |-> p.player,
             fields |-> p.fields, counts |-> p.counts]
    BY <2>1, <2>2, Replaced
  <2>6. [q EXCEPT !.pos = p.pos] = p
    <3> HIDE DEF q
    <3> QED BY <1>1, <2>5
  <2> QED BY <1>2, <2>1, <2>3, <2>4, <2>6 DEF IsSaved
<1>3. CASE a.type = "off"
  <2> DEFINE v == p.pos
             old == p.fields[v]
             fields == [p.fields EXCEPT ![v] = a.piece]
             back == [fields EXCEPT ![v] = old]
  <2>1. q = SetPiece(p, v, a.piece) /\ Saved(a, p) = old /\ a.piece \in PiecesOf(g)
    BY <1>3 DEF Applied, Saved, IsChange
  <2>2. /\ IsFields(g, fields)
        /\ q = [pos |-> p.pos, vars |-> p.vars, player |-> p.player,
                fields |-> fields, counts |-> Counted(g, fields)]
    BY <2>1, PieceSet
  <2>3. old \in PiecesOf(g) /\ v \in Squares(g)
    BY DEF IsPosition, IsFields
  <2>4. back = p.fields
    BY <2>3 DEF IsPosition, IsFields
  <2>5. IsPosition(g, q) /\ q.pos = p.pos /\ q.fields = fields
    <3> HIDE DEF q, fields
    <3> QED BY <2>2 DEF IsPosition
  <2>6. Reverted(a, q, Saved(a, p)) = SetPiece(q, v, old)
    BY <1>3, <2>1, <2>5 DEF Reverted
  <2>7. SetPiece(q, v, old) = [pos |-> q.pos, vars |-> q.vars, player |-> q.player,
                               fields |-> back, counts |-> Counted(g, back)]
    <3> HIDE DEF q, fields, v, old
    <3> QED BY <2>3, <2>5, PieceSet
  <2>8. Counted(g, back) = p.counts
    <3> HIDE DEF back
    <3> QED BY <2>4 DEF IsPosition
  <2>9. SetPiece(q, v, old) = p
    <3> HIDE DEF q, fields, v, old, back
    <3> QED BY <1>1, <2>2, <2>4, <2>7, <2>8
  <2>10. /\ IsPosition(g, q) /\ IsSaved(g, a, Saved(a, p))
         /\ Reverted(a, q, Saved(a, p)) = p /\ (a.type # "shift" => q.pos = p.pos)
    <3> HIDE DEF q, fields, old, back
    <3> QED BY <1>3, <2>1, <2>3, <2>5, <2>6, <2>9 DEF IsSaved
  <2> QED BY <2>10
<1>4. CASE a.type = "assign"
  <2> DEFINE x == a.variable
             y == Value(p, a.value)
             values == [p.vars EXCEPT ![x] = y]
  <2>1. q = [p EXCEPT !.vars[x] = y] /\ Saved(a, p) = p.vars[x]
    BY <1>4 DEF Applied, Saved
  <2>2. q = [pos |-> p.pos, vars |-> values, player |-> p.player,
             fields |-> p.fields, counts |-> p.counts]
    BY <2>1, Replaced
  <2>3. p.vars = [z \in DOMAIN p.vars |-> p.vars[z]]
    BY DEF IsPosition
  <2>4. IsPosition(g, q)
    <3>1. values = [z \in DOMAIN values |-> values[z]]
      BY <2>3
    <3> HIDE DEF q, values
    <3> QED BY <2>2, <3>1 DEF IsPosition
  <2>5. Reverted(a, q, Saved(a, p)) = [q EXCEPT !.vars[x] = p.vars[x]]
    BY <1>4, <2>1 DEF Reverted
  <2>6. [q EXCEPT !.vars[x] = p.vars[x]] =
          [pos |-> q.pos, vars |-> [q.vars EXCEPT ![x] = p.vars[x]], player |-> q.player,
           fields |-> q.fields, counts |-> q.counts]
    <3> HIDE DEF q, values
    <3> QED BY <2>4, Replaced
  <2>7. [values EXCEPT ![x] = p.vars[x]] = p.vars
    <3> HIDE DEF x, y
    <3> QED BY <2>3
  <2>8. [q EXCEPT !.vars[x] = p.vars[x]] = p
    <3> HIDE DEF q, x, y, values
    <3> QED BY <1>1, <2>2, <2>6, <2>7
  <2>10. /\ IsPosition(g, q) /\ IsSaved(g, a, Saved(a, p))
         /\ Reverted(a, q, Saved(a, p)) = p /\ (a.type # "shift" => q.pos = p.pos)
    <3> HIDE DEF q, x, y, values
    <3> QED BY <1>4, <2>2, <2>4, <2>5, <2>8 DEF IsSaved
  <2> QED BY <2>10
<1>5. CASE a.type = "switch"
  <2>1. q = [p EXCEPT !.player = a.player] /\ Saved(a, p) = p.player
    BY <1>5 DEF Applied, Saved
  <2>2. q = [pos |-> p.pos, vars |-> p.vars, player |-> a.player,
             fields |-> p.fields, counts |-> p.counts]
    BY <2>1, Replaced
  <2>3. Reverted(a, q, Saved(a, p)) = [q EXCEPT !.player = p.player]
    BY <1>5, <2>1 DEF Reverted
  <2>4. IsPosition(g, q)
    <3> HIDE DEF q
    <3> QED BY <2>2 DEF IsPosition
  <2>5. [q EXCEPT !.player = p.player] = p
    <3> HIDE DEF q
    <3> QED BY <1>1, <2>2
  <2>10. /\ IsPosition(g, q) /\ IsSaved(g, a, Saved(a, p))
         /\ Reverted(a, q, Saved(a, p)) = p /\ (a.type # "shift" => q.pos = p.pos)
    <3> HIDE DEF q
    <3> QED BY <1>5, <2>2, <2>3, <2>4, <2>5 DEF IsSaved
  <2> QED BY <2>10
<1> QED BY <1>2, <1>3, <1>4, <1>5 DEF IsChange, ModifierTypes

\* Whatever an action saved, and wherever on the board it is reverted.
LEMMA ChangeReverted ==
  ASSUME NEW g, IsBoard(g), NEW p, IsPosition(g, p), NEW a, IsChange(g, a),
         NEW saved, IsSaved(g, a, saved), a.type = "shift" \/ p.pos \in Squares(g)
  PROVE  /\ IsPosition(g, Reverted(a, p, saved))
         /\ Reverted(a, p, saved).pos = IF a.type = "shift" THEN saved ELSE p.pos
<1> DEFINE q == Reverted(a, p, saved)
<1>1. CASE a.type = "shift"
  <2>1. q = [p EXCEPT !.pos = saved] /\ saved \in 1 .. g.size
    BY <1>1, BoardFacts DEF Reverted, IsSaved
  <2>2. IsPosition(g, [p EXCEPT !.pos = saved]) /\ [p EXCEPT !.pos = saved].pos = saved
    BY <2>1, Moved, Zenon
  <2> QED BY <1>1, <2>1, <2>2
<1>2. CASE a.type = "off"
  <2> DEFINE fields == [p.fields EXCEPT ![p.pos] = saved]
  <2>1. q = SetPiece(p, p.pos, saved) /\ saved \in PiecesOf(g) /\ p.pos \in Squares(g)
    BY <1>2 DEF Reverted, IsSaved
  <2>2. /\ IsFields(g, fields)
        /\ q = [pos |-> p.pos, vars |-> p.vars, player |-> p.player,
                fields |-> fields, counts |-> Counted(g, fields)]
    BY <2>1, PieceSet
  <2>10. /\ IsPosition(g, q)
         /\ q.pos = IF a.type = "shift" THEN saved ELSE p.pos
    <3> HIDE DEF q, fields
    <3> QED BY <1>2, <2>2 DEF IsPosition
  <2> QED BY <2>10
<1>3. CASE a.type = "assign"
  <2> DEFINE values == [p.vars EXCEPT ![a.variable] = saved]
  <2>1. q = [p EXCEPT !.vars[a.variable] = saved]
    BY <1>3 DEF Reverted
  <2>2. q = [pos |-> p.pos, vars |-> values, player |-> p.player,
             fields |-> p.fields, counts |-> p.counts]
    BY <2>1, Replaced
  <2>3. values = [z \in DOMAIN values |-> values[z]]
    BY DEF IsPosition
  <2>10. /\ IsPosition(g, q)
         /\ q.pos = IF a.type = "shift" THEN saved ELSE p.pos
    <3> HIDE DEF q, values
    <3> QED BY <1>3, <2>2, <2>3 DEF IsPosition
  <2> QED BY <2>10
<1>4. CASE a.type = "switch"
  <2>1. q = [p EXCEPT !.player = saved]
    BY <1>4 DEF Reverted
  <2>2. q = [pos |-> p.pos, vars |-> p.vars, player |-> saved,
             fields |-> p.fields, counts |-> p.counts]
    BY <2>1, Replaced
  <2>10. /\ IsPosition(g, q)
         /\ q.pos = IF a.type = "shift" THEN saved ELSE p.pos
    <3> HIDE DEF q
    <3> QED BY <1>4, <2>2 DEF IsPosition
  <2> QED BY <2>10
<1> QED BY <1>1, <1>2, <1>3, <1>4 DEF IsChange, ModifierTypes
====
