---- MODULE GameUndo_proof ----
(***************************************************************************)
(* A search leaves the position as it found it, the counts of pieces are   *)
(* those of the board in all its states, and a Revert takes back what an   *)
(* Apply has done, for all games: SearchRestores, CountsMatch and          *)
(* RevertRestores.                                                         *)
(*                                                                         *)
(* All need that what is applied on the way is what is reverted on the     *)
(* way back.  SafeInv says that the calls on the stack carry what reverts  *)
(* their actions and that reverting all of them, the last first, leads to  *)
(* the position the search began in (Trail); that whatever is kept for     *)
(* later, moves, copies of moves and revert infos, names vertices and      *)
(* actions of the game; and that the vertex past the last one is entered   *)
(* by a shift alone and left by the test behind it.  UndoInv says the same *)
(* of the infos an Apply has gathered, and of those the caller keeps.      *)
(***************************************************************************)
EXTENDS GameState_proof

Steps(g) == Squares(g) \X (DOMAIN g.modifiers)
Paths(g) == {m \in Seq(Steps(g)) : m # <<>>}

IsPlace(g, at) == at \in (DOMAIN g.blocks) \X (Nat \ {0})

\* A call and what is kept on the stack for when it returns.
GoodCall(g, c) == IsPlace(g, c.at) /\ (c.mode = "ApplyFirst" => c.vertex \in Squares(g))

GoodFrame(g, f) ==
  /\ f.kind \in {"branch", "condition"} => GoodCall(g, f.call)
  /\ f.kind = "branch" => f.rest \in Seq(DOMAIN g.blocks)
  /\ f.kind \in {"shift", "modifier"} =>
       /\ IsChange(g, f.action) /\ IsSaved(g, f.action, f.saved)
       /\ f.kind = "shift" <=> f.action.type = "shift"

GoodFrames(g, fs) == \A f \in ToSet(fs) : GoodFrame(g, f)

\* What Apply keeps of an action, what the caller keeps of a search and of Apply.
GoodInfo(g, i) ==
  /\ IsChange(g, i.action) /\ i.action.type # "shift" /\ IsSaved(g, i.action, i.saved)
  /\ i.vertex \in Squares(g)

GoodInfos(g, is) == IsSeq(is) /\ \A i \in ToSet(is) : GoodInfo(g, i)

GoodNodes(g, ns) == IsSeq(ns) /\ \A n \in ToSet(ns) : n.moves \in Seq(Paths(g))

GoodUndo(g, u) ==
  /\ u = [block |-> u.block, infos |-> u.infos, move |-> u.move, position |-> u.position]
  /\ IsPlace(g, u.block) /\ GoodInfos(g, u.infos) /\ u.move \in Paths(g)

GoodUndos(g, us) == IsSeq(us) /\ \A u \in ToSet(us) : GoodUndo(g, u)

----
\* What a frame's call does to the position when it comes back.
Undone(f, p) ==
  IF f.kind \in {"shift", "modifier"} THEN Reverted(f.action, p, f.saved) ELSE p

\* Reverting all the calls on the stack leads from p to o.
Trail(fs, p, o) ==
  \E ps : /\ IsSeq(ps) /\ Len(ps) = Len(fs) + 1
          /\ ps[1] = o /\ ps[Len(fs) + 1] = p
          /\ \A i \in 1 .. Len(fs) : ps[i] = Undone(fs[i], ps[i + 1])

\* Off the board there is a shift to be undone, or its test to be made.
ShiftPending ==
  /\ frames # <<>> /\ Frame.kind = "shift"
  /\ At("inBounds") \/ (phase = "return" /\ ~value)

CallerOK ==
  /\ GoodNodes(game, nodes) /\ GoodUndos(game, undos)
  /\ operation = "Apply" => Len(nodes) = Len(undos)
  /\ operation # "Apply" => Len(nodes) = Len(undos) + 1
  /\ operation \in {"Apply", "Revert"} => undos # <<>>
  /\ phase = "apply" => operation = "Apply"
  /\ phase = "revert" => operation = "Revert"
  /\ phase = "idle" => operation = "none"

SafeInv ==
  /\ IsGame(game)
  /\ IsPosition(game, position) /\ (position.pos = game.size => ShiftPending)
  /\ IsPlace(game, currentBlock) /\ GoodFrames(game, frames)
  /\ phase = "call" => GoodCall(game, call)
  /\ applied \in Seq(Steps(game)) /\ moves \in Seq(Paths(game)) /\ GoodInfos(game, infos)
  /\ CallerOK
  /\ Succeeding => applied # <<>>
  /\ phase \in {"call", "return"} /\ ~Succeeding => Trail(frames, position, origin)

----
\* The elements of a sequence.
LEMMA Elements ==
  ASSUME NEW s, IsSeq(s), NEW e
  PROVE  /\ ToSet(Append(s, e)) = ToSet(s) \cup {e} /\ IsSeq(Append(s, e))
         /\ ToSet(Front(s)) \subseteq ToSet(s) /\ IsSeq(Front(s))
         /\ s # <<>> => /\ Last(s) \in ToSet(s)
                        /\ ToSet([s EXCEPT ![Len(s)] = e]) \subseteq ToSet(s) \cup {e}
                        /\ IsSeq([s EXCEPT ![Len(s)] = e]) /\ Len([s EXCEPT ![Len(s)] = e]) = Len(s)
<1>1. Len(s) \in Nat /\ DOMAIN s = 1 .. Len(s) /\ (s = <<>> <=> Len(s) = 0)
  BY IsSeqFacts
<1>2. ToSet(Append(s, e)) = ToSet(s) \cup {e} /\ IsSeq(Append(s, e))
  <2> DEFINE t == Append(s, e)
  <2>1. /\ IsSeq(t) /\ Len(t) = Len(s) + 1 /\ t[Len(t)] = e
        /\ \A i \in 1 .. Len(s) : t[i] = s[i]
    BY Pushed
  <2>2. DOMAIN t = 1 .. Len(s) + 1
    BY <2>1, IsSeqFacts
  <2> HIDE DEF t
  <2>3. ToSet(t) = ToSet(s) \cup {e}
    BY <1>1, <2>1, <2>2 DEF ToSet
  <2> QED BY <2>1, <2>3 DEF t
<1>3. CASE s = <<>>
  <2>1. Front(s) = <<>>
    BY <1>3 DEF Front
  <2> QED BY <1>2, <1>3, <2>1
<1>4. CASE s # <<>>
  <2> DEFINE t == Front(s)
             u == [s EXCEPT ![Len(s)] = e]
  <2>1. /\ IsSeq(t) /\ Len(t) = Len(s) - 1 /\ Last(s) = s[Len(s)] /\ Len(s) >= 1
        /\ \A i \in 1 .. Len(t) : t[i] = s[i]
    BY <1>4, Popped
  <2>2. DOMAIN t = 1 .. Len(s) - 1
    BY <2>1, IsSeqFacts
  <2>3. ToSet(t) \subseteq ToSet(s) /\ Last(s) \in ToSet(s)
    <3> HIDE DEF t
    <3> QED BY <1>1, <2>1, <2>2 DEF ToSet
  <2>4. s \in Seq(ToSet(s) \cup {e})
    BY SeqMonotonic, {s[i] : i \in DOMAIN s} \subseteq ToSet(s) \cup {e} DEF IsSeq, ToSet
  <2>5. u \in Seq(ToSet(s) \cup {e}) /\ Len(u) = Len(s)
    BY <1>1, <2>1, <2>4
  <2>6. IsSeq(u) /\ ToSet(u) \subseteq ToSet(s) \cup {e}
    BY <2>5, IsSeqIntro DEF ToSet
  <2> QED BY <1>2, <2>1, <2>3, <2>5, <2>6
<1> QED BY <1>3, <1>4

LEMMA Lengths ==
  ASSUME NEW s, IsSeq(s), NEW e
  PROVE  /\ Len(s) \in Nat /\ Len(Append(s, e)) = Len(s) + 1
         /\ s # <<>> => Len(Front(s)) = Len(s) - 1 /\ Len(s) >= 1
         /\ Append(s, e) # <<>> /\ Last(Append(s, e)) = e
<1>1. /\ IsSeq(Append(s, e)) /\ Len(Append(s, e)) = Len(s) + 1
      /\ Append(s, e)[Len(Append(s, e))] = e /\ \A i \in 1 .. Len(s) : Append(s, e)[i] = s[i]
  BY Pushed
<1>2. Len(s) \in Nat /\ (s # <<>> => Len(Front(s)) = Len(s) - 1 /\ Len(s) >= 1)
  BY IsSeqFacts, Popped
<1>3. Append(s, e) # <<>>
  BY <1>1, <1>2, IsSeqFacts
<1>4. Last(Append(s, e)) = e
  BY <1>1 DEF Last
<1> QED BY <1>1, <1>2, <1>3, <1>4

\* The stack and the positions its calls were made in grow and shrink together.
LEMMA TrailPushed ==
  ASSUME NEW fs, IsSeq(fs), NEW p, NEW o, Trail(fs, p, o), NEW f, NEW q, Undone(f, q) = p
  PROVE  Trail(Append(fs, f), q, o)
<1> DEFINE gs == Append(fs, f)
<1>1. PICK ps : /\ IsSeq(ps) /\ Len(ps) = Len(fs) + 1 /\ ps[1] = o /\ ps[Len(fs) + 1] = p
                /\ \A i \in 1 .. Len(fs) : ps[i] = Undone(fs[i], ps[i + 1])
  BY DEF Trail
<1> DEFINE qs == Append(ps, q)
<1>2. /\ Len(fs) \in Nat /\ Len(gs) = Len(fs) + 1 /\ gs[Len(fs) + 1] = f
      /\ \A i \in 1 .. Len(fs) : gs[i] = fs[i]
  BY Pushed, IsSeqFacts
<1>3. /\ IsSeq(qs) /\ Len(qs) = Len(fs) + 2 /\ qs[Len(fs) + 2] = q
      /\ \A i \in 1 .. Len(fs) + 1 : qs[i] = ps[i]
  <2>1. /\ IsSeq(qs) /\ Len(qs) = Len(ps) + 1 /\ qs[Len(qs)] = q
        /\ \A i \in 1 .. Len(ps) : qs[i] = ps[i]
    BY <1>1, Pushed
  <2> HIDE DEF qs
  <2> QED BY <1>1, <1>2, <2>1
<1> HIDE DEF gs, qs
<1>4. ASSUME NEW i \in 1 .. Len(gs)
      PROVE  qs[i] = Undone(gs[i], qs[i + 1])
  <2>1. CASE i = Len(fs) + 1
    <3>1. i + 1 = Len(fs) + 2
      BY <1>2, <2>1
    <3>2. qs[i] = p /\ gs[i] = f /\ qs[i + 1] = q
      BY <1>1, <1>2, <1>3, <2>1, <3>1
    <3> QED BY <3>2
  <2>2. CASE i # Len(fs) + 1
    <3>1. i \in 1 .. Len(fs) /\ i + 1 \in 1 .. Len(fs) + 1 /\ i \in 1 .. Len(fs) + 1
      BY <1>2, <2>2
    <3> QED BY <1>1, <1>2, <1>3, <3>1
  <2> QED BY <2>1, <2>2
<1>5. qs[1] = o /\ qs[Len(gs) + 1] = q /\ Len(qs) = Len(gs) + 1
  BY <1>1, <1>2, <1>3
<1>6. Trail(gs, q, o)
  BY <1>3, <1>4, <1>5 DEF Trail
<1> QED BY <1>6 DEF gs

LEMMA TrailPopped ==
  ASSUME NEW fs, IsSeq(fs), fs # <<>>, NEW p, NEW o, Trail(fs, p, o)
  PROVE  Trail(Front(fs), Undone(Last(fs), p), o)
<1> DEFINE gs == Front(fs)
           q  == Undone(Last(fs), p)
<1>1. PICK ps : /\ IsSeq(ps) /\ Len(ps) = Len(fs) + 1 /\ ps[1] = o /\ ps[Len(fs) + 1] = p
                /\ \A i \in 1 .. Len(fs) : ps[i] = Undone(fs[i], ps[i + 1])
  BY DEF Trail
<1> DEFINE qs == Front(ps)
<1>2. /\ Len(fs) \in Nat /\ Len(fs) >= 1 /\ Len(gs) = Len(fs) - 1 /\ Last(fs) = fs[Len(fs)]
      /\ \A i \in 1 .. Len(gs) : gs[i] = fs[i]
  BY Popped, IsSeqFacts
<1>3. /\ IsSeq(qs) /\ Len(qs) = Len(fs) /\ \A i \in 1 .. Len(fs) : qs[i] = ps[i]
  <2>1. ps # <<>>
    BY <1>1, <1>2, IsSeqFacts
  <2>2. IsSeq(qs) /\ Len(qs) = Len(ps) - 1 /\ \A i \in 1 .. Len(qs) : qs[i] = ps[i]
    BY <1>1, <2>1, Popped
  <2> HIDE DEF qs
  <2> QED BY <1>1, <1>2, <2>2
<1>4. q = ps[Len(fs)]
  <2>1. Len(fs) \in 1 .. Len(fs)
    BY <1>2
  <2> QED BY <1>1, <1>2, <2>1
<1> HIDE DEF gs, q, qs
<1>5. ASSUME NEW i \in 1 .. Len(gs)
      PROVE  qs[i] = Undone(gs[i], qs[i + 1])
  <2>1. i \in 1 .. Len(fs) /\ i + 1 \in 1 .. Len(fs)
    BY <1>2
  <2> QED BY <1>1, <1>2, <1>3, <2>1
<1>6. qs[1] = o /\ qs[Len(gs) + 1] = q /\ Len(qs) = Len(gs) + 1
  BY <1>1, <1>2, <1>3, <1>4
<1>7. Trail(gs, q, o)
  BY <1>3, <1>5, <1>6 DEF Trail
<1> QED BY <1>7 DEF gs, q

LEMMA TrailEmpty ==
  ASSUME NEW p, NEW o
  PROVE  Trail(<<>>, p, o) <=> p = o
<1>1. ASSUME p = o
      PROVE  Trail(<<>>, p, o)
  <2>1. /\ IsSeq(<<p>>) /\ Len(<<p>>) = 1 /\ <<p>>[1] = p /\ Len(<<>>) = 0
    BY IsSeqIntro, <<p>> \in Seq({p})
  <2> DEFINE ps == <<p>>
  <2> HIDE DEF ps
  <2>2. IsSeq(ps) /\ Len(ps) = Len(<<>>) + 1 /\ ps[1] = o /\ ps[Len(<<>>) + 1] = p
    BY <1>1, <2>1 DEF ps
  <2> QED BY <2>1, <2>2 DEF Trail
<1>2. ASSUME Trail(<<>>, p, o)
      PROVE  p = o
  <2>1. PICK ps : ps[1] = o /\ ps[Len(<<>>) + 1] = p
    BY <1>2 DEF Trail
  <2> QED BY <2>1
<1> QED BY <1>1, <1>2

----
\* What SafeInv says of the state, in the words the steps use.
LEMMA GameFacts ==
  ASSUME SafeInv
  PROVE  /\ IsBoard(game) /\ IsPosition(game, position)
         /\ position.pos # game.size <=> position.pos \in Squares(game)
         /\ applied \in Seq(Steps(game)) /\ moves \in Seq(Paths(game))
         /\ IsSeq(applied) /\ IsSeq(moves) /\ IsSeq(infos) /\ GoodInfos(game, infos)
         /\ IsPlace(game, currentBlock)
         /\ IsSeq(nodes) /\ IsSeq(undos)
<1>1. IsBoard(game) /\ IsPosition(game, position)
  BY DEF SafeInv, IsGame
<1>2. position.pos \in 1 .. game.size /\ game.size \in Nat
  BY <1>1, BoardFacts DEF IsPosition
<1>3. position.pos # game.size <=> position.pos \in Squares(game)
  BY <1>2 DEF Squares
<1>4. applied \in Seq(Steps(game)) /\ moves \in Seq(Paths(game)) /\ IsPlace(game, currentBlock)
  BY DEF SafeInv
<1>5. IsSeq(applied) /\ IsSeq(moves)
  BY <1>4, IsSeqIntro
<1>6. GoodInfos(game, infos) /\ IsSeq(infos) /\ IsSeq(nodes) /\ IsSeq(undos)
  <2>1. GoodInfos(game, infos) /\ GoodNodes(game, nodes) /\ GoodUndos(game, undos)
    BY Zenon DEF SafeInv, CallerOK
  <2> QED BY <2>1 DEF GoodInfos, GoodNodes, GoodUndos
<1> QED BY <1>1, <1>3, <1>4, <1>5, <1>6

\* The action of a call is one of the game's.
LEMMA ActionFacts ==
  ASSUME SafeInv, phase = "call", ~AtBranch
  PROVE  /\ call.at[1] \in DOMAIN game.blocks /\ call.at[2] \in Nat \ {0}
         /\ call.at = <<call.at[1], call.at[2]>>
         /\ Action = game.blocks[call.at[1]].acts[call.at[2]]
         /\ Action.type = "shift" =>
              /\ Action.label \in DOMAIN game.next /\ call.at[2] < Len(Block.acts)
              /\ Block.acts[call.at[2] + 1].type = "inBounds"
         /\ Action.type = "off" => Action.piece \in PiecesOf(game)
         /\ Action.type = "condition" => Action.initial \in DOMAIN game.blocks
         /\ Action.type \in ModifierTypes \cup {"switch"} => Action.index \in DOMAIN game.modifiers
<1> DEFINE b == call.at[1]
           i == call.at[2]
           acts == game.blocks[b].acts
<1>1. b \in DOMAIN game.blocks /\ i \in Nat \ {0} /\ call.at = <<b, i>>
  BY DEF SafeInv, GoodCall, IsPlace
<1>2. acts \in Seq(ToSet(acts)) /\ \A k \in DOMAIN acts : IsElement(game, acts, k)
  BY <1>1 DEF SafeInv, IsGame, AreBlocks
<1>3. Block.acts = acts /\ Action = acts[i]
  BY DEF Block, Action
<1>4. i <= Len(acts)
  <2> HIDE DEF b, i, acts
  <2> QED BY <1>1, <1>2, <1>3 DEF AtBranch, i
<1>5. IsElement(game, acts, i)
  <2> HIDE DEF b, i, acts
  <2> QED BY <1>1, <1>2, <1>4
<1>6. /\ acts[i].type = "shift" => /\ acts[i].label \in DOMAIN game.next
                                  /\ i < Len(acts) /\ acts[i + 1].type = "inBounds"
      /\ acts[i].type = "off" => acts[i].piece \in PiecesOf(game)
      /\ acts[i].type = "condition" => acts[i].initial \in DOMAIN game.blocks
      /\ acts[i].type \in ModifierTypes \cup {"switch"} => acts[i].index \in DOMAIN game.modifiers
  <2> HIDE DEF b, i, acts
  <2> QED BY <1>5, Zenon DEF IsElement, PiecesOf
<1> QED BY <1>1, <1>3, <1>6, Zenon

\* Nothing but its test runs off the board.
LEMMA OnTheBoard ==
  ASSUME SafeInv, ~ShiftPending
  PROVE  position.pos \in Squares(game)
BY GameFacts DEF SafeInv

LEMMA GoodFollowing ==
  ASSUME SafeInv, LevelsInv, phase = "call"
  PROVE  /\ GoodCall(game, Following) /\ Following.at = <<call.at[1], call.at[2] + 1>>
         /\ Following.mode = call.mode /\ IsCall(Following) /\ Following.vertex = call.vertex
         /\ GoodCall(game, call)
<1>1. /\ GoodCall(game, call) /\ call = [at |-> call.at, mode |-> call.mode, vertex |-> call.vertex]
  BY LevelsFacts DEF SafeInv, IsCall
<1>2. call.at \in (DOMAIN game.blocks) \X (Nat \ {0})
  BY <1>1 DEF GoodCall, IsPlace
<1>3. /\ [call.at EXCEPT ![2] = @ + 1] = <<call.at[1], call.at[2] + 1>>
      /\ <<call.at[1], call.at[2] + 1>> \in (DOMAIN game.blocks) \X (Nat \ {0})
  BY <1>2
<1>4. Following = [at |-> <<call.at[1], call.at[2] + 1>>, mode |-> call.mode,
                   vertex |-> call.vertex]
  <2> DEFINE at == [call.at EXCEPT ![2] = @ + 1]
  <2>1. Following = [call EXCEPT !.at = at]
    BY DEF Following
  <2> HIDE DEF at
  <2>2. [call EXCEPT !.at = at] = [at |-> at, mode |-> call.mode, vertex |-> call.vertex]
    BY <1>1
  <2> QED BY <1>3, <2>1, <2>2 DEF at
<1>5. /\ Following.at = <<call.at[1], call.at[2] + 1>> /\ Following.mode = call.mode
      /\ Following.vertex = call.vertex /\ IsCall(Following)
  BY <1>4 DEF IsCall
<1> HIDE DEF Following
<1>6. GoodCall(game, Following)
  BY <1>1, <1>3, <1>5 DEF GoodCall, IsPlace
<1> QED BY <1>1, <1>5, <1>6

----
\* The steps of a search leave what the caller keeps.
LEMMA CallerLeft ==
  ASSUME SafeInv, UNCHANGED <<game, operation, nodes, undos>>, phase' \in {"call", "return"}
  PROVE  CallerOK' /\ IsGame(game')
<1>1. IsGame(game) /\ CallerOK
  BY DEF SafeInv
<1> QED BY <1>1 DEF CallerOK

\* Going on in a block, or giving up.
LEMMA SafeGoesOn ==
  ASSUME SafeInv, phase = "call", UNCHANGED <<position, frames, applied, infos, apiVars>>,
         moves' \in Seq(Paths(game)), phase' \in {"call", "return"}, ~Succeeding',
         phase' = "call" => GoodCall(game, call') /\ position.pos # game.size,
         phase' = "return" /\ position.pos = game.size => ~value'
  PROVE  SafeInv'
<1>1. UNCHANGED <<game, currentBlock, operation, origin, nodes, undos>>
  BY DEF apiVars
<1>2. /\ IsPosition(game, position) /\ IsPlace(game, currentBlock) /\ GoodFrames(game, frames)
      /\ applied \in Seq(Steps(game)) /\ GoodInfos(game, infos)
      /\ Trail(frames, position, origin)
  BY DEF SafeInv, Succeeding
<1>3. CallerOK' /\ IsGame(game')
  BY <1>1, CallerLeft
<1>4. (position.pos = game.size => ShiftPending)'
  <2> SUFFICES ASSUME position.pos = game.size
               PROVE  ShiftPending'
    BY <1>1
  <2>1. ShiftPending /\ phase' = "return" /\ ~value'
    BY DEF SafeInv
  <2> QED BY <2>1 DEF ShiftPending, Frame
<1> QED BY <1>1, <1>2, <1>3, <1>4 DEF SafeInv

\* A call that has work left leaves on the stack what undoes its action.
LEMMA SafeEnters ==
  ASSUME SafeInv, IsSeq(frames), phase = "call", NEW f, GoodFrame(game, f),
         frames' = Append(frames, f), phase' = "call", UNCHANGED <<moves, apiVars>>,
         GoodCall(game, call'), IsPosition(game, position'), Undone(f, position') = position,
         position'.pos = game.size => f.kind = "shift" /\ At("inBounds")',
         applied' \in Seq(Steps(game)), GoodInfos(game, infos')
  PROVE  SafeInv'
<1>1. UNCHANGED <<game, currentBlock, operation, origin, nodes, undos>>
  BY DEF apiVars
<1>2. /\ IsPlace(game, currentBlock) /\ GoodFrames(game, frames)
      /\ moves \in Seq(Paths(game)) /\ Trail(frames, position, origin)
  BY DEF SafeInv, Succeeding
<1>3. CallerOK' /\ IsGame(game')
  BY <1>1, CallerLeft
<1>4. GoodFrames(game, frames')
  <2>1. ToSet(frames') = ToSet(frames) \cup {f}
    BY Elements
  <2> QED BY <1>2, <2>1 DEF GoodFrames
<1>5. Trail(frames', position', origin)
  BY <1>2, TrailPushed
<1>6. frames' # <<>> /\ Last(frames') = f
  BY Lengths
<1>7. (position.pos = game.size => ShiftPending)'
  BY <1>1, <1>6 DEF ShiftPending, Frame
<1>8. ~Succeeding'
  BY DEF Succeeding
<1> QED BY <1>1, <1>2, <1>3, <1>4, <1>5, <1>7, <1>8 DEF SafeInv

\* A call that has come back has undone its action, unless RunAndApplyFirst
\* has succeeded.
LEMMA SafeReturns ==
  ASSUME SafeInv, IsSeq(frames), phase = "return", frames # <<>>, frames' = Front(frames),
         UNCHANGED <<moves, apiVars>>, IsPosition(game, position'), position'.pos # game.size,
         ~Succeeding => position' = Undone(Last(frames), position),
         applied' \in Seq(Steps(game)), GoodInfos(game, infos'),
         \/ UNCHANGED <<phase, call, value>> /\ (Succeeding => applied' = applied)
         \/ /\ ~Succeeding
            /\ \/ phase' = "call" /\ GoodCall(game, call')
               \/ phase' = "return" /\ ~value'
  PROVE  SafeInv'
<1>1. UNCHANGED <<game, currentBlock, operation, origin, nodes, undos>>
  BY DEF apiVars
<1>2. /\ IsPlace(game, currentBlock) /\ GoodFrames(game, frames)
      /\ moves \in Seq(Paths(game))
      /\ ~Succeeding => Trail(frames, position, origin)
      /\ Succeeding => applied # <<>>
  BY DEF SafeInv
<1>3. CallerOK' /\ IsGame(game')
  BY <1>1, CallerLeft
<1>4. GoodFrames(game, frames')
  BY <1>2, Elements DEF GoodFrames
<1>5. Succeeding' => Succeeding /\ applied' = applied
  BY DEF Succeeding
<1>6. ~Succeeding' => ~Succeeding
  BY DEF Succeeding
<1>7. ~Succeeding' => Trail(frames', position', origin')
  BY <1>1, <1>2, <1>6, TrailPopped
<1>8. phase' = "call" => GoodCall(game, call')
  OBVIOUS
<1> QED BY <1>1, <1>2, <1>3, <1>4, <1>5, <1>7, <1>8 DEF SafeInv
----
\* The steps of a search.
LEMMA SafeTest ==
  ASSUME LevelsInv, SafeInv, RunTest
  PROVE  SafeInv'
<1>1. /\ phase = "call" /\ ~AtBranch /\ UNCHANGED <<position, frames, applied, infos, moves, apiVars>>
      /\ \/ Passes(game, Action, position) /\ phase' = "call" /\ call' = Following
         \/ phase' = "return" /\ value' = FALSE
  BY DEF RunTest, Calls, Returns, searchVars
<1>2. moves' \in Seq(Paths(game))
  BY <1>1, GameFacts
<1>3. phase' = "call" => GoodCall(game, call') /\ position.pos # game.size
  <2> SUFFICES ASSUME Passes(game, Action, position), call' = Following, position.pos = game.size
               PROVE  FALSE
    BY <1>1, GoodFollowing
  <2>1. Action.type = "inBounds"
    BY <1>1 DEF SafeInv, ShiftPending, At
  <2>2. position.pos < game.size
    BY <2>1 DEF Passes, InBounds
  <2> QED BY <2>2, GameFacts, BoardFacts
<1>4. ~Succeeding'
  BY <1>1 DEF Succeeding
<1> QED BY <1>1, <1>2, <1>3, <1>4, SafeGoesOn

LEMMA SafeVisitedCheck ==
  ASSUME LevelsInv, SafeInv, RunVisitedCheck
  PROVE  SafeInv'
<1>1. /\ phase = "call" /\ ~AtBranch /\ Action.type = "visited"
      /\ UNCHANGED <<position, frames, applied, infos, moves, apiVars>>
      /\ \/ phase' = "call" /\ call' = Following
         \/ phase' = "return" /\ value' = FALSE
  BY DEF RunVisitedCheck, Calls, Returns, At
<1>2. moves' \in Seq(Paths(game)) /\ GoodCall(game, Following)
  BY <1>1, GameFacts, GoodFollowing
<1>3. position.pos # game.size
  BY <1>1 DEF SafeInv, ShiftPending, At
<1>4. ~Succeeding'
  BY <1>1 DEF Succeeding
<1> QED BY <1>1, <1>2, <1>3, <1>4, SafeGoesOn

LEMMA SafeSwitch ==
  ASSUME LevelsInv, SafeInv, RunSwitch
  PROVE  SafeInv'
<1>1. /\ phase = "call" /\ ~AtBranch /\ Action.type = "switch"
      /\ UNCHANGED <<position, frames, applied, infos, apiVars>>
      /\ moves' = Append(moves, Append(applied, Here))
      /\ phase' = "return" /\ value' = FALSE
  BY DEF RunSwitch, Returns, At
<1>2. position.pos # game.size
  BY <1>1 DEF SafeInv, ShiftPending, At
<1>3. Here \in Steps(game)
  BY <1>1, <1>2, GameFacts, ActionFacts DEF Here, Steps
<1>4. Append(applied, Here) \in Paths(game)
  <2>1. Append(applied, Here) \in Seq(Steps(game))
    BY <1>3, GameFacts
  <2>2. Append(applied, Here) # <<>>
    BY GameFacts, Lengths
  <2> QED BY <2>1, <2>2 DEF Paths
<1>5. moves' \in Seq(Paths(game))
  BY <1>1, <1>4, GameFacts
<1>6. ~Succeeding'
  BY <1>1 DEF Succeeding
<1> QED BY <1>1, <1>2, <1>5, <1>6, SafeGoesOn

LEMMA SafeCondition ==
  ASSUME LevelsInv, SafeInv, RunCondition
  PROVE  SafeInv'
<1> DEFINE f == [kind |-> "condition", negated |-> Action.negated, call |-> Following]
<1>1. /\ phase = "call" /\ ~AtBranch /\ Action.type = "condition"
      /\ UNCHANGED <<position, moves, applied, infos, apiVars>>
      /\ frames' = Append(frames, f) /\ phase' = "call"
      /\ call' = [at |-> <<Action.initial, 1>>, mode |-> "FindEnd", vertex |-> 0]
  BY DEF RunCondition, At, PushFrame, Calls
<1>2. position.pos # game.size
  BY <1>1 DEF SafeInv, ShiftPending, At
<1>3. GoodFrame(game, f) /\ Undone(f, position') = position
  BY <1>1, GoodFollowing DEF GoodFrame, Undone
<1>4. GoodCall(game, call')
  BY <1>1, ActionFacts DEF GoodCall, IsPlace
<1>5. IsPosition(game, position') /\ applied' \in Seq(Steps(game)) /\ GoodInfos(game, infos')
  BY <1>1, GameFacts
<1> HIDE DEF f
<1> QED BY <1>1, <1>2, <1>3, <1>4, <1>5, SafeEnters, LevelsFacts

LEMMA SafeConditionReturns ==
  ASSUME LevelsInv, SafeInv, ReturnCondition
  PROVE  SafeInv'
<1>1. /\ phase = "return" /\ frames # <<>> /\ Frame.kind = "condition"
      /\ frames' = Front(frames) /\ UNCHANGED <<position, moves, applied, infos, apiVars>>
      /\ \/ phase' = "call" /\ call' = Frame.call
         \/ phase' = "return" /\ value' = FALSE
  BY DEF ReturnCondition, Returning, PopFrame, Calls, Returns
<1>2. position.pos # game.size
  BY <1>1 DEF SafeInv, ShiftPending
<1>3. Undone(Last(frames), position) = position
  BY <1>1 DEF Undone, Frame
<1>4. GoodCall(game, Frame.call)
  BY <1>1, Elements, LevelsFacts DEF SafeInv, GoodFrames, GoodFrame, Frame
<1>5. ~Succeeding
  <2>1. /\ IsSeq(frames) /\ FramesOK(frames, Base)
        /\ value => call.mode = TopMode(frames, Base)
    BY <1>1 DEF LevelsInv
  <2> QED BY <1>1, <2>1, FramesPopped DEF Succeeding, Frame
<1>6. IsPosition(game, position') /\ applied' \in Seq(Steps(game)) /\ GoodInfos(game, infos')
  BY <1>1, GameFacts
<1> QED BY <1>1, <1>2, <1>3, <1>4, <1>5, <1>6, SafeReturns, LevelsFacts

LEMMA SafeConditionVisitedCheck ==
  ASSUME LevelsInv, SafeInv, RunConditionVisitedCheck
  PROVE  SafeInv'
<1> DEFINE m == Mark(Action.check)
           f == [kind |-> "result", mark |-> m]
<1>1. /\ phase = "call" /\ ~AtBranch /\ Action.type = "conditionVisited" /\ call.mode = "FindEnd"
      /\ UNCHANGED <<position, results, moves, applied, infos, apiVars>>
  BY DEF RunConditionVisitedCheck, At
<1>2. /\ position.pos # game.size /\ GoodCall(game, Following)
      /\ IsPosition(game, position) /\ moves \in Seq(Paths(game))
      /\ applied \in Seq(Steps(game)) /\ GoodInfos(game, infos)
  BY <1>1, GameFacts, GoodFollowing DEF SafeInv, ShiftPending, At
<1>3. CASE m \in Last(visited) \cup Last(results)
  <2>1. /\ UNCHANGED frames /\ phase' = "return" /\ call' = call
        /\ value' = (m \in Last(results))
    BY <1>3 DEF RunConditionVisitedCheck, Returns
  <2>2. ~Succeeding'
    BY <1>1, <2>1 DEF Succeeding
  <2> QED BY <1>1, <1>2, <2>1, <2>2, SafeGoesOn
<1>4. CASE m \notin Last(visited) \cup Last(results)
  <2>1. frames' = Append(frames, f) /\ phase' = "call" /\ call' = Following
    BY <1>4 DEF RunConditionVisitedCheck, PushFrame, Calls
  <2>2. GoodFrame(game, f) /\ Undone(f, position') = position
    BY <1>1 DEF GoodFrame, Undone
  <2> HIDE DEF f, m
  <2> QED BY <1>1, <1>2, <2>1, <2>2, SafeEnters, LevelsFacts
<1> QED BY <1>3, <1>4

LEMMA SafeResult ==
  ASSUME LevelsInv, SafeInv, ReturnResult
  PROVE  SafeInv'
<1>1. /\ phase = "return" /\ frames # <<>> /\ Frame.kind = "result"
      /\ frames' = Front(frames) /\ UNCHANGED <<position, moves, applied, infos, apiVars>>
      /\ UNCHANGED <<phase, call, value>>
  BY DEF ReturnResult, Returning, PopFrame
<1>2. position.pos # game.size
  BY <1>1 DEF SafeInv, ShiftPending
<1>3. Undone(Last(frames), position) = position
  BY <1>1 DEF Undone, Frame
<1>4. IsPosition(game, position') /\ applied' \in Seq(Steps(game)) /\ GoodInfos(game, infos')
  BY <1>1, GameFacts
<1> QED BY <1>1, <1>2, <1>3, <1>4, SafeReturns, LevelsFacts

LEMMA SafeShift ==
  ASSUME LevelsInv, SafeInv, RunShift
  PROVE  SafeInv'
<1> DEFINE f == [kind |-> "shift", mode |-> call.mode, action |-> Action,
                 saved |-> Saved(Action, position)]
<1>1. /\ phase = "call" /\ ~AtBranch /\ Action.type = "shift"
      /\ UNCHANGED <<moves, applied, infos, apiVars>>
      /\ position' = Applied(game, Action, position)
      /\ frames' = Append(frames, f) /\ phase' = "call" /\ call' = Following
  BY DEF RunShift, At, PushFrame, Calls
<1>2. /\ position.pos \in Squares(game) /\ IsBoard(game) /\ IsPosition(game, position)
      /\ applied \in Seq(Steps(game)) /\ GoodInfos(game, infos) /\ GoodCall(game, Following)
  BY <1>1, GameFacts, GoodFollowing DEF SafeInv, ShiftPending, At
<1>3. IsChange(game, Action)
  BY <1>1, ActionFacts DEF IsChange, ModifierTypes
<1>4. /\ IsPosition(game, position') /\ IsSaved(game, Action, Saved(Action, position))
      /\ Reverted(Action, position', Saved(Action, position)) = position
  BY <1>1, <1>2, <1>3, ChangeApplied
<1>5. /\ f.kind = "shift" /\ GoodFrame(game, f)
      /\ Undone(f, position') = position
  BY <1>1, <1>3, <1>4 DEF GoodFrame, Undone
<1>6. At("inBounds")'
  <2> DEFINE i == call.at[2]
             acts == game.blocks[call.at[1]].acts
  <2>1. /\ Block.acts = acts /\ i \in Nat /\ i < Len(acts) /\ acts[i + 1].type = "inBounds"
        /\ call.at[1] \in DOMAIN game.blocks
    BY <1>1, ActionFacts DEF Block
  <2>2. acts \in Seq(ToSet(acts))
    BY <2>1 DEF SafeInv, IsGame, AreBlocks
  <2>3. call'.at = <<call.at[1], i + 1>> /\ game' = game
    BY <1>1, GoodFollowing DEF apiVars
  <2>4. Block'.acts = acts /\ call'.at[2] = i + 1
    BY <2>3 DEF Block
  <2>5. ~(i + 1 > Len(acts))
    <3> HIDE DEF i, acts
    <3> QED BY <2>1, <2>2
  <2>6. Action'.type = "inBounds" /\ ~AtBranch'
    <3> HIDE DEF i, acts
    <3> QED BY <2>1, <2>4, <2>5 DEF Action, AtBranch
  <2> QED BY <1>1, <2>6 DEF At
<1> HIDE DEF f
<1> QED BY <1>1, <1>2, <1>4, <1>5, <1>6, SafeEnters, LevelsFacts

\* The frame on top of the stack, and whether its call succeeds for good.
LEMMA TopFrame ==
  ASSUME LevelsInv, SafeInv, phase = "return", frames # <<>>
  PROVE  /\ GoodFrame(game, Frame) /\ Frame = Last(frames) /\ IsSeq(frames)
         /\ Frame.kind \in {"shift", "modifier"} =>
              (Frame.mode = "ApplyFirst" /\ value <=> Succeeding)
         /\ Frame.kind = "branch" => IsCall(Frame.call) /\ (Succeeding => value)
<1>1. /\ IsSeq(frames) /\ FramesOK(frames, Base) /\ (value => call.mode = TopMode(frames, Base))
  BY DEF LevelsInv
<1>2. Last(frames) \in ToSet(frames) /\ Frame = Last(frames)
  BY <1>1, Elements DEF Frame
<1>3. GoodFrame(game, Frame)
  BY <1>2 DEF SafeInv, GoodFrames
<1>4. /\ IsFrame(Frame)
      /\ Frame.kind # "result" => FrameMode(Frame) = TopMode(Front(frames), Base)
      /\ TopMode(frames, Base) =
           IF Frame.kind = "condition" THEN "FindEnd" ELSE TopMode(Front(frames), Base)
  BY <1>1, <1>2, FramesPopped
<1>5. ASSUME Frame.kind \in {"shift", "modifier"}
      PROVE  Frame.mode = "ApplyFirst" /\ value <=> Succeeding
  <2>1. Frame.mode = TopMode(frames, Base)
    BY <1>4, <1>5 DEF FrameMode
  <2> QED BY <1>1, <2>1 DEF Succeeding
<1>6. Frame.kind = "branch" => IsCall(Frame.call)
  BY <1>4 DEF IsFrame
<1> QED BY <1>1, <1>2, <1>3, <1>5, <1>6 DEF Succeeding

LEMMA SafeShiftReturns ==
  ASSUME LevelsInv, SafeInv, ReturnShift
  PROVE  SafeInv'
<1>1. /\ phase = "return" /\ frames # <<>> /\ Frame.kind = "shift"
      /\ frames' = Front(frames) /\ UNCHANGED <<moves, applied, infos, apiVars>>
      /\ UNCHANGED <<phase, call, value>>
      /\ position' = IF Frame.mode = "ApplyFirst" /\ value THEN position
                     ELSE Reverted(Frame.action, position, Frame.saved)
  BY DEF ReturnShift, Returning, PopFrame
<1>2. /\ GoodFrame(game, Frame) /\ Frame = Last(frames) /\ IsSeq(frames)
      /\ Frame.mode = "ApplyFirst" /\ value <=> Succeeding
  BY <1>1, TopFrame
<1>3. /\ IsBoard(game) /\ IsPosition(game, position)
      /\ applied' \in Seq(Steps(game)) /\ GoodInfos(game, infos')
  BY <1>1, GameFacts
<1>4. CASE Succeeding
  <2>1. position' = position /\ position.pos # game.size
    BY <1>1, <1>2, <1>4 DEF SafeInv, ShiftPending, Succeeding, At
  <2> QED BY <1>1, <1>2, <1>3, <1>4, <2>1, SafeReturns
<1>5. CASE ~Succeeding
  <2>1. /\ IsChange(game, Frame.action) /\ Frame.action.type = "shift"
        /\ IsSaved(game, Frame.action, Frame.saved) /\ Frame.saved \in Squares(game)
    BY <1>1, <1>2 DEF GoodFrame, IsSaved
  <2>2. position' = Reverted(Frame.action, position, Frame.saved)
    BY <1>1, <1>2, <1>5
  <2>3. IsPosition(game, position') /\ position'.pos = Frame.saved
    BY <1>3, <2>1, <2>2, ChangeReverted
  <2>4. position'.pos # game.size
    BY <1>3, <2>1, <2>3, BoardFacts
  <2>5. position' = Undone(Last(frames), position)
    BY <1>1, <1>2, <2>2 DEF Undone
  <2> QED BY <1>1, <1>2, <1>3, <1>5, <2>3, <2>4, <2>5, SafeReturns
<1> QED BY <1>4, <1>5

\* What a modifier that is run leaves: a step of the move, what undoes it.
LEMMA ModifierFacts ==
  ASSUME LevelsInv, SafeInv, phase = "call", ~AtBranch,
         Action.type \in ModifierTypes \cup {"switch"}
  PROVE  /\ position.pos \in Squares(game) /\ IsBoard(game) /\ IsPosition(game, position)
         /\ IsChange(game, Action) /\ Action.type # "shift"
         /\ IsPosition(game, Applied(game, Action, position))
         /\ Applied(game, Action, position).pos = position.pos
         /\ IsSaved(game, Action, Saved(Action, position))
         /\ Reverted(Action, Applied(game, Action, position), Saved(Action, position)) = position
         /\ Append(applied, Here) \in Seq(Steps(game))
         /\ \A v \in Squares(game) : GoodInfos(game, Append(infos, RevertInfo(v)))
<1>1. Action.type # "shift" /\ Action.type # "inBounds"
  BY DEF ModifierTypes
<1>2. /\ position.pos \in Squares(game) /\ IsBoard(game) /\ IsPosition(game, position)
      /\ applied \in Seq(Steps(game)) /\ GoodInfos(game, infos)
  BY <1>1, GameFacts DEF SafeInv, ShiftPending, At
<1>3. IsChange(game, Action) /\ Action.index \in DOMAIN game.modifiers
  BY ActionFacts, <1>1 DEF IsChange
<1>4. /\ IsPosition(game, Applied(game, Action, position))
      /\ Applied(game, Action, position).pos = position.pos
      /\ IsSaved(game, Action, Saved(Action, position))
      /\ Reverted(Action, Applied(game, Action, position), Saved(Action, position)) = position
  BY <1>1, <1>2, <1>3, ChangeApplied
<1>5. Here \in Steps(game)
  BY <1>2, <1>3 DEF Here, Steps
<1>6. Append(applied, Here) \in Seq(Steps(game))
  BY <1>2, <1>5
<1>7. ASSUME NEW v \in Squares(game)
      PROVE  GoodInfos(game, Append(infos, RevertInfo(v)))
  <2>1. GoodInfo(game, RevertInfo(v))
    BY <1>1, <1>3, <1>4 DEF GoodInfo, RevertInfo
  <2>2. ToSet(Append(infos, RevertInfo(v))) = ToSet(infos) \cup {RevertInfo(v)}
    BY <1>2, Elements DEF GoodInfos
  <2>3. IsSeq(Append(infos, RevertInfo(v)))
    BY <1>2, Elements DEF GoodInfos
  <2> QED BY <1>2, <2>1, <2>2, <2>3 DEF GoodInfos
<1> QED BY <1>1, <1>2, <1>3, <1>4, <1>6, <1>7

LEMMA SafeModifier ==
  ASSUME LevelsInv, SafeInv, RunModifier
  PROVE  SafeInv'
<1> DEFINE f == [kind |-> "modifier", mode |-> call.mode, action |-> Action,
                 saved |-> Saved(Action, position)]
<1>1. /\ phase = "call" /\ ~AtBranch /\ Action.type \in ModifierTypes \cup {"switch"}
      /\ UNCHANGED <<moves, apiVars>>
      /\ position' = Applied(game, Action, position)
      /\ applied' = Append(applied, Here)
      /\ infos' = IF call.mode = "ApplyFirst" THEN Append(infos, RevertInfo(call.vertex)) ELSE infos
      /\ frames' = Append(frames, f) /\ phase' = "call"
      /\ call' = [Following EXCEPT !.vertex = position.pos]
  BY DEF RunModifier, PushFrame, Calls, LevelPushed
<1>2. /\ position.pos \in Squares(game) /\ IsBoard(game)
      /\ IsChange(game, Action) /\ Action.type # "shift"
      /\ IsPosition(game, position') /\ position'.pos = position.pos
      /\ IsSaved(game, Action, Saved(Action, position))
      /\ Reverted(Action, position', Saved(Action, position)) = position
      /\ applied' \in Seq(Steps(game))
      /\ \A v \in Squares(game) : GoodInfos(game, Append(infos, RevertInfo(v)))
  BY <1>1, ModifierFacts
<1>3. GoodFrame(game, f) /\ Undone(f, position') = position
  BY <1>2 DEF GoodFrame, Undone
<1>4. GoodCall(game, call')
  <2>1. /\ GoodCall(game, Following)
        /\ Following = [at |-> Following.at, mode |-> Following.mode, vertex |-> Following.vertex]
    BY <1>1, GoodFollowing DEF IsCall
  <2> DEFINE c == Following
  <2> HIDE DEF c
  <2>2. call' = [at |-> c.at, mode |-> c.mode, vertex |-> position.pos]
    BY <1>1, <2>1 DEF c
  <2> QED BY <1>2, <2>1, <2>2 DEF GoodCall, c
<1>5. GoodInfos(game, infos')
  BY <1>1, <1>2, GoodFollowing, GameFacts DEF GoodCall
<1>6. position'.pos # game.size
  BY <1>2, BoardFacts
<1> HIDE DEF f
<1> QED BY <1>1, <1>2, <1>3, <1>4, <1>5, <1>6, SafeEnters, LevelsFacts

LEMMA SafeModifierReturns ==
  ASSUME LevelsInv, SafeInv, ReturnModifier
  PROVE  SafeInv'
<1>1. /\ phase = "return" /\ frames # <<>> /\ Frame.kind = "modifier"
      /\ frames' = Front(frames) /\ UNCHANGED <<moves, apiVars>>
      /\ UNCHANGED <<phase, call, value>>
      /\ IF Frame.mode = "ApplyFirst" /\ value
         THEN UNCHANGED <<position, applied, infos>>
         ELSE /\ position' = Reverted(Frame.action, position, Frame.saved)
              /\ applied' = Front(applied)
              /\ infos' = IF Frame.mode = "ApplyFirst" THEN Front(infos) ELSE infos
  BY DEF ReturnModifier, Returning, PopFrame, LevelPopped
<1>2. /\ GoodFrame(game, Frame) /\ Frame = Last(frames) /\ IsSeq(frames)
      /\ Frame.mode = "ApplyFirst" /\ value <=> Succeeding
  BY <1>1, TopFrame
<1>3. /\ IsBoard(game) /\ IsPosition(game, position) /\ position.pos \in Squares(game)
      /\ applied \in Seq(Steps(game)) /\ IsSeq(applied) /\ GoodInfos(game, infos) /\ IsSeq(infos)
  BY <1>1, GameFacts DEF SafeInv, ShiftPending
<1>4. CASE Succeeding
  <2>1. UNCHANGED <<position, applied, infos>>
    BY <1>1, <1>2, <1>4
  <2>2. position.pos # game.size
    BY <1>3, BoardFacts
  <2> QED BY <1>1, <1>2, <1>3, <1>4, <2>1, <2>2, SafeReturns
<1>5. CASE ~Succeeding
  <2>1. /\ IsChange(game, Frame.action) /\ Frame.action.type # "shift"
        /\ IsSaved(game, Frame.action, Frame.saved)
    BY <1>1, <1>2 DEF GoodFrame
  <2>2. /\ position' = Reverted(Frame.action, position, Frame.saved)
        /\ applied' = Front(applied) /\ infos' \in {Front(infos), infos}
    BY <1>1, <1>2, <1>5
  <2>3. IsPosition(game, position') /\ position'.pos = position.pos
    BY <1>3, <2>1, <2>2, ChangeReverted
  <2>4. position'.pos # game.size
    BY <1>3, <2>3, BoardFacts
  <2>5. position' = Undone(Last(frames), position)
    BY <1>1, <1>2, <2>2 DEF Undone
  <2>6. applied' \in Seq(Steps(game))
    <3>1. ToSet(applied') \subseteq ToSet(applied) /\ IsSeq(applied')
      BY <1>3, <2>2, Elements
    <3>2. ToSet(applied) \subseteq Steps(game)
      BY <1>3 DEF ToSet
    <3> QED BY <3>1, <3>2, SeqMonotonic DEF IsSeq, ToSet
  <2>7. GoodInfos(game, infos')
    <3>1. ToSet(Front(infos)) \subseteq ToSet(infos) /\ IsSeq(Front(infos))
      BY <1>3, Elements
    <3> QED BY <1>3, <2>2, <3>1 DEF GoodInfos
  <2> QED BY <1>1, <1>2, <1>5, <2>3, <2>4, <2>5, <2>6, <2>7, SafeReturns
<1> QED BY <1>4, <1>5

LEMMA SafeApplySwitch ==
  ASSUME LevelsInv, SafeInv, ApplySwitch
  PROVE  SafeInv'
<1>1. /\ phase = "call" /\ ~AtBranch /\ Action.type = "switch" /\ call.mode = "ApplyFirst"
      /\ UNCHANGED <<moves, apiVars, frames>>
      /\ position' = Applied(game, Action, position)
      /\ applied' = Append(applied, Here) /\ infos' = Append(infos, RevertInfo(position.pos))
      /\ phase' = "return" /\ value' = TRUE /\ call' = call
  BY DEF ApplySwitch, At, LevelPushed, Returns
<1>2. /\ position.pos \in Squares(game) /\ IsBoard(game)
      /\ IsPosition(game, position') /\ position'.pos = position.pos
      /\ applied' \in Seq(Steps(game)) /\ GoodInfos(game, infos')
  BY <1>1, ModifierFacts
<1>3. UNCHANGED <<game, currentBlock, operation, origin, nodes, undos>>
  BY <1>1 DEF apiVars
<1>4. CallerOK' /\ IsGame(game')
  BY <1>1, <1>3, CallerLeft
<1>5. position'.pos # game.size
  BY <1>2, BoardFacts
<1>6. applied' # <<>>
  BY <1>1, GameFacts, Lengths
<1>7. Succeeding'
  BY <1>1 DEF Succeeding
<1>8. IsPlace(game, currentBlock) /\ GoodFrames(game, frames) /\ moves \in Seq(Paths(game))
  BY DEF SafeInv
<1> QED BY <1>1, <1>2, <1>3, <1>4, <1>5, <1>6, <1>7, <1>8 DEF SafeInv

\* A call moved to the beginning of a block.
LEMMA CallOfBlock ==
  ASSUME NEW g, NEW c, IsCall(c), GoodCall(g, c), NEW b \in DOMAIN g.blocks
  PROVE  GoodCall(g, [c EXCEPT !.at = <<b, 1>>])
<1> DEFINE at == <<b, 1>>
<1>1. c = [at |-> c.at, mode |-> c.mode, vertex |-> c.vertex]
  BY DEF IsCall
<1>2. at \in (DOMAIN g.blocks) \X (Nat \ {0})
  OBVIOUS
<1> HIDE DEF at
<1>3. [c EXCEPT !.at = at] = [at |-> at, mode |-> c.mode, vertex |-> c.vertex]
  BY <1>1
<1>4. GoodCall(g, [c EXCEPT !.at = at])
  BY <1>2, <1>3 DEF GoodCall, IsPlace
<1> QED BY <1>4 DEF at

LEMMA SafeBranch ==
  ASSUME LevelsInv, SafeInv, RunBranch
  PROVE  SafeInv'
<1> DEFINE nexts == Block.nexts
           To(k) == [call EXCEPT !.at = <<nexts[k], 1>>]
           f == [kind |-> "branch", rest |-> Tail(nexts), call |-> call]
<1>1. /\ phase = "call" /\ AtBranch
      /\ UNCHANGED <<position, applied, moves, infos, apiVars>>
      /\ \/ Len(nexts) = 0 /\ Returns(call.mode = "FindEnd") /\ UNCHANGED frames
         \/ Len(nexts) = 1 /\ Calls(To(1)) /\ UNCHANGED frames
         \/ Len(nexts) # 0 /\ Len(nexts) # 1 /\ Calls(To(1)) /\ PushFrame(f)
  BY DEF RunBranch, searchVars
<1>2. /\ position.pos # game.size /\ IsPosition(game, position)
      /\ applied \in Seq(Steps(game)) /\ moves \in Seq(Paths(game)) /\ GoodInfos(game, infos)
      /\ GoodCall(game, call) /\ IsCall(call)
  BY <1>1, GameFacts, GoodFollowing, LevelsFacts DEF SafeInv, ShiftPending, At
<1>3. nexts \in Seq(DOMAIN game.blocks)
  <2>1. call.at[1] \in DOMAIN game.blocks
    BY <1>2 DEF GoodCall, IsPlace
  <2> QED BY <2>1 DEF SafeInv, IsGame, AreBlocks, Block
<1> HIDE DEF nexts
<1>4. ASSUME Len(nexts) # 0
      PROVE  GoodCall(game, To(1))
  <2>1. nexts[1] \in DOMAIN game.blocks
    BY <1>3, <1>4
  <2> QED BY <1>2, <2>1, CallOfBlock
<1>5. CASE Len(nexts) = 0
  <2>1. phase' = "return" /\ value' = (call.mode = "FindEnd") /\ call' = call /\ UNCHANGED frames
    BY <1>1, <1>5 DEF Returns
  <2>2. ~Succeeding'
    BY <2>1 DEF Succeeding
  <2> QED BY <1>1, <1>2, <2>1, <2>2, SafeGoesOn
<1>6. CASE Len(nexts) = 1
  <2>1. phase' = "call" /\ call' = To(1) /\ UNCHANGED frames
    BY <1>1, <1>6 DEF Calls
  <2>2. ~Succeeding' /\ GoodCall(game, call')
    BY <1>4, <1>6, <2>1 DEF Succeeding
  <2> HIDE DEF To
  <2> QED BY <1>1, <1>2, <2>1, <2>2, SafeGoesOn
<1>7. CASE Len(nexts) # 0 /\ Len(nexts) # 1
  <2>1. phase' = "call" /\ call' = To(1) /\ frames' = Append(frames, f)
    BY <1>1, <1>7 DEF Calls, PushFrame
  <2>2. GoodCall(game, call')
    BY <1>4, <1>7, <2>1
  <2>3. GoodFrame(game, f) /\ Undone(f, position') = position
    <3>1. Tail(nexts) \in Seq(DOMAIN game.blocks)
      BY <1>3, <1>7
    <3> QED BY <1>1, <1>2, <3>1 DEF GoodFrame, Undone
  <2> HIDE DEF To, f
  <2> QED BY <1>1, <1>2, <2>1, <2>2, <2>3, SafeEnters, LevelsFacts
<1> QED BY <1>5, <1>6, <1>7

LEMMA SafeBranchReturns ==
  ASSUME LevelsInv, SafeInv, ReturnBranch
  PROVE  SafeInv'
<1>1. /\ phase = "return" /\ frames # <<>> /\ Frame.kind = "branch"
      /\ UNCHANGED <<position, applied, moves, infos, apiVars>>
  BY DEF ReturnBranch, Returning, searchVars
<1>2. /\ GoodFrame(game, Frame) /\ Frame = Last(frames) /\ IsSeq(frames) /\ IsCall(Frame.call)
      /\ Succeeding => value
  BY <1>1, TopFrame
<1>3. /\ position.pos # game.size /\ IsPosition(game, position)
      /\ applied \in Seq(Steps(game)) /\ moves \in Seq(Paths(game)) /\ GoodInfos(game, infos)
  BY <1>1, GameFacts DEF SafeInv, ShiftPending
<1>4. Undone(Last(frames), position) = position
  BY <1>1, <1>2 DEF Undone
<1>5. CASE value \/ Frame.rest = <<>>
  <2>1. frames' = Front(frames) /\ UNCHANGED <<phase, call, value>>
    BY <1>5 DEF ReturnBranch, PopFrame
  <2> QED BY <1>1, <1>2, <1>3, <1>4, <2>1, SafeReturns
<1>6. CASE ~(value \/ Frame.rest = <<>>)
  <2> DEFINE f == [Frame EXCEPT !.rest = Tail(@)]
  <2>1. /\ frames' = Append(Front(frames), f) /\ phase' = "call"
        /\ call' = [Frame.call EXCEPT !.at = <<Head(Frame.rest), 1>>]
    BY <1>6 DEF ReturnBranch, Calls
  <2>2. /\ GoodCall(game, Frame.call) /\ Frame.rest \in Seq(DOMAIN game.blocks)
        /\ Head(Frame.rest) \in DOMAIN game.blocks /\ Tail(Frame.rest) \in Seq(DOMAIN game.blocks)
    <3>1. GoodCall(game, Frame.call) /\ Frame.rest \in Seq(DOMAIN game.blocks)
      BY <1>1, <1>2 DEF GoodFrame
    <3>2. Frame.rest # <<>>
      BY <1>6
    <3> DEFINE rest == Frame.rest
    <3> HIDE DEF rest
    <3>3. Head(rest) \in DOMAIN game.blocks /\ Tail(rest) \in Seq(DOMAIN game.blocks)
      BY <3>1, <3>2, HeadTailProperties DEF rest
    <3> QED BY <3>1, <3>3 DEF rest
  <2>3. GoodCall(game, call')
    BY <1>2, <2>1, <2>2, CallOfBlock
  <2>4. f.kind = "branch" /\ f.rest = Tail(Frame.rest) /\ f.call = Frame.call
    <3>1. Frame = [kind |-> Frame.kind, rest |-> Frame.rest, call |-> Frame.call]
      BY <1>1, <1>2, FramesPopped DEF LevelsInv, IsFrame
    <3> DEFINE r == Frame
    <3> HIDE DEF r
    <3>2. /\ [r EXCEPT !.rest = Tail(@)].kind = r.kind
          /\ [r EXCEPT !.rest = Tail(@)].rest = Tail(r.rest)
          /\ [r EXCEPT !.rest = Tail(@)].call = r.call
      <4>1. r = [kind |-> r.kind, rest |-> r.rest, call |-> r.call]
        BY <3>1 DEF r
      <4> QED BY <4>1
    <3> QED BY <1>1, <3>2 DEF r
  <2>5. GoodFrame(game, f) /\ Undone(f, position) = position
    <3> HIDE DEF f
    <3> QED BY <2>2, <2>4 DEF GoodFrame, Undone
  <2> HIDE DEF f
  <2>6. ~Succeeding /\ ~Succeeding'
    BY <1>6, <1>2, <2>1 DEF Succeeding
  <2>7. Trail(frames', position, origin)
    <3>1. IsSeq(Front(frames)) /\ Trail(frames, position, origin)
      BY <1>1, <1>2, <2>6, Elements DEF SafeInv
    <3>2. Trail(Front(frames), position, origin)
      BY <1>1, <1>2, <1>4, <3>1, TrailPopped
    <3> QED BY <2>1, <2>5, <3>1, <3>2, TrailPushed
  <2>8. GoodFrames(game, frames')
    <3>1. IsSeq(Front(frames)) /\ ToSet(Front(frames)) \subseteq ToSet(frames)
      BY <1>2, Elements
    <3>2. ToSet(frames') = ToSet(Front(frames)) \cup {f}
      BY <2>1, <3>1, Elements
    <3> QED BY <2>5, <3>1, <3>2 DEF SafeInv, GoodFrames
  <2>9. UNCHANGED <<game, currentBlock, operation, origin, nodes, undos>>
    BY <1>1 DEF apiVars
  <2>10. CallerOK' /\ IsGame(game') /\ IsPlace(game, currentBlock)
    BY <2>1, <2>9, CallerLeft DEF SafeInv
  <2> QED BY <1>1, <1>3, <2>1, <2>3, <2>6, <2>7, <2>8, <2>9, <2>10 DEF SafeInv
<1> QED BY <1>5, <1>6

----
\* The steps of the API: they run with no frame, on the board.
LEMMA SafeLoop ==
  ASSUME SafeInv, UNCHANGED game, frames' = <<>>,
         IsPosition(game, position'), position'.pos # game.size, IsPlace(game, currentBlock'),
         applied' \in Seq(Steps(game)), moves' \in Seq(Paths(game)), GoodInfos(game, infos'),
         CallerOK', phase' \in {"idle", "call"} \cup LoopPhases,
         phase' = "call" => GoodCall(game, call') /\ origin' = position'
  PROVE  SafeInv'
<1>1. IsGame(game) /\ ToSet(<<>>) = {}
  BY DEF SafeInv, ToSet
<1>2. GoodFrames(game, frames')
  BY <1>1 DEF GoodFrames
<1>3. ~Succeeding'
  BY DEF Succeeding, LoopPhases
<1>4. phase' \in {"call", "return"} => Trail(frames', position', origin')
  <2>1. SUFFICES ASSUME phase' = "call"
                 PROVE  Trail(frames', position', origin')
    BY DEF LoopPhases
  <2>2. Trail(<<>>, position', origin')
    BY <2>1, TrailEmpty
  <2> QED BY <2>2
<1>5. /\ phase' = "call" => GoodCall(game', call')
      /\ (position.pos = game.size => ShiftPending)'
      /\ IsGame(game') /\ IsPosition(game', position') /\ IsPlace(game', currentBlock')
      /\ applied' \in Seq(Steps(game')) /\ moves' \in Seq(Paths(game')) /\ GoodInfos(game', infos')
  BY <1>1
<1> QED BY <1>2, <1>3, <1>4, <1>5 DEF SafeInv

LEMMA Empties ==
  ASSUME NEW g
  PROVE  /\ <<>> \in Seq(Steps(g)) /\ <<>> \in Seq(Paths(g)) /\ GoodInfos(g, <<>>)
         /\ GoodNodes(g, <<NewNode>>) /\ GoodUndos(g, <<>>)
         /\ NewNode.moves \in Seq(Paths(g)) /\ Len(<<NewNode>>) = 1 /\ Len(<<>>) = 0
<1>1. IsSeq(<<>>) /\ ToSet(<<>>) = {}
  BY NoFrames DEF ToSet
<1>2. IsSeq(<<NewNode>>) /\ ToSet(<<NewNode>>) = {NewNode} /\ Len(<<NewNode>>) = 1
  <2> DEFINE n == NewNode
  <2> HIDE DEF n
  <2>1. <<n>> \in Seq({n}) /\ Len(<<n>>) = 1 /\ DOMAIN <<n>> = {1} /\ <<n>>[1] = n
    OBVIOUS
  <2>2. IsSeq(<<n>>)
    BY <2>1, IsSeqIntro
  <2>3. {<<n>>[i] : i \in DOMAIN <<n>>} = {n}
    BY <2>1
  <2> QED BY <2>1, <2>2, <2>3 DEF n, ToSet
<1>3. NewNode.moves = <<>>
  BY DEF NewNode
<1>4. <<>> \in Seq(Steps(g)) /\ <<>> \in Seq(Paths(g)) /\ Len(<<>>) = 0
  OBVIOUS
<1>5. GoodInfos(g, <<>>) /\ GoodUndos(g, <<>>)
  BY <1>1 DEF GoodInfos, GoodUndos
<1>6. GoodNodes(g, <<NewNode>>)
  <2>1. \A n \in ToSet(<<NewNode>>) : n.moves \in Seq(Paths(g))
    BY <1>2, <1>3, <1>4, Zenon
  <2> QED BY <1>2, <2>1 DEF GoodNodes
<1> QED BY <1>2, <1>3, <1>4, <1>5, <1>6

\* The state between two calls of the API, and between two turns of a loop.
LEMMA LoopFacts ==
  ASSUME LevelsInv, SafeInv, frames = <<>>
  PROVE  /\ position.pos \in Squares(game) /\ position.pos # game.size
         /\ IsBoard(game) /\ IsPosition(game, position) /\ IsPlace(game, currentBlock)
         /\ applied \in Seq(Steps(game)) /\ moves \in Seq(Paths(game))
         /\ GoodInfos(game, infos) /\ IsSeq(infos)
         /\ CallerOK /\ IsSeq(nodes) /\ IsSeq(undos)
         /\ Len(nodes) \in Nat /\ Len(undos) \in Nat
         /\ operation # "Apply" => nodes # <<>>
<1>1. ~ShiftPending
  BY DEF ShiftPending
<1>2. CallerOK
  BY DEF SafeInv
<1>3. IsSeq(nodes) /\ IsSeq(undos) /\ Len(nodes) \in Nat /\ Len(undos) \in Nat
  BY GameFacts, IsSeqFacts
<1>4. operation # "Apply" => nodes # <<>>
  BY <1>2, <1>3, IsSeqFacts DEF CallerOK
<1> QED BY <1>1, <1>2, <1>3, <1>4, GameFacts, OnTheBoard

\* A path ends in a step of the game, and the step leads to a block.
LEMMA PathFacts ==
  ASSUME SafeInv, NEW m \in Paths(game)
  PROVE  /\ \A i \in 1 .. Len(m) : m[i] \in Steps(game)
         /\ Last(m) \in Steps(game) /\ IsPlace(game, Switch(game, Last(m)[2]))
<1>1. m \in Seq(Steps(game)) /\ m # <<>>
  BY DEF Paths
<1>2. Last(m) \in Steps(game)
  BY <1>1 DEF Last
<1>3. Last(m)[2] \in DOMAIN game.modifiers
  BY <1>2 DEF Steps
<1>4. game.modifiers[Last(m)[2]] \in DOMAIN game.blocks
  <2>1. IsGame(game)
    BY DEF SafeInv
  <2>2. AreBlocks(game)
    BY <2>1 DEF IsGame
  <2> QED BY <1>3, <2>2 DEF AreBlocks
<1> QED BY <1>1, <1>2, <1>4 DEF Switch, IsPlace

\* The modifier of a step is a change other than a shift.
LEMMA StepFacts ==
  ASSUME SafeInv, NEW index \in DOMAIN game.modifiers
  PROVE  IsChange(game, Modifier(game, index)) /\ Modifier(game, index).type # "shift"
<1> DEFINE b == game.modifiers[index]
           acts == game.blocks[b].acts
<1>0. AreBlocks(game)
  BY DEF SafeInv, IsGame
<1>1. /\ b \in DOMAIN game.blocks /\ acts # <<>>
      /\ acts[1].type \in ModifierTypes \cup {"switch"}
  BY <1>0 DEF AreBlocks, Modifier
<1>2. acts \in Seq(ToSet(acts)) /\ \A i \in DOMAIN acts : IsElement(game, acts, i)
  BY <1>0, <1>1 DEF AreBlocks
<1>3. 1 \in DOMAIN acts
  <2> HIDE DEF acts
  <2> QED BY <1>1, <1>2
<1>4. acts[1].type = "off" => acts[1].piece \in PiecesOf(game)
  <2> HIDE DEF acts
  <2>1. IsElement(game, acts, 1)
    BY <1>2, <1>3
  <2> QED BY <2>1 DEF IsElement, PiecesOf
<1>5. Modifier(game, index) = acts[1]
  BY DEF Modifier
<1> QED BY <1>1, <1>4, <1>5 DEF IsChange, ModifierTypes

LEMMA SafeClosureRun ==
  ASSUME LevelsInv, SafeInv, ClosureRun
  PROVE  SafeInv'
<1>1. /\ phase = "closure" /\ applied' = <<>> /\ moves' = <<>> /\ phase' = "call"
      /\ call' = [at |-> currentBlock, mode |-> "ApplyFirst", vertex |-> position.pos]
      /\ origin' = position
      /\ UNCHANGED <<position, infos, game, currentBlock, operation, nodes, undos, frames>>
  BY DEF ClosureRun, Calls
<1>2. frames = <<>>
  BY <1>1 DEF LevelsInv, LoopPhases
<1>3. GoodCall(game, call')
  BY <1>1, <1>2, LoopFacts DEF GoodCall
<1>4. CallerOK'
  BY <1>1, <1>2, LoopFacts DEF CallerOK
<1> QED BY <1>1, <1>2, <1>3, <1>4, LoopFacts, Empties, SafeLoop DEF LoopPhases

LEMMA SafeClosureReturn ==
  ASSUME LevelsInv, SafeInv, ClosureReturn
  PROVE  SafeInv'
<1>1. /\ phase = "return" /\ frames = <<>> /\ operation # "Moves" /\ phase' = "closure"
      /\ \/ value /\ currentBlock' = Switch(game, Last(applied)[2]) /\ applied' = <<>>
         \/ UNCHANGED <<currentBlock, applied>>
      /\ UNCHANGED <<position, infos, moves, game, operation, nodes, undos, frames>>
  BY DEF ClosureReturn
<1>2. value => Succeeding
  <2>1. value => call.mode = TopMode(frames, Base)
    BY <1>1 DEF LevelsInv
  <2>2. TopMode(frames, Base) = "ApplyFirst"
    BY <1>1, NoFrames DEF Base
  <2> QED BY <1>1, <2>1, <2>2 DEF Succeeding
<1>3. value => applied \in Paths(game)
  BY <1>2 DEF SafeInv, Paths
<1>4. IsPlace(game, currentBlock') /\ applied' \in Seq(Steps(game))
  BY <1>1, <1>3, PathFacts, LoopFacts, Empties
<1>5. CallerOK'
  BY <1>1, LoopFacts DEF CallerOK
<1> QED BY <1>1, <1>4, <1>5, LoopFacts, SafeLoop DEF LoopPhases

\* The last undo record, and its infos replaced.
LEMMA TopUndo ==
  ASSUME SafeInv, undos # <<>>
  PROVE  /\ GoodUndo(game, Last(undos)) /\ GoodInfos(game, Last(undos).infos)
         /\ \A is : GoodInfos(game, is) =>
              LET us == [undos EXCEPT ![Len(undos)].infos = is]
              IN  GoodUndos(game, us) /\ Len(us) = Len(undos) /\ us # <<>>
<1> DEFINE u == Last(undos)
<1>1. IsSeq(undos) /\ GoodUndos(game, undos)
  BY DEF SafeInv, CallerOK, GoodUndos
<1>2. u \in ToSet(undos) /\ u = undos[Len(undos)]
  BY <1>1, Elements, Popped
<1>3. GoodUndo(game, u)
  BY <1>1, <1>2 DEF GoodUndos
<1>4. /\ GoodInfos(game, u.infos) /\ IsPlace(game, u.block) /\ u.move \in Paths(game)
      /\ u = [block |-> u.block, infos |-> u.infos, move |-> u.move, position |-> u.position]
  BY <1>3 DEF GoodUndo
<1> HIDE DEF u
<1>5. ASSUME NEW is, GoodInfos(game, is)
      PROVE  LET us == [undos EXCEPT ![Len(undos)].infos = is]
             IN  GoodUndos(game, us) /\ Len(us) = Len(undos) /\ us # <<>>
  <2> DEFINE e == [u EXCEPT !.infos = is]
             us == [undos EXCEPT ![Len(undos)] = e]
  <2>1. e = [block |-> u.block, infos |-> is, move |-> u.move, position |-> u.position]
    BY <1>4
  <2>2. GoodUndo(game, e)
    <3>1. e.block = u.block /\ e.infos = is /\ e.move = u.move /\ e.position = u.position
      BY <2>1
    <3> HIDE DEF e
    <3> QED BY <1>4, <1>5, <2>1, <3>1 DEF GoodUndo
  <2>3. [undos EXCEPT ![Len(undos)].infos = is] = us
    BY <1>2
  <2> HIDE DEF e
  <2>4. IsSeq(us) /\ ToSet(us) \subseteq ToSet(undos) \cup {e} /\ Len(us) = Len(undos)
    BY <1>1, Elements
  <2>5. us # <<>>
    BY <1>1, <2>4, IsSeqFacts
  <2> HIDE DEF us
  <2>6. GoodUndos(game, us)
    BY <1>1, <2>2, <2>4 DEF GoodUndos
  <2> QED BY <2>3, <2>4, <2>5, <2>6
<1> QED BY <1>3, <1>4, <1>5 DEF u

LEMMA SafeClosureEnd ==
  ASSUME LevelsInv, SafeInv, ClosureEnd
  PROVE  SafeInv'
<1>1. /\ phase = "closure" /\ phase' = "idle" /\ operation' = "none" /\ infos' = <<>>
      /\ UNCHANGED <<game, position, applied, currentBlock, origin, frames>>
      /\ \/ /\ operation = "Apply" /\ moves' = <<>> /\ nodes' = Append(nodes, NewNode)
            /\ undos' = [undos EXCEPT ![Len(undos)].infos = infos]
         \/ operation # "Apply" /\ nodes' = <<NewNode>> /\ undos' = <<>> /\ UNCHANGED moves
  BY DEF ClosureEnd
<1>2. frames = <<>>
  BY <1>1 DEF LevelsInv, LoopPhases
<1>3. moves' \in Seq(Paths(game)) /\ GoodInfos(game, infos')
  BY <1>1, <1>2, LoopFacts, Empties
<1>4. GoodNodes(game, nodes') /\ GoodUndos(game, undos') /\ Len(nodes') = Len(undos') + 1
  <2>1. CASE operation = "Apply"
    <3>1. undos # <<>> /\ Len(nodes) = Len(undos) /\ GoodNodes(game, nodes)
      BY <2>1 DEF SafeInv, CallerOK
    <3>2. GoodUndos(game, undos') /\ Len(undos') = Len(undos)
      BY <1>1, <1>2, <2>1, <3>1, LoopFacts, TopUndo
    <3>3. IsSeq(nodes') /\ ToSet(nodes') = ToSet(nodes) \cup {NewNode} /\ Len(nodes') = Len(nodes) + 1
      <4>1. nodes' = Append(nodes, NewNode) /\ IsSeq(nodes)
        BY <1>1, <1>2, <2>1, LoopFacts
      <4>2. /\ IsSeq(Append(nodes, NewNode)) /\ Len(Append(nodes, NewNode)) = Len(nodes) + 1
            /\ ToSet(Append(nodes, NewNode)) = ToSet(nodes) \cup {NewNode}
        BY <4>1, Elements, Lengths
      <4> QED BY <4>1, <4>2
    <3>4. GoodNodes(game, nodes')
      BY <3>1, <3>3, Empties DEF GoodNodes
    <3> QED BY <3>1, <3>2, <3>3, <3>4
  <2>2. CASE operation # "Apply"
    <3>1. nodes' = <<NewNode>> /\ undos' = <<>>
      BY <1>1, <2>2
    <3>2. Len(nodes') = 1 /\ Len(undos') = 0
      BY <3>1, Empties
    <3> QED BY <3>1, <3>2, Empties
  <2> QED BY <2>1, <2>2
<1>5. CallerOK'
  BY <1>1, <1>4 DEF CallerOK
<1> QED BY <1>1, <1>2, <1>3, <1>5, LoopFacts, SafeLoop DEF LoopPhases

LEMMA SafeMoves ==
  ASSUME LevelsInv, SafeInv, Moves
  PROVE  SafeInv'
<1>1. /\ phase = "idle" /\ operation' = "Moves" /\ phase' = "call" /\ origin' = position
      /\ call' = [at |-> currentBlock, mode |-> "Run", vertex |-> 0]
      /\ UNCHANGED <<position, applied, moves, infos, game, currentBlock, nodes, undos, frames>>
  BY DEF Moves, Idle, Calls, searchVars
<1>2. frames = <<>>
  BY <1>1 DEF LevelsInv
<1>3. GoodCall(game, call')
  BY <1>1, <1>2, LoopFacts DEF GoodCall
<1>4. CallerOK'
  BY <1>1, <1>2, LoopFacts DEF CallerOK
<1> QED BY <1>1, <1>2, <1>3, <1>4, LoopFacts, SafeLoop

LEMMA SafeMovesReturn ==
  ASSUME LevelsInv, SafeInv, MovesReturn
  PROVE  SafeInv'
<1> DEFINE n == [known |-> TRUE, moves |-> moves]
<1>1. /\ phase = "return" /\ frames = <<>> /\ operation = "Moves"
      /\ phase' = "idle" /\ operation' = "none" /\ nodes' = [nodes EXCEPT ![Len(nodes)] = n]
      /\ UNCHANGED <<position, applied, moves, infos, game, currentBlock, undos, frames>>
  BY DEF MovesReturn, searchVars
<1>2. n.moves \in Seq(Paths(game))
  BY <1>1, LoopFacts
<1> HIDE DEF n
<1>3. /\ IsSeq(nodes') /\ ToSet(nodes') \subseteq ToSet(nodes) \cup {n}
      /\ Len(nodes') = Len(nodes)
  BY <1>1, LoopFacts, Elements
<1>4. CallerOK'
  <2>1. GoodNodes(game, nodes')
    BY <1>1, <1>2, <1>3, LoopFacts DEF CallerOK, GoodNodes
  <2>2. GoodUndos(game, undos) /\ Len(nodes) = Len(undos) + 1
    BY <1>1, LoopFacts DEF CallerOK
  <2> QED BY <1>1, <1>3, <2>1, <2>2 DEF CallerOK
<1> QED BY <1>1, <1>4, LoopFacts, SafeLoop

----
\* The caller plays one of the moves it keeps.
LEMMA SafeApply ==
  ASSUME LevelsInv, SafeInv, NEW move \in ToSet(Last(nodes).moves), Apply(move)
  PROVE  SafeInv'
<1> DEFINE u == [block |-> currentBlock, infos |-> <<>>, move |-> move, position |-> position]
<1>1. /\ phase = "idle" /\ phase' = "apply" /\ operation' = "Apply" /\ undos' = Append(undos, u)
      /\ UNCHANGED <<position, applied, moves, infos, game, currentBlock, nodes, frames>>
  BY DEF Apply, Idle, searchVars
<1>2. frames = <<>> /\ operation = "none"
  BY <1>1 DEF LevelsInv, SafeInv, CallerOK
<1>3. move \in Paths(game)
  <2>1. Last(nodes) \in ToSet(nodes) /\ GoodNodes(game, nodes)
    BY <1>2, LoopFacts, Elements DEF CallerOK
  <2>2. Last(nodes).moves \in Seq(Paths(game))
    BY <2>1 DEF GoodNodes
  <2> QED BY <2>2 DEF ToSet
<1>4. GoodUndo(game, u)
  BY <1>2, <1>3, LoopFacts, Empties DEF GoodUndo
<1> HIDE DEF u
<1>5. /\ IsSeq(undos') /\ ToSet(undos') = ToSet(undos) \cup {u}
      /\ Len(undos') = Len(undos) + 1 /\ undos' # <<>>
  BY <1>1, <1>2, LoopFacts, Elements, Lengths
<1>6. CallerOK'
  <2>1. GoodUndos(game, undos')
    BY <1>2, <1>4, <1>5, LoopFacts DEF CallerOK, GoodUndos
  <2> QED BY <1>1, <1>2, <1>5, <2>1, LoopFacts DEF CallerOK
<1> QED BY <1>1, <1>2, <1>6, LoopFacts, SafeLoop DEF LoopPhases

LEMMA SafeApplyModifier ==
  ASSUME LevelsInv, SafeInv, ApplyModifier
  PROVE  SafeInv'
<1> DEFINE m == Playing[Len(infos) + 1]
           a == Modifier(game, m[2])
           p == [position EXCEPT !.pos = m[1]]
           i == [action |-> a, vertex |-> position.pos, saved |-> Saved(a, p)]
<1>1. /\ phase = "apply" /\ Len(infos) < Len(Playing) /\ UNCHANGED phase
      /\ position' = Applied(game, a, p) /\ infos' = Append(infos, i)
      /\ UNCHANGED <<applied, moves, game, currentBlock, operation, nodes, undos, frames>>
  BY DEF ApplyModifier, apiVars
<1>2. frames = <<>> /\ operation = "Apply" /\ undos # <<>>
  BY <1>1 DEF LevelsInv, LoopPhases, SafeInv, CallerOK
<1>3. /\ position.pos \in Squares(game) /\ IsBoard(game) /\ IsPosition(game, position)
      /\ GoodInfos(game, infos) /\ IsSeq(infos)
  BY <1>2, LoopFacts
<1>4. m \in Steps(game)
  <2>1. Playing \in Paths(game)
    BY <1>2, TopUndo DEF GoodUndo, Playing
  <2>2. Len(infos) \in Nat /\ Len(Playing) \in Nat
    BY <1>3, <2>1, IsSeqFacts DEF Paths
  <2>3. Len(infos) + 1 \in 1 .. Len(Playing)
    BY <1>1, <2>2
  <2> QED BY <2>1, <2>3, PathFacts
<1>5. m[1] \in Squares(game) /\ m[2] \in DOMAIN game.modifiers
  BY <1>4 DEF Steps
<1> HIDE DEF m
<1>6. IsChange(game, a) /\ a.type # "shift"
  BY <1>5, StepFacts
<1>7. IsPosition(game, p) /\ p.pos \in Squares(game)
  <2>1. m[1] \in 1 .. game.size
    BY <1>3, <1>5, BoardFacts
  <2>2. IsPosition(game, p) /\ p.pos = m[1]
    BY <1>3, <2>1, Moved, Zenon
  <2> QED BY <1>5, <2>2
<1> HIDE DEF a, p
<1>8. /\ IsPosition(game, position') /\ position'.pos \in Squares(game)
      /\ IsSaved(game, a, Saved(a, p))
  BY <1>1, <1>3, <1>6, <1>7, ChangeApplied
<1>9. GoodInfos(game, infos')
  <2>1. GoodInfo(game, i)
    BY <1>3, <1>6, <1>8 DEF GoodInfo
  <2> HIDE DEF i
  <2>2. IsSeq(infos') /\ ToSet(infos') = ToSet(infos) \cup {i}
    BY <1>1, <1>3, Elements
  <2> QED BY <1>3, <2>1, <2>2 DEF GoodInfos
<1> HIDE DEF i
<1>10. CallerOK' /\ position'.pos # game.size
  BY <1>1, <1>2, <1>3, <1>8, LoopFacts, BoardFacts DEF CallerOK
<1> QED BY <1>1, <1>2, <1>8, <1>9, <1>10, LoopFacts, SafeLoop DEF LoopPhases

LEMMA SafeApplySwitched ==
  ASSUME LevelsInv, SafeInv, ApplySwitched
  PROVE  SafeInv'
<1>1. /\ phase = "apply" /\ currentBlock' = Switch(game, Last(Playing)[2]) /\ phase' = "closure"
      /\ UNCHANGED <<position, applied, moves, infos, game, operation, nodes, undos, frames>>
  BY DEF ApplySwitched
<1>2. frames = <<>> /\ operation = "Apply" /\ undos # <<>>
  BY <1>1 DEF LevelsInv, LoopPhases, SafeInv, CallerOK
<1>3. Playing \in Paths(game)
  BY <1>2, TopUndo DEF GoodUndo, Playing
<1>4. IsPlace(game, currentBlock')
  BY <1>1, <1>3, PathFacts
<1>5. CallerOK'
  BY <1>1, <1>2, LoopFacts DEF CallerOK
<1> QED BY <1>1, <1>2, <1>4, <1>5, LoopFacts, SafeLoop DEF LoopPhases

----
LEMMA SafeRevert ==
  ASSUME LevelsInv, SafeInv, Revert
  PROVE  SafeInv'
<1>1. /\ phase = "idle" /\ undos # <<>> /\ phase' = "revert" /\ operation' = "Revert"
      /\ UNCHANGED <<position, applied, moves, infos, game, currentBlock, nodes, undos, frames>>
  BY DEF Revert, Idle, searchVars
<1>2. frames = <<>>
  BY <1>1 DEF LevelsInv
<1>3. CallerOK'
  BY <1>1, <1>2, LoopFacts DEF CallerOK
<1> QED BY <1>1, <1>2, <1>3, LoopFacts, SafeLoop DEF LoopPhases

LEMMA SafeRevertModifier ==
  ASSUME LevelsInv, SafeInv, RevertModifier
  PROVE  SafeInv'
<1> DEFINE i == Last(Unwinding)
           is == Front(Unwinding)
<1>1. /\ phase = "revert" /\ Unwinding # <<>> /\ UNCHANGED phase
      /\ position' = Unwound(position, i)
      /\ undos' = [undos EXCEPT ![Len(undos)].infos = is]
      /\ UNCHANGED <<applied, moves, infos, game, currentBlock, operation, nodes, frames>>
  BY DEF RevertModifier
<1>2. frames = <<>> /\ operation = "Revert" /\ undos # <<>>
  BY <1>1 DEF LevelsInv, LoopPhases, SafeInv, CallerOK
<1>3. GoodInfos(game, Unwinding) /\ IsSeq(Unwinding)
  BY <1>2, TopUndo DEF Unwinding, GoodInfos
<1>4. i \in ToSet(Unwinding) /\ IsSeq(is) /\ ToSet(is) \subseteq ToSet(Unwinding)
  BY <1>1, <1>3, Elements
<1>5. GoodInfo(game, i) /\ GoodInfos(game, is)
  BY <1>3, <1>4 DEF GoodInfos
<1> HIDE DEF i, is
<1>6. IsPosition(game, position') /\ position'.pos # game.size
  <2>1. /\ IsChange(game, i.action) /\ i.action.type # "shift"
        /\ IsSaved(game, i.action, i.saved) /\ i.vertex \in Squares(game)
    BY <1>5 DEF GoodInfo
  <2>2. IsPosition(game, Reverted(i.action, position, i.saved)) /\ IsBoard(game)
    BY <1>2, <2>1, LoopFacts, ChangeReverted
  <2> DEFINE q == Reverted(i.action, position, i.saved)
  <2>3. position' = [q EXCEPT !.pos = i.vertex]
    BY <1>1 DEF Unwound
  <2> HIDE DEF q
  <2>4. i.vertex \in 1 .. game.size /\ i.vertex # game.size
    BY <2>1, <2>2, BoardFacts
  <2>5. IsPosition(game, q)
    BY <2>2 DEF q
  <2> QED BY <2>3, <2>4, <2>5, Moved
<1>7. GoodUndos(game, undos') /\ Len(undos') = Len(undos) /\ undos' # <<>>
  BY <1>1, <1>2, <1>5, TopUndo
<1>8. CallerOK'
  <2>1. GoodNodes(game, nodes) /\ Len(nodes) = Len(undos) + 1
    BY <1>2, LoopFacts DEF CallerOK
  <2> QED BY <1>1, <1>2, <1>7, <2>1 DEF CallerOK
<1> QED BY <1>1, <1>2, <1>6, <1>8, LoopFacts, SafeLoop DEF LoopPhases

LEMMA SafeRevertReturn ==
  ASSUME LevelsInv, SafeInv, RevertReturn
  PROVE  SafeInv'
<1>1. /\ phase = "revert" /\ phase' = "idle" /\ operation' = "none" /\ moves' = <<>>
      /\ currentBlock' = Last(undos).block
      /\ nodes' = Front(nodes) /\ undos' = Front(undos)
      /\ UNCHANGED <<position, applied, infos, game, frames>>
  BY DEF RevertReturn
<1>2. frames = <<>> /\ operation = "Revert" /\ undos # <<>>
  BY <1>1 DEF LevelsInv, LoopPhases, SafeInv, CallerOK
<1>3. /\ GoodNodes(game, nodes) /\ GoodUndos(game, undos) /\ Len(nodes) = Len(undos) + 1
      /\ IsSeq(nodes) /\ IsSeq(undos) /\ nodes # <<>>
  BY <1>2, LoopFacts DEF CallerOK
<1>4. IsPlace(game, currentBlock')
  BY <1>1, <1>2, TopUndo DEF GoodUndo
<1>5. IsSeq(nodes') /\ ToSet(nodes') \subseteq ToSet(nodes) /\ Len(nodes') = Len(nodes) - 1
  BY <1>1, <1>3, Elements, Lengths
<1>6. /\ IsSeq(undos') /\ ToSet(undos') \subseteq ToSet(undos) /\ Len(undos') = Len(undos) - 1
      /\ Len(undos) \in Nat
  BY <1>1, <1>2, <1>3, Elements, Lengths
<1>7. GoodNodes(game, nodes') /\ GoodUndos(game, undos')
  BY <1>3, <1>5, <1>6 DEF GoodNodes, GoodUndos
<1>8. CallerOK'
  BY <1>1, <1>3, <1>5, <1>6, <1>7 DEF CallerOK
<1> QED BY <1>1, <1>2, <1>4, <1>8, LoopFacts, Empties, SafeLoop

LEMMA InitialOK ==
  ASSUME NEW g, IsGame(g)
  PROVE  /\ IsPosition(g, InitialPosition(g)) /\ InitialPosition(g).pos # g.size
         /\ IsPlace(g, Initial)
<1> DEFINE p == InitialPosition(g)
           vs == [x \in DOMAIN g.bounds |-> 0]
<1>1. /\ IsBoard(g) /\ 1 \in DOMAIN g.blocks
  BY DEF IsGame, AreBlocks
<1>2. p = [pos |-> 1, vars |-> vs, player |-> g.keeper,
           fields |-> g.content.fields, counts |-> g.content.counts]
  BY DEF InitialPosition
<1>3. vs = [x \in DOMAIN vs |-> vs[x]]
  OBVIOUS
<1> HIDE DEF p, vs
<1>4. 1 \in 1 .. g.size /\ 1 # g.size
  BY <1>1, BoardFacts
<1>5. IsFields(g, g.content.fields) /\ g.content.counts = Counted(g, g.content.fields)
  BY <1>1, BoardFacts
<1>6. /\ p.pos = 1 /\ p.vars = vs /\ p.player = g.keeper
      /\ p.fields = g.content.fields /\ p.counts = g.content.counts
  BY <1>2
<1>7. IsPosition(g, p) /\ p.pos # g.size
  BY <1>2, <1>3, <1>4, <1>5, <1>6 DEF IsPosition
<1>8. IsPlace(g, Initial)
  BY <1>1 DEF IsPlace, Initial
<1> QED BY <1>7, <1>8 DEF p

LEMMA SafeReset ==
  ASSUME LevelsInv, SafeInv, Reset
  PROVE  SafeInv'
<1>1. /\ phase = "idle" /\ phase' = "closure" /\ operation' = "Reset"
      /\ position' = InitialPosition(game) /\ currentBlock' = Initial
      /\ applied' = <<>> /\ moves' = <<>> /\ infos' = <<>>
      /\ UNCHANGED <<game, nodes, undos, frames>>
  BY DEF Reset, Idle
<1>2. frames = <<>> /\ IsGame(game)
  BY <1>1 DEF LevelsInv, SafeInv
<1>3. CallerOK'
  BY <1>1, <1>2, LoopFacts DEF CallerOK
<1>4. /\ IsPosition(game, position') /\ position'.pos # game.size
      /\ IsPlace(game, currentBlock')
  BY <1>1, <1>2, InitialOK
<1> QED BY <1>1, <1>2, <1>3, <1>4, Empties, SafeLoop DEF LoopPhases

----
LEMMA SafeInit ==
  ASSUME Init
  PROVE  SafeInv
<1>1. /\ game \in Games /\ position = InitialPosition(game) /\ currentBlock = Initial
      /\ applied = <<>> /\ moves = <<>> /\ infos = <<>> /\ operation = "construct"
      /\ phase = "closure" /\ frames = <<>> /\ nodes = <<NewNode>> /\ undos = <<>>
  BY DEF Init
<1>2. IsGame(game)
  BY <1>1, GamesAssumption
<1>3. /\ IsPosition(game, position) /\ position.pos # game.size
      /\ IsPlace(game, currentBlock)
  BY <1>1, <1>2, InitialOK
<1>4. GoodFrames(game, frames)
  BY <1>1 DEF GoodFrames, ToSet
<1>5. CallerOK
  <2>1. GoodNodes(game, nodes) /\ GoodUndos(game, undos) /\ Len(nodes) = Len(undos) + 1
    BY <1>1, Empties
  <2> QED BY <1>1, <2>1 DEF CallerOK
<1>6. /\ applied \in Seq(Steps(game)) /\ moves \in Seq(Paths(game)) /\ GoodInfos(game, infos)
  BY <1>1, Empties
<1>7. ~Succeeding
  BY <1>1 DEF Succeeding
<1> QED BY <1>1, <1>2, <1>3, <1>4, <1>5, <1>6, <1>7 DEF SafeInv

LEMMA SafeStays ==
  ASSUME SafeInv, UNCHANGED vars
  PROVE  SafeInv'
<1>1. /\ UNCHANGED <<game, position, currentBlock, applied, moves, infos, operation, phase>>
      /\ UNCHANGED <<call, value, frames, origin, nodes, undos>>
  BY DEF vars, searchVars, apiVars
<1>2. IsGame(game)' /\ CallerOK' /\ (position.pos = game.size => ShiftPending)'
  BY <1>1 DEF SafeInv, CallerOK, ShiftPending, Frame, At, AtBranch, Action, Block
<1>3. (Succeeding <=> Succeeding') /\ GoodFrames(game, frames)'
  BY <1>1 DEF SafeInv, Succeeding
<1> QED BY <1>1, <1>2, <1>3 DEF SafeInv

LEMMA SafeInductive ==
  ASSUME LevelsInv, SafeInv, [Next]_vars
  PROVE  SafeInv'
<1>1. ASSUME Step
      PROVE  SafeInv'
  BY <1>1, SafeTest, SafeVisitedCheck, SafeSwitch, SafeCondition, SafeConditionReturns,
     SafeConditionVisitedCheck, SafeResult, SafeShift, SafeShiftReturns, SafeModifier,
     SafeModifierReturns, SafeApplySwitch, SafeBranch, SafeBranchReturns,
     SafeClosureRun, SafeClosureReturn, SafeClosureEnd, SafeMovesReturn,
     SafeApplyModifier, SafeApplySwitched, SafeRevertModifier, SafeRevertReturn DEF Step
<1>2. ASSUME Next, ~Step
      PROVE  SafeInv'
  BY <1>2, SafeMoves, SafeApply, SafeRevert, SafeReset DEF Next, FirstMoves
<1> QED BY <1>1, <1>2, SafeStays

\* What a search does is undone, whatever the game: the history of the stack
\* is empty when its last call has returned.
LEMMA SearchUndone ==
  ASSUME LevelsInv, SafeInv
  PROVE  SearchRestores
<1> SUFFICES ASSUME phase = "return", frames = <<>>, operation = "Moves" \/ ~value
             PROVE  position = origin /\ applied = <<>>
  BY DEF SearchRestores
<1>1. ~Succeeding
  <2>1. value => call.mode = Base
    BY NoFrames DEF LevelsInv
  <2> QED BY <2>1 DEF Succeeding, Base
<1>2. Trail(<<>>, position, origin)
  BY <1>1 DEF SafeInv
<1>3. Modifiers = 0
  BY NoFrames DEF Modifiers
<1>4. applied = <<>>
  BY <1>1, <1>3, IsSeqFacts DEF LevelsInv
<1> QED BY <1>2, <1>4, TrailEmpty

LEMMA PiecesCounted ==
  ASSUME SafeInv
  PROVE  CountsMatch
<1>1. position.counts = Counted(game, position.fields)
  BY DEF SafeInv, IsPosition
<1> QED BY <1>1 DEF CountsMatch, Counted, Occupied, Squares, PiecesOf, Vertices, Pieces

\* Off the board there is a shift whose test is to be made or has failed.
LEMMA SafeOnBoard ==
  ASSUME SafeInv
  PROVE  OnBoard
<1>1. SUFFICES ASSUME ~(position.pos < game.size)
               PROVE  OnBoard
  BY DEF OnBoard
<1>2. position.pos \in 1 .. game.size /\ game.size \in Nat
  BY GameFacts, BoardFacts DEF IsPosition
<1>3. position.pos = game.size
  BY <1>1, <1>2
<1> QED BY <1>3 DEF SafeInv, ShiftPending, OnBoard, Returning

THEOREM SafeAlways == Spec => [](LevelsInv /\ SafeInv)
<1>1. Init => LevelsInv /\ SafeInv
  BY LevelsInit, SafeInit
<1>2. (LevelsInv /\ SafeInv) /\ [Next]_vars => (LevelsInv /\ SafeInv)'
  BY LevelsInductive, SafeInductive
<1> QED BY <1>1, <1>2, PTL DEF Spec

\* The piece counts that arithmetic reads are the numbers of pieces on the
\* board at every step of a search, whatever it applies and takes back
\* (BoardContent::set, board_content.h).
THEOREM CountsAlwaysMatch == Spec => []CountsMatch
<1>1. SafeInv => CountsMatch
  BY PiecesCounted
<1> QED BY <1>1, SafeAlways, PTL

\* A search that is over has undone all it did: Moves() whatever it found,
\* and the keeper's search when it found nothing (block.h).
THEOREM SearchesRestore == Spec => []SearchRestores
<1>1. LevelsInv /\ SafeInv => SearchRestores
  BY SearchUndone
<1> QED BY <1>1, SafeAlways, PTL

\* No action but the bounds test reads the board at vertices_count, the vertex
\* of a shift that leads nowhere (actions.h ShiftAction, OutOfBoundsTest).
THEOREM AlwaysOnBoard == Spec => []OnBoard
<1>1. SafeInv => OnBoard
  BY SafeOnBoard
<1> QED BY <1>1, SafeAlways, PTL

----
(***************************************************************************)
(* Reverting an Apply.  UndoInv says that the infos the caller keeps lead  *)
(* back, the last first, from one of its positions to the one before, and  *)
(* the infos gathered so far to where Apply began; while the keeper        *)
(* searches, that they will when the calls on the stack have failed        *)
(* (History).                                                              *)
(*                                                                         *)
(* A switch in RunAndApplyFirst saves its own vertex (block.h:343), not    *)
(* that of the modifier before it, where that one's info is then reverted. *)
(* EndsInPlace says that this makes no difference: the keeper has not      *)
(* walked since its last modifier, or that one sets no piece.              *)
(***************************************************************************)
EndsInPlace ==
  operation = "Apply" /\ ApplySwitch =>
    position.pos = call.vertex \/ Last(infos).action.type # "off"

\* Reverting all the infos leads from p to o.
Wound(is, p, o) ==
  \E ps : /\ IsSeq(ps) /\ Len(ps) = Len(is) + 1
          /\ ps[1] = o /\ ps[Len(is) + 1] = p
          /\ \A i \in 1 .. Len(is) : ps[i] = Unwound(ps[i + 1], is[i])

\* A call of the keeper's search: where it is made (at), the infos there are
\* then (infos) and the position they lead back from (base).
Settled(s, o) == s.infos # <<>> /\ IsSeq(s.infos) /\ Wound(s.infos, s.base, o)

\* The frame's call takes its info away when it fails.
Keeps(f) == f.kind = "modifier" /\ f.mode = "ApplyFirst"

\* A call s with frame f on the stack has made the call t.
Kept(f, s, t) ==
  /\ s.at = Undone(f, t.at)
  /\ s.infos = IF Keeps(f) THEN Front(t.infos) ELSE t.infos
  /\ f.kind \in {"branch", "condition"} /\ f.call.mode = "ApplyFirst" =>
       s.base = [s.at EXCEPT !.pos = f.call.vertex]

\* The calls on the stack, the one at its bottom made by the closure.
History(fs, t, o) ==
  \E ss : /\ IsSeq(ss) /\ Len(ss) = Len(fs) + 1
          /\ ss[1].base = ss[1].at /\ ss[Len(fs) + 1] = t
          /\ \A i \in 1 .. Len(fs) + 1 : Settled(ss[i], o)
          /\ \A i \in 1 .. Len(fs) : Kept(fs[i], ss[i], ss[i + 1])

Searching == phase = "call" \/ (phase = "return" /\ ~Succeeding)

\* Where Apply began.
Start == Last(undos).position

\* The infos Apply has gathered lead back to its start, or will when the
\* search has failed.
Held ==
  IF Searching
  THEN \E t : /\ History(frames, t, Start) /\ t.at = position /\ t.infos = infos
              /\ phase = "call" /\ call.mode = "ApplyFirst" =>
                   t.base = [position EXCEPT !.pos = call.vertex]
  ELSE Wound(infos, position, Start) /\ (phase # "apply" => infos # <<>>)

\* Where the caller is when it calls.
Standing == IF operation = "Moves" THEN origin ELSE position

Linked(us) ==
  \A n \in 1 .. Len(us) - 1 : Wound(us[n].infos, us[n + 1].position, us[n].position)

PhaseInv ==
  /\ operation = "none" <=> phase = "idle"
  /\ operation = "Revert" <=> phase = "revert"
  /\ operation = "Moves" => phase \in {"call", "return"}
  /\ phase = "apply" => operation = "Apply"
  /\ operation \in {"none", "Moves", "Revert"} => infos = <<>>

UndoInv ==
  /\ Linked(undos)
  /\ undos # <<>> /\ operation \in {"none", "Moves", "Revert"} =>
       Wound(Last(undos).infos, Standing, Last(undos).position)
  /\ operation = "Apply" => Held

----
\* One more info to be reverted, one less, and none.
LEMMA WoundPushed ==
  ASSUME NEW is, IsSeq(is), NEW p, NEW o, Wound(is, p, o), NEW j, NEW q, Unwound(q, j) = p
  PROVE  Wound(Append(is, j), q, o)
<1> DEFINE js == Append(is, j)
<1>1. PICK ps : /\ IsSeq(ps) /\ Len(ps) = Len(is) + 1 /\ ps[1] = o /\ ps[Len(is) + 1] = p
                /\ \A i \in 1 .. Len(is) : ps[i] = Unwound(ps[i + 1], is[i])
  BY DEF Wound
<1> DEFINE qs == Append(ps, q)
<1>2. /\ Len(is) \in Nat /\ Len(js) = Len(is) + 1 /\ js[Len(is) + 1] = j
      /\ \A i \in 1 .. Len(is) : js[i] = is[i]
  BY Pushed, IsSeqFacts
<1>3. /\ IsSeq(qs) /\ Len(qs) = Len(is) + 2 /\ qs[Len(is) + 2] = q
      /\ \A i \in 1 .. Len(is) + 1 : qs[i] = ps[i]
  <2>1. /\ IsSeq(qs) /\ Len(qs) = Len(ps) + 1 /\ qs[Len(qs)] = q
        /\ \A i \in 1 .. Len(ps) : qs[i] = ps[i]
    BY <1>1, Pushed
  <2> HIDE DEF qs
  <2> QED BY <1>1, <1>2, <2>1
<1> HIDE DEF js, qs
<1>4. ASSUME NEW i \in 1 .. Len(js)
      PROVE  qs[i] = Unwound(qs[i + 1], js[i])
  <2>1. CASE i = Len(is) + 1
    <3>1. i + 1 = Len(is) + 2
      BY <1>2, <2>1
    <3>2. qs[i] = p /\ js[i] = j /\ qs[i + 1] = q
      BY <1>1, <1>2, <1>3, <2>1, <3>1
    <3> QED BY <3>2
  <2>2. CASE i # Len(is) + 1
    <3>1. i \in 1 .. Len(is) /\ i + 1 \in 1 .. Len(is) + 1 /\ i \in 1 .. Len(is) + 1
      BY <1>2, <2>2
    <3> QED BY <1>1, <1>2, <1>3, <3>1
  <2> QED BY <2>1, <2>2
<1>5. qs[1] = o /\ qs[Len(js) + 1] = q /\ Len(qs) = Len(js) + 1
  BY <1>1, <1>2, <1>3
<1>6. Wound(js, q, o)
  BY <1>3, <1>4, <1>5 DEF Wound
<1> QED BY <1>6 DEF js

LEMMA WoundPopped ==
  ASSUME NEW is, IsSeq(is), is # <<>>, NEW p, NEW o, Wound(is, p, o)
  PROVE  Wound(Front(is), Unwound(p, Last(is)), o)
<1> DEFINE js == Front(is)
           q  == Unwound(p, Last(is))
<1>1. PICK ps : /\ IsSeq(ps) /\ Len(ps) = Len(is) + 1 /\ ps[1] = o /\ ps[Len(is) + 1] = p
                /\ \A i \in 1 .. Len(is) : ps[i] = Unwound(ps[i + 1], is[i])
  BY DEF Wound
<1> DEFINE qs == Front(ps)
<1>2. /\ Len(is) \in Nat /\ Len(is) >= 1 /\ Len(js) = Len(is) - 1 /\ Last(is) = is[Len(is)]
      /\ \A i \in 1 .. Len(js) : js[i] = is[i]
  BY Popped, IsSeqFacts
<1>3. /\ IsSeq(qs) /\ Len(qs) = Len(is) /\ \A i \in 1 .. Len(is) : qs[i] = ps[i]
  <2>1. ps # <<>>
    BY <1>1, <1>2, IsSeqFacts
  <2>2. IsSeq(qs) /\ Len(qs) = Len(ps) - 1 /\ \A i \in 1 .. Len(qs) : qs[i] = ps[i]
    BY <1>1, <2>1, Popped
  <2> HIDE DEF qs
  <2> QED BY <1>1, <1>2, <2>2
<1>4. q = ps[Len(is)]
  <2>1. Len(is) \in 1 .. Len(is)
    BY <1>2
  <2> QED BY <1>1, <1>2, <2>1
<1> HIDE DEF js, q, qs
<1>5. ASSUME NEW i \in 1 .. Len(js)
      PROVE  qs[i] = Unwound(qs[i + 1], js[i])
  <2>1. i \in 1 .. Len(is) /\ i + 1 \in 1 .. Len(is)
    BY <1>2
  <2> QED BY <1>1, <1>2, <1>3, <2>1
<1>6. qs[1] = o /\ qs[Len(js) + 1] = q /\ Len(qs) = Len(js) + 1
  BY <1>1, <1>2, <1>3, <1>4
<1>7. Wound(js, q, o)
  BY <1>3, <1>5, <1>6 DEF Wound
<1> QED BY <1>7 DEF js, q

LEMMA WoundEmpty ==
  ASSUME NEW p, NEW o
  PROVE  Wound(<<>>, p, o) <=> p = o
<1>1. ASSUME p = o
      PROVE  Wound(<<>>, p, o)
  <2>1. /\ IsSeq(<<p>>) /\ Len(<<p>>) = 1 /\ <<p>>[1] = p /\ Len(<<>>) = 0
    BY IsSeqIntro, <<p>> \in Seq({p})
  <2> DEFINE ps == <<p>>
  <2> HIDE DEF ps
  <2>2. IsSeq(ps) /\ Len(ps) = Len(<<>>) + 1 /\ ps[1] = o /\ ps[Len(<<>>) + 1] = p
    BY <1>1, <2>1 DEF ps
  <2> QED BY <2>1, <2>2 DEF Wound
<1>2. ASSUME Wound(<<>>, p, o)
      PROVE  p = o
  <2>1. PICK ps : ps[1] = o /\ ps[Len(<<>>) + 1] = p
    BY <1>2 DEF Wound
  <2> QED BY <2>1
<1> QED BY <1>1, <1>2

\* Where the last info leaves the vertex does not matter unless it sets a piece.
LEMMA WoundElsewhere ==
  ASSUME NEW is, IsSeq(is), is # <<>>, Last(is).action.type \notin {"off", "shift"},
         IsChange(game, Last(is).action), IsPosition(game, position),
         NEW v, NEW o, Wound(is, [position EXCEPT !.pos = v], o)
  PROVE  Wound(is, position, o)
<1> DEFINE n == Len(is)
           j == Last(is)
           p == [position EXCEPT !.pos = v]
<1>1. PICK ps : /\ IsSeq(ps) /\ Len(ps) = n + 1 /\ ps[1] = o /\ ps[n + 1] = p
                /\ \A i \in 1 .. n : ps[i] = Unwound(ps[i + 1], is[i])
  BY DEF Wound
<1>2. n \in Nat /\ n >= 1 /\ j = is[n]
  BY Popped, IsSeqFacts
<1>3. position = [pos |-> position.pos, vars |-> position.vars, player |-> position.player,
                  fields |-> position.fields, counts |-> position.counts]
  BY DEF IsPosition
<1>4. p = [pos |-> v, vars |-> position.vars, player |-> position.player,
           fields |-> position.fields, counts |-> position.counts]
  BY <1>3
<1>5. Unwound(position, j) = Unwound(p, j)
  <2> DEFINE a == j.action
             s == j.saved
  <2> HIDE DEF j, p
  <2>1. a.type \in {"assign", "switch"}
    BY DEF IsChange, ModifierTypes, j
  <2>2. CASE a.type = "assign"
    <3> DEFINE vs == [position.vars EXCEPT ![a.variable] = s]
    <3>1. Reverted(a, position, s) = [pos |-> position.pos, vars |-> vs, player |-> position.player,
                                      fields |-> position.fields, counts |-> position.counts]
      BY <1>3, <2>2 DEF Reverted
    <3>2. Reverted(a, p, s) = [pos |-> v, vars |-> vs, player |-> position.player,
                               fields |-> position.fields, counts |-> position.counts]
      BY <1>4, <2>2 DEF Reverted
    <3> DEFINE q == Reverted(a, position, s)
               r == Reverted(a, p, s)
    <3> HIDE DEF a, s, vs, q, r
    <3>3. [q EXCEPT !.pos = j.vertex] = [r EXCEPT !.pos = j.vertex]
      BY <3>1, <3>2 DEF q, r
    <3> QED BY <3>3 DEF Unwound, q, r, a, s
  <2>3. CASE a.type = "switch"
    <3>1. Reverted(a, position, s) = [pos |-> position.pos, vars |-> position.vars, player |-> s,
                                      fields |-> position.fields, counts |-> position.counts]
      BY <1>3, <2>3 DEF Reverted
    <3>2. Reverted(a, p, s) = [pos |-> v, vars |-> position.vars, player |-> s,
                               fields |-> position.fields, counts |-> position.counts]
      BY <1>4, <2>3 DEF Reverted
    <3> DEFINE q == Reverted(a, position, s)
               r == Reverted(a, p, s)
    <3> HIDE DEF a, s, q, r
    <3>3. [q EXCEPT !.pos = j.vertex] = [r EXCEPT !.pos = j.vertex]
      BY <3>1, <3>2 DEF q, r
    <3> QED BY <3>3 DEF Unwound, q, r, a, s
  <2> QED BY <2>1, <2>2, <2>3
<1> DEFINE qs == [ps EXCEPT ![n + 1] = position]
<1>6. /\ IsSeq(qs) /\ Len(qs) = n + 1 /\ qs[n + 1] = position
      /\ \A i \in 1 .. n : qs[i] = ps[i]
  <2>1. ps # <<>>
    BY <1>1, <1>2, IsSeqFacts
  <2>2. IsSeq([ps EXCEPT ![Len(ps)] = position]) /\ Len([ps EXCEPT ![Len(ps)] = position]) = Len(ps)
    BY <1>1, <2>1, Elements
  <2>3. DOMAIN ps = 1 .. n + 1
    BY <1>1, IsSeqFacts
  <2> HIDE DEF n, p
  <2> QED BY <1>1, <1>2, <2>2, <2>3
<1> HIDE DEF qs, n, p, j
<1>7. ASSUME NEW i \in 1 .. n
      PROVE  qs[i] = Unwound(qs[i + 1], is[i])
  <2>1. CASE i = n
    BY <1>1, <1>2, <1>5, <1>6, <2>1
  <2>2. CASE i # n
    <3>1. i + 1 \in 1 .. n
      BY <1>2, <2>2
    <3> QED BY <1>1, <1>6, <3>1
  <2> QED BY <2>1, <2>2
<1>8. qs[1] = o
  BY <1>1, <1>2, <1>6
<1> QED BY <1>6, <1>7, <1>8 DEF Wound, n

\* The calls on the stack.
LEMMA HistoryPushed ==
  ASSUME NEW fs, IsSeq(fs), NEW s, NEW o, History(fs, s, o), NEW f, NEW t, Kept(f, s, t),
         Settled(t, o)
  PROVE  History(Append(fs, f), t, o)
<1> DEFINE gs == Append(fs, f)
<1>1. PICK ss : /\ IsSeq(ss) /\ Len(ss) = Len(fs) + 1
                /\ ss[1].base = ss[1].at /\ ss[Len(fs) + 1] = s
                /\ \A i \in 1 .. Len(fs) + 1 : Settled(ss[i], o)
                /\ \A i \in 1 .. Len(fs) : Kept(fs[i], ss[i], ss[i + 1])
  BY DEF History
<1> DEFINE ts == Append(ss, t)
<1>2. /\ Len(fs) \in Nat /\ Len(gs) = Len(fs) + 1 /\ gs[Len(fs) + 1] = f
      /\ \A i \in 1 .. Len(fs) : gs[i] = fs[i]
  BY Pushed, IsSeqFacts
<1>3. /\ IsSeq(ts) /\ Len(ts) = Len(fs) + 2 /\ ts[Len(fs) + 2] = t
      /\ \A i \in 1 .. Len(fs) + 1 : ts[i] = ss[i]
  <2>1. /\ IsSeq(ts) /\ Len(ts) = Len(ss) + 1 /\ ts[Len(ts)] = t
        /\ \A i \in 1 .. Len(ss) : ts[i] = ss[i]
    BY <1>1, Pushed
  <2> HIDE DEF ts
  <2> QED BY <1>1, <1>2, <2>1
<1> HIDE DEF gs, ts
<1>4. ASSUME NEW i \in 1 .. Len(gs)
      PROVE  Kept(gs[i], ts[i], ts[i + 1])
  <2>1. CASE i = Len(fs) + 1
    <3>1. i + 1 = Len(fs) + 2
      BY <1>2, <2>1
    <3>2. ts[i] = s /\ gs[i] = f /\ ts[i + 1] = t
      BY <1>1, <1>2, <1>3, <2>1, <3>1
    <3> QED BY <3>2
  <2>2. CASE i # Len(fs) + 1
    <3>1. i \in 1 .. Len(fs) /\ i + 1 \in 1 .. Len(fs) + 1 /\ i \in 1 .. Len(fs) + 1
      BY <1>2, <2>2
    <3>2. gs[i] = fs[i] /\ ts[i] = ss[i] /\ ts[i + 1] = ss[i + 1]
      BY <1>2, <1>3, <3>1
    <3> QED BY <1>1, <3>1, <3>2
  <2> QED BY <2>1, <2>2
<1>5. ASSUME NEW i \in 1 .. Len(gs) + 1
      PROVE  Settled(ts[i], o)
  <2>1. CASE i = Len(fs) + 2
    BY <1>3, <2>1
  <2>2. CASE i # Len(fs) + 2
    <3>1. i \in 1 .. Len(fs) + 1
      BY <1>2, <2>2
    <3> QED BY <1>1, <1>3, <3>1
  <2> QED BY <2>1, <2>2
<1>6. ts[1] = ss[1] /\ ts[Len(gs) + 1] = t /\ Len(ts) = Len(gs) + 1
  BY <1>1, <1>2, <1>3
<1>7. History(gs, t, o)
  BY <1>1, <1>3, <1>4, <1>5, <1>6 DEF History
<1> QED BY <1>7 DEF gs

LEMMA HistoryPopped ==
  ASSUME NEW fs, IsSeq(fs), fs # <<>>, NEW t, NEW o, History(fs, t, o)
  PROVE  \E s : History(Front(fs), s, o) /\ Kept(Last(fs), s, t)
<1> DEFINE gs == Front(fs)
<1>1. PICK ss : /\ IsSeq(ss) /\ Len(ss) = Len(fs) + 1
                /\ ss[1].base = ss[1].at /\ ss[Len(fs) + 1] = t
                /\ \A i \in 1 .. Len(fs) + 1 : Settled(ss[i], o)
                /\ \A i \in 1 .. Len(fs) : Kept(fs[i], ss[i], ss[i + 1])
  BY DEF History
<1> DEFINE ts == Front(ss)
<1>2. /\ Len(fs) \in Nat /\ Len(fs) >= 1 /\ Len(gs) = Len(fs) - 1 /\ Last(fs) = fs[Len(fs)]
      /\ \A i \in 1 .. Len(gs) : gs[i] = fs[i]
  BY Popped, IsSeqFacts
<1>3. /\ IsSeq(ts) /\ Len(ts) = Len(fs) /\ \A i \in 1 .. Len(fs) : ts[i] = ss[i]
  <2>1. ss # <<>>
    BY <1>1, <1>2, IsSeqFacts
  <2>2. IsSeq(ts) /\ Len(ts) = Len(ss) - 1 /\ \A i \in 1 .. Len(ts) : ts[i] = ss[i]
    BY <1>1, <2>1, Popped
  <2> HIDE DEF ts
  <2> QED BY <1>1, <1>2, <2>2
<1> HIDE DEF gs, ts
<1>4. ASSUME NEW i \in 1 .. Len(gs)
      PROVE  Kept(gs[i], ts[i], ts[i + 1])
  <2>1. i \in 1 .. Len(fs) /\ i + 1 \in 1 .. Len(fs)
    BY <1>2
  <2>2. gs[i] = fs[i] /\ ts[i] = ss[i] /\ ts[i + 1] = ss[i + 1]
    BY <1>2, <1>3, <2>1
  <2> QED BY <1>1, <2>1, <2>2
<1>5. ASSUME NEW i \in 1 .. Len(gs) + 1
      PROVE  Settled(ts[i], o)
  <2>1. i \in 1 .. Len(fs) /\ i \in 1 .. Len(fs) + 1
    BY <1>2
  <2> QED BY <1>1, <1>3, <2>1
<1>6. /\ ts[1] = ss[1] /\ ts[Len(gs) + 1] = ss[Len(fs)] /\ Len(ts) = Len(gs) + 1
      /\ Len(fs) \in 1 .. Len(fs)
  BY <1>2, <1>3
<1>7. History(gs, ss[Len(fs)], o)
  BY <1>1, <1>3, <1>4, <1>5, <1>6 DEF History
<1>8. Kept(Last(fs), ss[Len(fs)], t)
  BY <1>1, <1>2, <1>6
<1> QED BY <1>7, <1>8 DEF gs

LEMMA HistoryEmpty ==
  ASSUME NEW t, NEW o
  PROVE  History(<<>>, t, o) <=> Settled(t, o) /\ t.base = t.at
<1>1. ASSUME Settled(t, o), t.base = t.at
      PROVE  History(<<>>, t, o)
  <2>1. IsSeq(<<t>>) /\ Len(<<t>>) = 1 /\ <<t>>[1] = t /\ Len(<<>>) = 0
    BY IsSeqIntro, <<t>> \in Seq({t})
  <2> DEFINE ss == <<t>>
  <2> HIDE DEF ss
  <2>2. IsSeq(ss) /\ Len(ss) = Len(<<>>) + 1 /\ ss[1] = t /\ ss[Len(<<>>) + 1] = t
    BY <2>1 DEF ss
  <2>3. \A i \in 1 .. Len(<<>>) + 1 : ss[i] = t
    BY <2>1, <2>2
  <2> QED BY <1>1, <2>1, <2>2, <2>3 DEF History
<1>2. ASSUME History(<<>>, t, o)
      PROVE  Settled(t, o) /\ t.base = t.at
  <2>1. Len(<<>>) = 0
    OBVIOUS
  <2> QED BY <1>2, <2>1 DEF History
<1> QED BY <1>1, <1>2

LEMMA HistoryTop ==
  ASSUME NEW fs, IsSeq(fs), NEW t, NEW o, History(fs, t, o)
  PROVE  Settled(t, o)
<1>1. Len(fs) + 1 \in 1 .. Len(fs) + 1
  BY IsSeqFacts
<1> QED BY <1>1 DEF History

\* What was pushed is popped.
LEMMA FrontAppended ==
  ASSUME NEW s, IsSeq(s), NEW e
  PROVE  Front(Append(s, e)) = s
<1> DEFINE t == Append(s, e)
           u == Front(t)
<1>1. /\ IsSeq(t) /\ Len(t) = Len(s) + 1 /\ t # <<>> /\ Len(s) \in Nat
      /\ \A i \in 1 .. Len(s) : t[i] = s[i]
  BY Pushed, Lengths
<1>2. IsSeq(u) /\ Len(u) = Len(t) - 1 /\ \A i \in 1 .. Len(u) : u[i] = t[i]
  <2> HIDE DEF t
  <2> QED BY <1>1, Popped
<1> HIDE DEF t, u
<1>3. Len(u) = Len(s) /\ \A i \in 1 .. Len(s) : u[i] = s[i]
  BY <1>1, <1>2
<1>4. u = s
  <2> DEFINE S == {s[i] : i \in DOMAIN s} \cup {u[i] : i \in DOMAIN u}
  <2>1. s \in Seq(S) /\ u \in Seq(S)
    BY <1>2, SeqMonotonic DEF IsSeq
  <2> HIDE DEF S
  <2> QED BY <1>3, <2>1, SeqEqual
<1> QED BY <1>4 DEF u, t

----
\* The steps of a search.  UndoInv needs nothing but that Apply's infos are held.
LEMMA UndoSearches ==
  ASSUME LevelsInv, SafeInv, PhaseInv, UndoInv, UNCHANGED apiVars,
         phase \in {"call", "return"}, phase' \in {"call", "return"},
         operation = "Moves" => infos' = infos,
         operation = "Apply" /\ Held => Held'
  PROVE  PhaseInv' /\ UndoInv'
<1>1. UNCHANGED <<game, currentBlock, operation, origin, undos>>
  BY DEF apiVars
<1>2. operation \notin {"none", "Revert"}
  BY DEF PhaseInv
<1>3. PhaseInv'
  BY <1>1, <1>2 DEF PhaseInv
<1>4. operation = "Apply" => Held'
  BY DEF UndoInv
<1>5. Linked(undos)'
  BY <1>1 DEF UndoInv
<1>6. undos # <<>> /\ operation = "Moves"
        => (Wound(Last(undos).infos, Standing, Last(undos).position))'
  BY <1>1 DEF UndoInv, Standing
<1> QED BY <1>1, <1>2, <1>3, <1>4, <1>5, <1>6 DEF UndoInv

\* Going on in a block, or giving up.
LEMMA UndoGoesOn ==
  ASSUME LevelsInv, SafeInv, PhaseInv, UndoInv, phase = "call",
         UNCHANGED <<position, frames, infos, apiVars>>,
         phase' \in {"call", "return"}, ~Succeeding',
         phase' = "call" => call'.mode = call.mode /\ call'.vertex = call.vertex
  PROVE  PhaseInv' /\ UndoInv'
<1>1. ASSUME Held
      PROVE  Held'
  <2>1. PICK t : /\ History(frames, t, Start) /\ t.at = position /\ t.infos = infos
                 /\ call.mode = "ApplyFirst" => t.base = [position EXCEPT !.pos = call.vertex]
    BY <1>1 DEF Held, Searching
  <2>2. Start' = Start
    BY DEF Start, apiVars
  <2>3. Searching'
    BY DEF Searching
  <2>4. History(frames', t, Start')
    BY <2>1, <2>2
  <2> QED BY <2>1, <2>3, <2>4 DEF Held
<1> QED BY <1>1, UndoSearches

\* Leaving a call's frame on the stack: the position and the infos there are
\* then lead back as before, or from a modifier's own position.
LEMMA UndoEnters ==
  ASSUME LevelsInv, SafeInv, PhaseInv, UndoInv, phase = "call", UNCHANGED apiVars,
         NEW f, frames' = Append(frames, f), phase' = "call", Undone(f, position') = position,
         f.kind \in {"branch", "condition"} =>
           f.call.mode = call.mode /\ f.call.vertex = call.vertex,
         \/ /\ infos' = infos /\ ~Keeps(f)
            /\ call'.mode = "ApplyFirst" =>
                 /\ call.mode = "ApplyFirst"
                 /\ [position' EXCEPT !.pos = call'.vertex] = [position EXCEPT !.pos = call.vertex]
         \/ /\ Keeps(f) /\ call.mode = "ApplyFirst" /\ operation # "Moves"
            /\ \E j : /\ infos' = Append(infos, j)
                      /\ Unwound(position', j) = [position EXCEPT !.pos = call.vertex]
            /\ [position' EXCEPT !.pos = call'.vertex] = position'
  PROVE  PhaseInv' /\ UndoInv'
<1>1. ASSUME Held
      PROVE  Held'
  <2>1. PICK t : /\ History(frames, t, Start) /\ t.at = position /\ t.infos = infos
                 /\ call.mode = "ApplyFirst" => t.base = [position EXCEPT !.pos = call.vertex]
    BY <1>1 DEF Held, Searching
  <2>2. Start' = Start /\ Searching' /\ IsSeq(frames) /\ IsSeq(infos)
    BY LevelsFacts, GameFacts DEF Start, apiVars, Searching
  <2>3. Settled(t, Start)
    BY <2>1, <2>2, HistoryTop
  <2>4. CASE infos' = infos /\ ~Keeps(f)
    <3> DEFINE u == [at |-> position', infos |-> infos, base |-> t.base]
    <3>1. u.at = position' /\ u.infos = infos /\ u.base = t.base
      OBVIOUS
    <3> HIDE DEF u
    <3>2. Settled(u, Start)
      BY <2>1, <2>3, <3>1 DEF Settled
    <3>3. Kept(f, t, u)
      BY <2>1, <2>4, <3>1 DEF Kept
    <3>4. History(frames', u, Start')
      BY <2>1, <2>2, <3>2, <3>3, HistoryPushed
    <3>5. call'.mode = "ApplyFirst" => u.base = [position' EXCEPT !.pos = call'.vertex]
      BY <2>1, <2>4, <3>1
    <3> QED BY <2>2, <2>4, <3>1, <3>4, <3>5 DEF Held
  <2>5. CASE Keeps(f)
    <3>1. PICK j : /\ infos' = Append(infos, j)
                   /\ Unwound(position', j) = [position EXCEPT !.pos = call.vertex]
      BY <2>5
    <3>2. call.mode = "ApplyFirst" /\ [position' EXCEPT !.pos = call'.vertex] = position'
      BY <2>5
    <3> DEFINE u == [at |-> position', infos |-> infos', base |-> position']
    <3>3. u.at = position' /\ u.infos = infos' /\ u.base = position'
      OBVIOUS
    <3> HIDE DEF u
    <3>4. IsSeq(infos') /\ infos' # <<>> /\ Front(infos') = infos
      BY <2>2, <3>1, Elements, Lengths, FrontAppended
    <3>5. Wound(infos', position', Start)
      BY <2>1, <2>2, <2>3, <3>1, <3>2, WoundPushed DEF Settled
    <3>6. Settled(u, Start)
      BY <3>3, <3>4, <3>5 DEF Settled
    <3>7. Kept(f, t, u)
      BY <2>1, <2>5, <3>3, <3>4 DEF Kept, Keeps
    <3>8. History(frames', u, Start')
      BY <2>1, <2>2, <3>6, <3>7, HistoryPushed
    <3> QED BY <2>2, <3>2, <3>3, <3>8 DEF Held
  <2> QED BY <2>4, <2>5
<1> QED BY <1>1, UndoSearches DEF Keeps

\* Coming back from a call that has failed.
LEMMA UndoReturns ==
  ASSUME LevelsInv, SafeInv, PhaseInv, UndoInv, UNCHANGED apiVars,
         phase = "return", ~Succeeding, frames # <<>>, frames' = Front(frames),
         position' = Undone(Last(frames), position),
         infos' = IF Keeps(Last(frames)) THEN Front(infos) ELSE infos,
         \/ /\ phase' = "return" /\ ~Succeeding'
         \/ /\ phase' = "call" /\ Last(frames).kind \in {"branch", "condition"}
            /\ call'.mode = Last(frames).call.mode /\ call'.vertex = Last(frames).call.vertex
  PROVE  PhaseInv' /\ UndoInv'
<1>1. ASSUME Held
      PROVE  Held'
  <2>1. PICK t : History(frames, t, Start) /\ t.at = position /\ t.infos = infos
    BY <1>1 DEF Held, Searching
  <2>2. Start' = Start /\ Searching' /\ IsSeq(frames)
    BY LevelsFacts DEF Start, apiVars, Searching
  <2>3. PICK s : History(Front(frames), s, Start) /\ Kept(Last(frames), s, t)
    BY <2>1, <2>2, HistoryPopped
  <2>4. History(frames', s, Start') /\ s.at = position' /\ s.infos = infos'
    BY <2>1, <2>2, <2>3 DEF Kept
  <2>5. phase' = "call" /\ call'.mode = "ApplyFirst" =>
          s.base = [position' EXCEPT !.pos = call'.vertex]
    BY <2>3, <2>4 DEF Kept
  <2> QED BY <2>2, <2>4, <2>5 DEF Held
<1>2. operation = "Moves" => infos' = infos
  <2>1. operation = "Moves" => infos = <<>>
    BY DEF PhaseInv
  <2>2. Front(<<>>) = <<>>
    BY DEF Front
  <2> QED BY <2>1, <2>2
<1> QED BY <1>1, <1>2, UndoSearches

\* Coming back from one that has succeeded.
LEMMA UndoSucceeds ==
  ASSUME LevelsInv, SafeInv, PhaseInv, UndoInv, UNCHANGED apiVars,
         Succeeding, UNCHANGED <<position, infos, phase, call, value>>
  PROVE  PhaseInv' /\ UndoInv'
<1>1. ASSUME Held
      PROVE  Held'
  <2>1. Wound(infos, position, Start) /\ infos # <<>>
    BY <1>1 DEF Held, Searching, Succeeding
  <2>2. Start' = Start /\ ~Searching'
    BY DEF Start, apiVars, Searching, Succeeding
  <2> QED BY <2>1, <2>2 DEF Held
<1> QED BY <1>1, UndoSearches DEF Succeeding

----
\* Tests, marks and the switch of Run leave position, infos and stack alone.
LEMMA UndoTests ==
  ASSUME LevelsInv, SafeInv, PhaseInv, UndoInv, RunTest \/ RunVisitedCheck \/ RunSwitch
  PROVE  PhaseInv' /\ UndoInv'
<1>1. /\ phase = "call" /\ UNCHANGED <<position, frames, infos, apiVars>>
      /\ \/ phase' = "call" /\ call' = Following
         \/ phase' = "return" /\ value' = FALSE
  BY DEF RunTest, RunVisitedCheck, RunSwitch, At, Calls, Returns, searchVars
<1>2. ~Succeeding'
  BY <1>1 DEF Succeeding
<1> QED BY <1>1, <1>2, GoodFollowing, UndoGoesOn

LEMMA UndoCondition ==
  ASSUME LevelsInv, SafeInv, PhaseInv, UndoInv, RunCondition
  PROVE  PhaseInv' /\ UndoInv'
<1> DEFINE f == [kind |-> "condition", negated |-> Action.negated, call |-> Following]
<1>1. /\ phase = "call" /\ UNCHANGED <<position, infos, apiVars>>
      /\ frames' = Append(frames, f) /\ phase' = "call"
      /\ call' = [at |-> <<Action.initial, 1>>, mode |-> "FindEnd", vertex |-> 0]
  BY DEF RunCondition, At, PushFrame, Calls
<1>2. /\ f.kind = "condition" /\ f.call.mode = call.mode /\ f.call.vertex = call.vertex
      /\ ~Keeps(f) /\ Undone(f, position') = position
  BY <1>1, GoodFollowing DEF Keeps, Undone
<1> HIDE DEF f
<1> QED BY <1>1, <1>2, UndoEnters

LEMMA UndoConditionReturns ==
  ASSUME LevelsInv, SafeInv, PhaseInv, UndoInv, ReturnCondition
  PROVE  PhaseInv' /\ UndoInv'
<1>1. /\ phase = "return" /\ frames # <<>> /\ Frame.kind = "condition" /\ Frame = Last(frames)
      /\ frames' = Front(frames) /\ UNCHANGED <<position, infos, apiVars>>
      /\ \/ phase' = "call" /\ call' = Frame.call
         \/ phase' = "return" /\ value' = FALSE
  BY DEF ReturnCondition, Returning, PopFrame, Calls, Returns, Frame
<1>2. ~Succeeding
  <2>1. /\ IsSeq(frames) /\ FramesOK(frames, Base)
        /\ value => call.mode = TopMode(frames, Base)
    BY <1>1 DEF LevelsInv
  <2> QED BY <1>1, <2>1, FramesPopped DEF Succeeding
<1>3. position' = Undone(Last(frames), position) /\ ~Keeps(Last(frames))
  BY <1>1 DEF Undone, Keeps
<1>4. phase' = "return" => ~Succeeding'
  BY <1>1 DEF Succeeding
<1> QED BY <1>1, <1>2, <1>3, <1>4, UndoReturns

LEMMA UndoConditionVisitedCheck ==
  ASSUME LevelsInv, SafeInv, PhaseInv, UndoInv, RunConditionVisitedCheck
  PROVE  PhaseInv' /\ UndoInv'
<1> DEFINE m == Mark(Action.check)
           f == [kind |-> "result", mark |-> m]
<1>1. phase = "call" /\ call.mode = "FindEnd" /\ UNCHANGED <<position, infos, apiVars>>
  BY DEF RunConditionVisitedCheck, At
<1>2. CASE m \in Last(visited) \cup Last(results)
  <2>1. UNCHANGED frames /\ phase' = "return" /\ call' = call
    BY <1>2 DEF RunConditionVisitedCheck, Returns
  <2>2. ~Succeeding'
    BY <1>1, <2>1 DEF Succeeding
  <2> QED BY <1>1, <2>1, <2>2, UndoGoesOn
<1>3. CASE m \notin Last(visited) \cup Last(results)
  <2>1. frames' = Append(frames, f) /\ phase' = "call" /\ call' = Following
    BY <1>3 DEF RunConditionVisitedCheck, PushFrame, Calls
  <2>2. f.kind = "result" /\ ~Keeps(f) /\ Undone(f, position') = position
    BY <1>1 DEF Keeps, Undone
  <2>3. call'.mode # "ApplyFirst"
    BY <1>1, <2>1, GoodFollowing
  <2> HIDE DEF f, m
  <2> QED BY <1>1, <2>1, <2>2, <2>3, UndoEnters
<1> QED BY <1>2, <1>3

LEMMA UndoResult ==
  ASSUME LevelsInv, SafeInv, PhaseInv, UndoInv, ReturnResult
  PROVE  PhaseInv' /\ UndoInv'
<1>1. /\ phase = "return" /\ frames # <<>> /\ Last(frames).kind = "result"
      /\ frames' = Front(frames) /\ UNCHANGED <<position, infos, phase, call, value, apiVars>>
  BY DEF ReturnResult, Returning, PopFrame, Frame
<1>2. position' = Undone(Last(frames), position) /\ ~Keeps(Last(frames))
  BY <1>1 DEF Undone, Keeps
<1>3. Succeeding' <=> Succeeding
  BY <1>1 DEF Succeeding
<1> QED BY <1>1, <1>2, <1>3, UndoReturns, UndoSucceeds

LEMMA UndoShift ==
  ASSUME LevelsInv, SafeInv, PhaseInv, UndoInv, RunShift
  PROVE  PhaseInv' /\ UndoInv'
<1> DEFINE f == [kind |-> "shift", mode |-> call.mode, action |-> Action,
                 saved |-> Saved(Action, position)]
<1>1. /\ phase = "call" /\ ~AtBranch /\ Action.type = "shift" /\ UNCHANGED <<infos, apiVars>>
      /\ position' = Applied(game, Action, position)
      /\ frames' = Append(frames, f) /\ phase' = "call" /\ call' = Following
  BY DEF RunShift, At, PushFrame, Calls
<1>2. position.pos \in Squares(game) /\ IsBoard(game) /\ IsPosition(game, position)
  BY <1>1, GameFacts DEF SafeInv, ShiftPending, At
<1>3. IsChange(game, Action)
  BY <1>1, ActionFacts DEF IsChange, ModifierTypes
<1>4. Reverted(Action, position', Saved(Action, position)) = position
  BY <1>1, <1>2, <1>3, ChangeApplied
<1>5. f.kind = "shift" /\ ~Keeps(f) /\ Undone(f, position') = position
  BY <1>4 DEF Keeps, Undone
<1>6. call'.mode = call.mode /\ call'.vertex = call.vertex
  BY <1>1, GoodFollowing
<1>7. [position' EXCEPT !.pos = call.vertex] = [position EXCEPT !.pos = call.vertex]
  <2> DEFINE v == game.next[Action.label][position.pos]
             p == position
             q == position'
             w == call.vertex
  <2>1. q = [p EXCEPT !.pos = v]
    BY <1>1 DEF Applied
  <2>2. p = [pos |-> p.pos, vars |-> p.vars, player |-> p.player,
             fields |-> p.fields, counts |-> p.counts]
    BY <1>2 DEF IsPosition
  <2> HIDE DEF v, p, q, w
  <2>3. q = [pos |-> v, vars |-> p.vars, player |-> p.player,
             fields |-> p.fields, counts |-> p.counts]
    BY <2>1, <2>2
  <2>4. [q EXCEPT !.pos = w] = [p EXCEPT !.pos = w]
    BY <2>2, <2>3
  <2> QED BY <2>4 DEF p, q, w
<1> HIDE DEF f
<1> QED BY <1>1, <1>5, <1>6, <1>7, UndoEnters

LEMMA UndoShiftReturns ==
  ASSUME LevelsInv, SafeInv, PhaseInv, UndoInv, ReturnShift
  PROVE  PhaseInv' /\ UndoInv'
<1>1. /\ phase = "return" /\ frames # <<>> /\ Frame.kind = "shift" /\ Frame = Last(frames)
      /\ frames' = Front(frames) /\ UNCHANGED <<infos, phase, call, value, apiVars>>
      /\ position' = IF Frame.mode = "ApplyFirst" /\ value THEN position
                     ELSE Reverted(Frame.action, position, Frame.saved)
  BY DEF ReturnShift, Returning, PopFrame, Frame
<1>2. Frame.mode = "ApplyFirst" /\ value <=> Succeeding
  BY <1>1, TopFrame
<1>3. Succeeding' <=> Succeeding
  BY <1>1 DEF Succeeding
<1>4. ~Succeeding => position' = Undone(Last(frames), position)
  BY <1>1, <1>2 DEF Undone
<1>5. ~Keeps(Last(frames))
  BY <1>1 DEF Keeps
<1> QED BY <1>1, <1>2, <1>3, <1>4, <1>5, UndoReturns, UndoSucceeds

LEMMA UndoModifier ==
  ASSUME LevelsInv, SafeInv, PhaseInv, UndoInv, RunModifier
  PROVE  PhaseInv' /\ UndoInv'
<1> DEFINE f == [kind |-> "modifier", mode |-> call.mode, action |-> Action,
                 saved |-> Saved(Action, position)]
<1>1. /\ phase = "call" /\ ~AtBranch /\ Action.type \in ModifierTypes \cup {"switch"}
      /\ UNCHANGED apiVars
      /\ position' = Applied(game, Action, position)
      /\ infos' = IF call.mode = "ApplyFirst" THEN Append(infos, RevertInfo(call.vertex)) ELSE infos
      /\ frames' = Append(frames, f) /\ phase' = "call"
      /\ call' = [Following EXCEPT !.vertex = position.pos]
  BY DEF RunModifier, PushFrame, Calls, LevelPushed
<1>2. /\ IsPosition(game, position') /\ position'.pos = position.pos
      /\ Reverted(Action, position', Saved(Action, position)) = position
  BY <1>1, ModifierFacts
<1>3. f.kind = "modifier" /\ Undone(f, position') = position
      /\ (Keeps(f) <=> call.mode = "ApplyFirst")
  BY <1>2 DEF Undone, Keeps
<1>4. call'.mode = call.mode /\ call'.vertex = position.pos
  <2>1. /\ Following.mode = call.mode
        /\ Following = [at |-> Following.at, mode |-> Following.mode, vertex |-> Following.vertex]
    BY <1>1, GoodFollowing DEF IsCall
  <2> DEFINE c == Following
  <2> HIDE DEF c
  <2>2. call' = [at |-> c.at, mode |-> c.mode, vertex |-> position.pos]
    BY <1>1, <2>1 DEF c
  <2> QED BY <2>1, <2>2 DEF c
<1>5. [position' EXCEPT !.pos = call'.vertex] = position'
  <2> DEFINE q == position'
  <2>1. q = [pos |-> q.pos, vars |-> q.vars, player |-> q.player,
             fields |-> q.fields, counts |-> q.counts]
    BY <1>2 DEF IsPosition
  <2>2. call'.vertex = q.pos
    BY <1>2, <1>4
  <2> HIDE DEF q
  <2>3. [q EXCEPT !.pos = q.pos] = q
    BY <2>1
  <2> QED BY <2>2, <2>3 DEF q
<1>6. Unwound(position', RevertInfo(call.vertex)) = [position EXCEPT !.pos = call.vertex]
  BY <1>2, Zenon DEF Unwound, RevertInfo
<1>7. call.mode = "ApplyFirst" => operation # "Moves"
  <2>1. /\ call.mode = TopMode(frames, Base)
    BY <1>1 DEF LevelsInv
  <2> QED BY <2>1 DEF TopMode, Mode, Base
<1> HIDE DEF f
<1>8. CASE call.mode = "ApplyFirst"
  BY <1>1, <1>3, <1>5, <1>6, <1>7, <1>8, UndoEnters
<1>9. CASE call.mode # "ApplyFirst"
  BY <1>1, <1>3, <1>4, <1>9, UndoEnters
<1> QED BY <1>8, <1>9

LEMMA UndoModifierReturns ==
  ASSUME LevelsInv, SafeInv, PhaseInv, UndoInv, ReturnModifier
  PROVE  PhaseInv' /\ UndoInv'
<1>1. /\ phase = "return" /\ frames # <<>> /\ Frame.kind = "modifier" /\ Frame = Last(frames)
      /\ frames' = Front(frames) /\ UNCHANGED <<phase, call, value, apiVars>>
      /\ IF Frame.mode = "ApplyFirst" /\ value
         THEN UNCHANGED <<position, infos>>
         ELSE /\ position' = Reverted(Frame.action, position, Frame.saved)
              /\ infos' = IF Frame.mode = "ApplyFirst" THEN Front(infos) ELSE infos
  BY DEF ReturnModifier, Returning, PopFrame, Frame
<1>2. Frame.mode = "ApplyFirst" /\ value <=> Succeeding
  BY <1>1, TopFrame
<1>3. Succeeding' <=> Succeeding
  BY <1>1 DEF Succeeding
<1>4. ~Succeeding =>
        /\ position' = Undone(Last(frames), position)
        /\ infos' = IF Keeps(Last(frames)) THEN Front(infos) ELSE infos
  BY <1>1, <1>2 DEF Undone, Keeps
<1> QED BY <1>1, <1>2, <1>3, <1>4, UndoReturns, UndoSucceeds

\* The switch ends the search at the vertex its last modifier left, or where
\* that makes no difference.
LEMMA UndoApplySwitch ==
  ASSUME LevelsInv, SafeInv, PhaseInv, UndoInv, ApplySwitch, EndsInPlace
  PROVE  PhaseInv' /\ UndoInv'
<1> DEFINE j == RevertInfo(position.pos)
<1>1. /\ phase = "call" /\ ~AtBranch /\ Action.type = "switch" /\ call.mode = "ApplyFirst"
      /\ UNCHANGED apiVars
      /\ position' = Applied(game, Action, position) /\ infos' = Append(infos, j)
      /\ phase' = "return" /\ value' = TRUE /\ call' = call
  BY DEF ApplySwitch, At, Returns
<1>2. /\ IsPosition(game, position)
      /\ Reverted(Action, position', Saved(Action, position)) = position
  BY <1>1, ModifierFacts
<1>3. [position EXCEPT !.pos = position.pos] = position
  BY <1>2 DEF IsPosition
<1>4. Unwound(position', j) = position
  BY <1>2, <1>3, Zenon DEF Unwound, RevertInfo
<1>5. ASSUME operation = "Apply", Held
      PROVE  Held'
  <2>1. PICK t : /\ History(frames, t, Start) /\ t.at = position /\ t.infos = infos
                 /\ t.base = [position EXCEPT !.pos = call.vertex]
    BY <1>1, <1>5 DEF Held, Searching
  <2>2. /\ infos # <<>> /\ IsSeq(infos)
        /\ Wound(infos, [position EXCEPT !.pos = call.vertex], Start)
    BY <2>1, HistoryTop, LevelsFacts DEF Settled
  <2>3. Wound(infos, position, Start)
    <3>1. CASE position.pos = call.vertex
      BY <1>3, <2>2, <3>1
    <3>2. CASE Last(infos).action.type # "off"
      <4>1. GoodInfo(game, Last(infos))
        BY <2>2, GameFacts, Elements DEF GoodInfos
      <4> QED BY <1>2, <2>2, <3>2, <4>1, WoundElsewhere DEF GoodInfo
    <3> QED BY <1>5, <3>1, <3>2 DEF EndsInPlace
  <2>4. Wound(infos', position', Start)
    BY <1>1, <1>4, <2>2, <2>3, WoundPushed
  <2>5. infos' # <<>> /\ Start' = Start /\ ~Searching'
    BY <1>1, <2>2, Lengths DEF Start, apiVars, Searching, Succeeding
  <2> QED BY <2>4, <2>5 DEF Held
<1>6. operation # "Moves"
  <2>1. call.mode = TopMode(frames, Base)
    BY <1>1 DEF LevelsInv
  <2> QED BY <1>1, <2>1 DEF TopMode, Mode, Base
<1> HIDE DEF j
<1> QED BY <1>1, <1>5, <1>6, UndoSearches

LEMMA UndoBranch ==
  ASSUME LevelsInv, SafeInv, PhaseInv, UndoInv, RunBranch
  PROVE  PhaseInv' /\ UndoInv'
<1> DEFINE nexts == Block.nexts
           at == <<nexts[1], 1>>
           f == [kind |-> "branch", rest |-> Tail(nexts), call |-> call]
<1>1. /\ phase = "call" /\ UNCHANGED <<position, infos, apiVars>>
      /\ \/ Returns(call.mode = "FindEnd") /\ UNCHANGED frames
         \/ Calls([call EXCEPT !.at = at]) /\ (UNCHANGED frames \/ PushFrame(f))
  BY DEF RunBranch, searchVars
<1>2. /\ f.kind = "branch" /\ f.call = call /\ ~Keeps(f) /\ Undone(f, position') = position
  BY <1>1 DEF Keeps, Undone
<1> HIDE DEF nexts, at, f
<1>3. [call EXCEPT !.at = at].mode = call.mode /\ [call EXCEPT !.at = at].vertex = call.vertex
  BY LevelsFacts DEF IsCall
<1>4. CASE Returns(call.mode = "FindEnd") /\ UNCHANGED frames
  <2>1. phase' = "return" /\ value' = (call.mode = "FindEnd") /\ call' = call
    BY <1>4 DEF Returns
  <2>2. ~Succeeding'
    BY <2>1 DEF Succeeding
  <2> QED BY <1>1, <1>4, <2>1, <2>2, UndoGoesOn
<1>5. CASE Calls([call EXCEPT !.at = at]) /\ UNCHANGED frames
  <2>1. phase' = "call" /\ call'.mode = call.mode /\ call'.vertex = call.vertex
    BY <1>3, <1>5 DEF Calls
  <2>2. ~Succeeding'
    BY <2>1 DEF Succeeding
  <2> QED BY <1>1, <1>5, <2>1, <2>2, UndoGoesOn
<1>6. CASE Calls([call EXCEPT !.at = at]) /\ PushFrame(f)
  <2>1. /\ phase' = "call" /\ call'.mode = call.mode /\ call'.vertex = call.vertex
        /\ frames' = Append(frames, f)
    BY <1>3, <1>6 DEF Calls, PushFrame
  <2>2. [position' EXCEPT !.pos = call'.vertex] = [position EXCEPT !.pos = call.vertex]
    BY <1>1, <2>1
  <2> QED BY <1>1, <1>2, <2>1, <2>2, UndoEnters
<1> QED BY <1>1, <1>4, <1>5, <1>6

LEMMA UndoBranchReturns ==
  ASSUME LevelsInv, SafeInv, PhaseInv, UndoInv, ReturnBranch
  PROVE  PhaseInv' /\ UndoInv'
<1>1. /\ phase = "return" /\ frames # <<>> /\ Frame.kind = "branch"
      /\ UNCHANGED <<position, infos, apiVars>>
  BY DEF ReturnBranch, Returning, searchVars
<1>2. /\ Frame = Last(frames) /\ IsSeq(frames) /\ IsCall(Frame.call)
      /\ Succeeding => value
  BY <1>1, TopFrame
<1>3. position = Undone(Last(frames), position) /\ ~Keeps(Last(frames))
  BY <1>1, <1>2 DEF Undone, Keeps
<1>4. CASE value \/ Frame.rest = <<>>
  <2>1. frames' = Front(frames) /\ UNCHANGED <<phase, call, value>>
    BY <1>4 DEF ReturnBranch, PopFrame
  <2>2. Succeeding' <=> Succeeding
    BY <2>1 DEF Succeeding
  <2> QED BY <1>1, <1>3, <2>1, <2>2, UndoReturns, UndoSucceeds
<1>5. CASE ~(value \/ Frame.rest = <<>>)
  <2> DEFINE f == [Frame EXCEPT !.rest = Tail(@)]
             at == <<Head(Frame.rest), 1>>
  <2>1. /\ frames' = Append(Front(frames), f) /\ phase' = "call"
        /\ call' = [Frame.call EXCEPT !.at = at]
    BY <1>5 DEF ReturnBranch, Calls
  <2>2. ~Succeeding /\ Searching'
    BY <1>5, <1>2, <2>1 DEF Succeeding, Searching
  <2>3. call'.mode = Frame.call.mode /\ call'.vertex = Frame.call.vertex
    <3> HIDE DEF at
    <3> QED BY <1>2, <2>1 DEF IsCall
  <2>4. f.kind = "branch" /\ f.call = Frame.call
    <3>1. Frame = [kind |-> Frame.kind, rest |-> Frame.rest, call |-> Frame.call]
      BY <1>1, <1>2, FramesPopped DEF LevelsInv, IsFrame
    <3> DEFINE r == Frame
    <3> HIDE DEF r
    <3>2. r = [kind |-> r.kind, rest |-> r.rest, call |-> r.call]
      BY <3>1 DEF r
    <3>3. [r EXCEPT !.rest = Tail(@)].kind = r.kind /\ [r EXCEPT !.rest = Tail(@)].call = r.call
      BY <3>2
    <3> QED BY <1>1, <3>3 DEF r
  <2> HIDE DEF f, at
  <2>5. ASSUME Held
        PROVE  Held'
    <3>1. PICK t : History(frames, t, Start) /\ t.at = position /\ t.infos = infos
      BY <1>1, <2>2, <2>5 DEF Held, Searching
    <3>2. PICK s : History(Front(frames), s, Start) /\ Kept(Frame, s, t)
      BY <1>1, <1>2, <3>1, HistoryPopped
    <3>3. /\ s.at = position /\ s.infos = infos
          /\ Frame.call.mode = "ApplyFirst" => s.base = [position EXCEPT !.pos = Frame.call.vertex]
      BY <1>1, <1>2, <1>3, <3>1, <3>2 DEF Kept
    <3>4. Kept(f, s, s)
      <4>1. Undone(f, s.at) = s.at /\ ~Keeps(f)
        BY <2>4 DEF Undone, Keeps
      <4> QED BY <2>4, <3>3, <4>1 DEF Kept
    <3>5. IsSeq(Front(frames)) /\ Settled(s, Start)
      BY <1>2, <3>2, Elements, HistoryTop
    <3>6. History(frames', s, Start)
      BY <2>1, <3>2, <3>4, <3>5, HistoryPushed
    <3>7. Start' = Start
      BY <1>1 DEF Start, apiVars
    <3> QED BY <1>1, <2>1, <2>2, <2>3, <3>3, <3>6, <3>7 DEF Held
  <2> QED BY <1>1, <2>1, <2>5, UndoSearches
<1> QED BY <1>4, <1>5

----
\* The keeper's search begins, and ends.
LEMMA UndoClosureRun ==
  ASSUME LevelsInv, SafeInv, PhaseInv, UndoInv, ClosureRun
  PROVE  PhaseInv' /\ UndoInv'
<1>1. /\ phase = "closure" /\ phase' = "call" /\ call'.vertex = position.pos
      /\ UNCHANGED <<position, infos, operation, undos, frames>>
  BY DEF ClosureRun, Calls
<1>2. frames = <<>> /\ operation \notin {"none", "Moves", "Revert"}
  BY <1>1 DEF LevelsInv, LoopPhases, PhaseInv
<1>3. ASSUME Held
      PROVE  Held'
  <2>1. Wound(infos, position, Start) /\ infos # <<>> /\ IsSeq(infos)
    BY <1>1, <1>3, GameFacts DEF Held, Searching
  <2> DEFINE t == [at |-> position, infos |-> infos, base |-> position]
  <2>2. t.at = position /\ t.infos = infos /\ t.base = position
    OBVIOUS
  <2> HIDE DEF t
  <2>3. History(<<>>, t, Start)
    BY <2>1, <2>2, HistoryEmpty DEF Settled
  <2>4. [position EXCEPT !.pos = position.pos] = position
    BY GameFacts DEF IsPosition
  <2>5. Start' = Start /\ Searching'
    BY <1>1 DEF Start, Searching
  <2>6. History(frames', t, Start')
    BY <1>1, <1>2, <2>3, <2>5
  <2> QED BY <1>1, <2>2, <2>4, <2>5, <2>6 DEF Held
<1>4. PhaseInv'
  BY <1>1, <1>2 DEF PhaseInv
<1>5. Linked(undos)'
  BY <1>1 DEF UndoInv
<1> QED BY <1>1, <1>2, <1>3, <1>4, <1>5 DEF UndoInv

LEMMA UndoClosureReturn ==
  ASSUME LevelsInv, SafeInv, PhaseInv, UndoInv, ClosureReturn
  PROVE  PhaseInv' /\ UndoInv'
<1>1. /\ phase = "return" /\ frames = <<>> /\ operation # "Moves" /\ phase' = "closure"
      /\ UNCHANGED <<position, infos, operation, undos, frames>>
  BY DEF ClosureReturn
<1>2. operation \notin {"none", "Moves", "Revert"}
  BY <1>1 DEF PhaseInv
<1>3. ASSUME Held
      PROVE  Held'
  <2>1. Wound(infos, position, Start) /\ infos # <<>>
    <3>1. CASE Searching
      <4>1. PICK t : History(<<>>, t, Start) /\ t.at = position /\ t.infos = infos
        BY <1>1, <1>3, <3>1 DEF Held
      <4>2. Settled(t, Start) /\ t.base = position
        BY <4>1, HistoryEmpty
      <4> QED BY <4>1, <4>2 DEF Settled
    <3>2. CASE ~Searching
      BY <1>1, <1>3, <3>2 DEF Held
    <3> QED BY <3>1, <3>2
  <2>2. Start' = Start /\ ~Searching'
    BY <1>1 DEF Start, Searching
  <2> QED BY <1>1, <2>1, <2>2 DEF Held
<1>4. PhaseInv'
  BY <1>1, <1>2 DEF PhaseInv
<1>5. Linked(undos)'
  BY <1>1 DEF UndoInv
<1> QED BY <1>1, <1>2, <1>3, <1>4, <1>5 DEF UndoInv

\* The last undo record with other infos, and the records before it.
LEMMA InfosReplaced ==
  ASSUME SafeInv, undos # <<>>, Linked(undos), NEW is
  PROVE  LET us == [undos EXCEPT ![Len(undos)].infos = is]
         IN  /\ Linked(us) /\ Last(us).infos = is /\ Last(us).position = Start
<1> DEFINE n == Len(undos)
           u == undos[n]
           us == [undos EXCEPT ![n].infos = is]
<1>1. IsSeq(undos) /\ GoodUndos(game, undos) /\ n \in Nat /\ n >= 1 /\ Last(undos) = u
  BY GameFacts, IsSeqFacts, Popped DEF SafeInv, CallerOK
<1>2. u = [block |-> u.block, infos |-> u.infos, move |-> u.move, position |-> u.position]
  BY <1>1, TopUndo DEF GoodUndo
<1> DEFINE e == [u EXCEPT !.infos = is]
<1>3. e.infos = is /\ e.position = u.position
  <2> HIDE DEF u
  <2> QED BY <1>2
<1>4. us = [undos EXCEPT ![n] = e]
  OBVIOUS
<1> HIDE DEF e
<1>5. /\ us[n] = e /\ \A i \in 1 .. n - 1 : us[i] = undos[i]
      /\ Len(us) = n /\ IsSeq(us)
  <2>1. DOMAIN undos = 1 .. n
    BY <1>1, IsSeqFacts
  <2>2. IsSeq([undos EXCEPT ![n] = e]) /\ Len([undos EXCEPT ![n] = e]) = n
    BY <1>1, Elements
  <2> HIDE DEF n, us
  <2>3. n \in 1 .. n /\ \A i \in 1 .. n - 1 : i \in 1 .. n /\ i # n
    BY <1>1
  <2> QED BY <1>4, <2>1, <2>2, <2>3
<1> HIDE DEF u, us
<1>6. us # <<>> /\ Last(us) = e
  <2>1. us # <<>>
    BY <1>1, <1>5, IsSeqFacts
  <2> QED BY <1>5, <2>1, Popped
<1> HIDE DEF n
<1>7. Linked(us)
  <2> SUFFICES ASSUME NEW i \in 1 .. n - 1
               PROVE  Wound(us[i].infos, us[i + 1].position, us[i].position)
    BY <1>5 DEF Linked
  <2>1. us[i] = undos[i] /\ Wound(undos[i].infos, undos[i + 1].position, undos[i].position)
    BY <1>5 DEF Linked, n
  <2>2. us[i + 1].position = undos[i + 1].position
    <3>1. CASE i + 1 = n
      BY <1>3, <1>5, <3>1 DEF u
    <3>2. CASE i + 1 # n
      <4>1. i + 1 \in 1 .. n - 1
        BY <1>1, <3>2
      <4> QED BY <1>5, <4>1
    <3> QED BY <3>1, <3>2
  <2> QED BY <2>1, <2>2
<1>8. Last(us).infos = is /\ Last(us).position = Start
  BY <1>1, <1>3, <1>6 DEF Start
<1> QED BY <1>7, <1>8 DEF us, n

LEMMA UndoClosureEnd ==
  ASSUME LevelsInv, SafeInv, PhaseInv, UndoInv, ClosureEnd
  PROVE  PhaseInv' /\ UndoInv'
<1>1. /\ phase = "closure" /\ phase' = "idle" /\ operation' = "none" /\ infos' = <<>>
      /\ UNCHANGED position
      /\ \/ operation = "Apply" /\ undos' = [undos EXCEPT ![Len(undos)].infos = infos]
         \/ operation # "Apply" /\ undos' = <<>>
  BY DEF ClosureEnd
<1>2. PhaseInv'
  BY <1>1 DEF PhaseInv
<1>3. CASE operation = "Apply"
  <2>1. undos # <<>>
    BY <1>3 DEF SafeInv, CallerOK
  <2>2. Wound(infos, position, Start)
    BY <1>1, <1>3 DEF UndoInv, Held, Searching
  <2>3. Linked(undos') /\ Last(undos').infos = infos /\ Last(undos').position = Start
    BY <1>1, <1>3, <2>1, InfosReplaced DEF UndoInv
  <2>4. Standing' = position
    BY <1>1 DEF Standing
  <2> QED BY <1>1, <1>2, <2>2, <2>3, <2>4 DEF UndoInv
<1>4. CASE operation # "Apply"
  <2>1. undos' = <<>> /\ Len(<<>>) = 0
    BY <1>1, <1>4
  <2>2. Linked(undos')
    BY <2>1 DEF Linked
  <2> QED BY <1>1, <1>2, <2>1, <2>2 DEF UndoInv
<1> QED BY <1>3, <1>4

----
\* The calls of the API.
LEMMA UndoMoves ==
  ASSUME LevelsInv, SafeInv, PhaseInv, UndoInv, Moves \/ MovesReturn
  PROVE  PhaseInv' /\ UndoInv'
<1>1. CASE Moves
  <2>1. /\ phase = "idle" /\ phase' = "call" /\ operation' = "Moves" /\ origin' = position
        /\ UNCHANGED <<position, infos, undos>>
    BY <1>1 DEF Moves, Idle, Calls, searchVars
  <2>2. operation = "none"
    BY <2>1 DEF PhaseInv
  <2>3. PhaseInv' /\ Standing' = Standing
    BY <2>1, <2>2 DEF PhaseInv, Standing
  <2> QED BY <2>1, <2>2, <2>3 DEF UndoInv
<1>2. CASE MovesReturn
  <2>1. /\ phase = "return" /\ frames = <<>> /\ operation = "Moves"
        /\ phase' = "idle" /\ operation' = "none" /\ UNCHANGED <<position, infos, undos>>
    BY <1>2 DEF MovesReturn, searchVars
  <2>2. position = origin
    BY <2>1, SearchUndone DEF SearchRestores
  <2>3. PhaseInv' /\ Standing' = Standing
    BY <2>1, <2>2 DEF PhaseInv, Standing
  <2> QED BY <2>1, <2>3 DEF UndoInv
<1> QED BY <1>1, <1>2

LEMMA UndoApply ==
  ASSUME LevelsInv, SafeInv, PhaseInv, UndoInv, NEW move, Apply(move)
  PROVE  PhaseInv' /\ UndoInv'
<1> DEFINE u == [block |-> currentBlock, infos |-> <<>>, move |-> move, position |-> position]
<1>1. /\ phase = "idle" /\ phase' = "apply" /\ operation' = "Apply" /\ undos' = Append(undos, u)
      /\ UNCHANGED <<position, infos>>
  BY DEF Apply, Idle, searchVars
<1>2. u.position = position
  OBVIOUS
<1> HIDE DEF u
<1>3. operation = "none" /\ infos = <<>> /\ Standing = position
  BY <1>1 DEF PhaseInv, Standing
<1>4. PhaseInv'
  BY <1>1 DEF PhaseInv
<1> DEFINE n == Len(undos)
<1>5. /\ IsSeq(undos) /\ n \in Nat /\ (undos = <<>> <=> n = 0)
      /\ Len(undos') = n + 1 /\ undos'[n + 1] = u /\ Last(undos') = u
      /\ \A i \in 1 .. n : undos'[i] = undos[i]
  BY <1>1, GameFacts, IsSeqFacts, Pushed, Lengths
<1>6. undos # <<>> => Last(undos) = undos[n]
  BY <1>5, Popped
<1> HIDE DEF n
<1>7. Linked(undos')
  <2> SUFFICES ASSUME NEW i \in 1 .. n
               PROVE  Wound(undos'[i].infos, undos'[i + 1].position, undos'[i].position)
    BY <1>5 DEF Linked
  <2>1. CASE i = n
    <3>1. undos # <<>> /\ undos'[i] = Last(undos) /\ undos'[i + 1].position = position
      BY <1>2, <1>5, <1>6, <2>1
    <3> QED BY <1>3, <3>1 DEF UndoInv
  <2>2. CASE i # n
    <3>1. i \in 1 .. n - 1 /\ i + 1 \in 1 .. n
      BY <1>5, <2>2
    <3> QED BY <1>5, <3>1 DEF UndoInv, Linked, n
  <2> QED BY <2>1, <2>2
<1>8. Held'
  <2>1. Start' = position
    BY <1>2, <1>5 DEF Start
  <2>2. Wound(<<>>, position, position)
    BY WoundEmpty
  <2>3. ~Searching'
    BY <1>1 DEF Searching
  <2> QED BY <1>1, <1>3, <2>1, <2>2, <2>3 DEF Held
<1> QED BY <1>1, <1>4, <1>7, <1>8 DEF UndoInv

LEMMA UndoApplyModifier ==
  ASSUME LevelsInv, SafeInv, PhaseInv, UndoInv, ApplyModifier
  PROVE  PhaseInv' /\ UndoInv'
<1> DEFINE m == Playing[Len(infos) + 1]
           a == Modifier(game, m[2])
           p == [position EXCEPT !.pos = m[1]]
           i == [action |-> a, vertex |-> position.pos, saved |-> Saved(a, p)]
<1>1. /\ phase = "apply" /\ Len(infos) < Len(Playing) /\ UNCHANGED phase
      /\ position' = Applied(game, a, p) /\ infos' = Append(infos, i)
      /\ UNCHANGED <<game, operation, undos, frames>>
  BY DEF ApplyModifier, apiVars
<1>2. frames = <<>> /\ operation = "Apply" /\ undos # <<>>
  BY <1>1 DEF LevelsInv, LoopPhases, SafeInv, CallerOK
<1>3. /\ IsBoard(game) /\ IsPosition(game, position) /\ IsSeq(infos)
  BY <1>2, LoopFacts
<1>4. m \in Steps(game)
  <2>1. Playing \in Paths(game)
    BY <1>2, TopUndo DEF GoodUndo, Playing
  <2>2. Len(infos) \in Nat /\ Len(Playing) \in Nat
    BY <1>3, <2>1, IsSeqFacts DEF Paths
  <2>3. Len(infos) + 1 \in 1 .. Len(Playing)
    BY <1>1, <2>2
  <2> QED BY <2>1, <2>3, PathFacts
<1>5. m[1] \in Squares(game) /\ m[2] \in DOMAIN game.modifiers
  BY <1>4 DEF Steps
<1> HIDE DEF m
<1>6. IsChange(game, a)
  BY <1>5, StepFacts
<1>7. /\ IsPosition(game, p) /\ p.pos \in Squares(game)
      /\ [p EXCEPT !.pos = position.pos] = position
  <2>1. m[1] \in 1 .. game.size
    BY <1>3, <1>5, BoardFacts
  <2>2. IsPosition(game, p) /\ p.pos = m[1]
    BY <1>3, <2>1, Moved, Zenon
  <2>3. position = [pos |-> position.pos, vars |-> position.vars, player |-> position.player,
                    fields |-> position.fields, counts |-> position.counts]
    BY <1>3 DEF IsPosition
  <2>4. p = [pos |-> m[1], vars |-> position.vars, player |-> position.player,
             fields |-> position.fields, counts |-> position.counts]
    BY <2>3
  <2> HIDE DEF p
  <2>5. [p EXCEPT !.pos = position.pos] =
          [pos |-> position.pos, vars |-> position.vars, player |-> position.player,
           fields |-> position.fields, counts |-> position.counts]
    BY <2>4
  <2> QED BY <1>5, <2>2, <2>3, <2>5
<1> HIDE DEF a, p
<1>8. Reverted(a, position', Saved(a, p)) = p
  BY <1>1, <1>3, <1>6, <1>7, ChangeApplied
<1>9. i.action = a /\ i.saved = Saved(a, p) /\ i.vertex = position.pos
  OBVIOUS
<1> HIDE DEF i
<1>10. Unwound(position', i) = position
  BY <1>7, <1>8, <1>9, Zenon DEF Unwound
<1>11. Held'
  <2>1. Wound(infos, position, Start)
    BY <1>1, <1>2 DEF UndoInv, Held, Searching
  <2>2. Wound(infos', position', Start)
    BY <1>1, <1>3, <1>10, <2>1, WoundPushed
  <2>3. Start' = Start /\ ~Searching'
    BY <1>1 DEF Start, Searching
  <2> QED BY <1>1, <2>2, <2>3 DEF Held
<1>12. PhaseInv' /\ Linked(undos')
  BY <1>1, <1>2 DEF PhaseInv, UndoInv
<1> QED BY <1>1, <1>2, <1>11, <1>12 DEF UndoInv

LEMMA UndoApplySwitched ==
  ASSUME LevelsInv, SafeInv, PhaseInv, UndoInv, ApplySwitched
  PROVE  PhaseInv' /\ UndoInv'
<1>1. /\ phase = "apply" /\ Len(infos) = Len(Playing) /\ phase' = "closure"
      /\ UNCHANGED <<position, infos, operation, undos>>
  BY DEF ApplySwitched
<1>2. operation = "Apply" /\ undos # <<>>
  BY <1>1 DEF SafeInv, CallerOK
<1>3. infos # <<>>
  <2>1. Playing \in Paths(game)
    BY <1>2, TopUndo DEF GoodUndo, Playing
  <2>2. IsSeq(Playing) /\ Playing # <<>>
    BY <2>1, IsSeqIntro DEF Paths
  <2> QED BY <1>1, <2>2, GameFacts, IsSeqFacts
<1>4. Held'
  <2>1. Wound(infos, position, Start)
    BY <1>1, <1>2 DEF UndoInv, Held, Searching
  <2>2. Start' = Start /\ ~Searching'
    BY <1>1 DEF Start, Searching
  <2> QED BY <1>1, <1>3, <2>1, <2>2 DEF Held
<1>5. PhaseInv' /\ Linked(undos')
  BY <1>1, <1>2 DEF PhaseInv, UndoInv
<1> QED BY <1>1, <1>2, <1>4, <1>5 DEF UndoInv

LEMMA UndoRevert ==
  ASSUME LevelsInv, SafeInv, PhaseInv, UndoInv, Revert \/ Reset
  PROVE  PhaseInv' /\ UndoInv'
<1>1. CASE Revert
  <2>1. /\ phase = "idle" /\ phase' = "revert" /\ operation' = "Revert"
        /\ UNCHANGED <<position, infos, undos>>
    BY <1>1 DEF Revert, Idle, searchVars
  <2>2. operation = "none"
    BY <2>1 DEF PhaseInv
  <2>3. PhaseInv' /\ Standing' = Standing
    BY <2>1, <2>2 DEF PhaseInv, Standing
  <2> QED BY <2>1, <2>2, <2>3 DEF UndoInv
<1>2. CASE Reset
  <2>1. phase' = "closure" /\ operation' = "Reset" /\ undos' = undos
    BY <1>2 DEF Reset
  <2> QED BY <2>1 DEF PhaseInv, UndoInv
<1> QED BY <1>1, <1>2

LEMMA UndoRevertModifier ==
  ASSUME LevelsInv, SafeInv, PhaseInv, UndoInv, RevertModifier
  PROVE  PhaseInv' /\ UndoInv'
<1>1. /\ phase = "revert" /\ Unwinding # <<>> /\ UNCHANGED <<phase, operation, infos>>
      /\ position' = Unwound(position, Last(Unwinding))
      /\ undos' = [undos EXCEPT ![Len(undos)].infos = Front(Unwinding)]
  BY DEF RevertModifier
<1>2. operation = "Revert" /\ undos # <<>>
  BY <1>1 DEF SafeInv, CallerOK
<1>3. Wound(Unwinding, position, Start) /\ IsSeq(Unwinding)
  BY <1>2, TopUndo DEF UndoInv, Standing, Unwinding, Start, GoodInfos
<1>4. Wound(Front(Unwinding), position', Start)
  BY <1>1, <1>3, WoundPopped
<1>5. /\ Linked(undos') /\ Last(undos').infos = Front(Unwinding)
      /\ Last(undos').position = Start
  BY <1>1, <1>2, InfosReplaced DEF UndoInv
<1>6. PhaseInv' /\ Standing' = position'
  BY <1>1, <1>2 DEF PhaseInv, Standing
<1> QED BY <1>1, <1>2, <1>4, <1>5, <1>6 DEF UndoInv

\* When all infos are reverted the position is the one Apply was called in.
LEMMA Reverts ==
  ASSUME SafeInv, UndoInv, RevertReturn
  PROVE  position = Last(undos).position
<1>1. phase = "revert" /\ Last(undos).infos = <<>>
  BY DEF RevertReturn, Unwinding
<1>2. operation = "Revert" /\ undos # <<>>
  BY <1>1 DEF SafeInv, CallerOK
<1>3. Wound(<<>>, position, Last(undos).position)
  BY <1>1, <1>2 DEF UndoInv, Standing
<1> QED BY <1>3, WoundEmpty

LEMMA UndoRevertReturn ==
  ASSUME LevelsInv, SafeInv, PhaseInv, UndoInv, RevertReturn
  PROVE  PhaseInv' /\ UndoInv'
<1>1. /\ phase = "revert" /\ phase' = "idle" /\ operation' = "none"
      /\ undos' = Front(undos) /\ UNCHANGED <<position, infos>>
  BY DEF RevertReturn
<1>2. operation = "Revert" /\ undos # <<>>
  BY <1>1 DEF SafeInv, CallerOK
<1>3. PhaseInv' /\ Standing' = position
  BY <1>1, <1>2 DEF PhaseInv, Standing
<1> DEFINE n == Len(undos)
<1>4. /\ n \in Nat /\ IsSeq(undos') /\ Len(undos') = n - 1 /\ Last(undos) = undos[n]
      /\ \A i \in 1 .. n - 1 : undos'[i] = undos[i]
  BY <1>1, <1>2, GameFacts, IsSeqFacts, Popped
<1>5. \A i \in 1 .. n - 1 : Wound(undos[i].infos, undos[i + 1].position, undos[i].position)
  BY DEF UndoInv, Linked
<1> HIDE DEF n
<1>6. Linked(undos')
  <2> SUFFICES ASSUME NEW i \in 1 .. (n - 1) - 1
               PROVE  Wound(undos'[i].infos, undos'[i + 1].position, undos'[i].position)
    BY <1>4 DEF Linked
  <2>1. i \in 1 .. n - 1 /\ i + 1 \in 1 .. n - 1
    BY <1>4
  <2> QED BY <1>4, <1>5, <2>1
<1>7. ASSUME undos' # <<>>
      PROVE  Wound(Last(undos').infos, position, Last(undos').position)
  <2>1. Last(undos') = undos'[n - 1] /\ n - 1 \in 1 .. n - 1 /\ (n - 1) + 1 = n
    <3>1. Last(undos') = undos'[Len(undos')] /\ Len(undos') >= 1
      BY <1>4, <1>7, Popped
    <3> QED BY <1>4, <3>1
  <2>2. Last(undos') = undos[n - 1] /\ undos[n].position = position
    BY <1>4, <2>1, Reverts
  <2> QED BY <1>5, <2>1, <2>2
<1> QED BY <1>1, <1>3, <1>6, <1>7 DEF UndoInv

LEMMA UndoInit ==
  ASSUME Init
  PROVE  PhaseInv /\ UndoInv
<1>1. undos = <<>> /\ Len(<<>>) = 0 /\ phase = "closure" /\ operation = "construct"
  BY DEF Init
<1>2. Linked(undos)
  BY <1>1 DEF Linked
<1> QED BY <1>1, <1>2 DEF PhaseInv, UndoInv

LEMMA UndoStays ==
  ASSUME PhaseInv, UndoInv, UNCHANGED vars
  PROVE  PhaseInv' /\ UndoInv'
<1>1. /\ UNCHANGED <<position, infos, operation, phase, call, value, frames, origin, undos>>
  BY DEF vars, searchVars, apiVars
<1>2. PhaseInv' /\ Linked(undos)' /\ Start' = Start /\ Standing' = Standing
      /\ Searching' = Searching
  BY <1>1 DEF PhaseInv, UndoInv, Start, Standing, Searching, Succeeding
<1>3. Held => Held'
  <2>1. CASE Searching
    BY <1>1, <1>2, <2>1 DEF Held
  <2>2. CASE ~Searching
    BY <1>1, <1>2, <2>2 DEF Held
  <2> QED BY <2>1, <2>2
<1> QED BY <1>1, <1>2, <1>3 DEF UndoInv

LEMMA UndoInductive ==
  ASSUME LevelsInv, SafeInv, PhaseInv, UndoInv, [Next]_vars, EndsInPlace
  PROVE  PhaseInv' /\ UndoInv'
<1>1. ASSUME Step
      PROVE  PhaseInv' /\ UndoInv'
  BY <1>1, UndoTests, UndoCondition, UndoConditionReturns, UndoConditionVisitedCheck,
     UndoResult, UndoShift, UndoShiftReturns, UndoModifier, UndoModifierReturns,
     UndoApplySwitch, UndoBranch, UndoBranchReturns, UndoClosureRun, UndoClosureReturn,
     UndoClosureEnd, UndoMoves, UndoApplyModifier, UndoApplySwitched,
     UndoRevertModifier, UndoRevertReturn DEF Step
<1>2. ASSUME Next, ~Step
      PROVE  PhaseInv' /\ UndoInv'
  BY <1>2, UndoMoves, UndoApply, UndoRevert DEF Next, FirstMoves
<1> QED BY <1>1, <1>2, UndoStays

\* Revert gives back the position Apply was called in, the keeper's own moves
\* undone as well, in every game whose keeper does not walk from a piece it has
\* set to the end of its segment (GameState::Revert).
THEOREM RevertsInPlace == Spec /\ [][EndsInPlace]_vars => RevertRestores
<1> DEFINE Inv == LevelsInv /\ SafeInv /\ PhaseInv /\ UndoInv
<1>1. Init => PhaseInv /\ UndoInv
  BY UndoInit
<1>2. (LevelsInv /\ SafeInv) /\ (PhaseInv /\ UndoInv) /\ [Next]_vars /\ [EndsInPlace]_vars =>
        (PhaseInv /\ UndoInv)'
  BY UndoInductive, UndoStays
<1>3. SafeInv /\ (PhaseInv /\ UndoInv) => (RevertReturn => position = Last(undos).position)
  BY Reverts
<1>4. (LevelsInv /\ SafeInv) /\ (PhaseInv /\ UndoInv) /\ [Next]_vars =>
        [RevertReturn => position = Last(undos).position]_vars
  BY <1>3
<1> QED BY <1>1, <1>2, <1>4, SafeAlways, PTL DEF Spec, RevertRestores
====
