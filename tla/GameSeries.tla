---- MODULE GameSeries ----
(***************************************************************************)
(* What the manager promises: games of at most `MaxGames' are played one   *)
(* after another, each from the start, by legal moves, to its end.         *)
(*                                                                         *)
(* A game is a tree of positions: Tree[p] is [player, next], the player to *)
(* move and a function from the legal moves to the positions they lead to. *)
(***************************************************************************)
EXTENDS Naturals

CONSTANTS Tree, Start, MaxGames

VARIABLES position,  \* of the game being played
          played     \* number of games that have ended

MovesAt(p)  == DOMAIN Tree[p].next
After(p, m) == Tree[p].next[m]

Init == position = Start /\ played = 0

Play == /\ \E m \in MovesAt(position) : position' = After(position, m)
        /\ played < MaxGames
        /\ UNCHANGED played

EndGame == /\ MovesAt(position) = {} /\ played < MaxGames
           /\ position' = Start
           /\ played' = played + 1

Next == Play \/ EndGame

Spec == Init /\ [][Next]_<<position, played>>
====
