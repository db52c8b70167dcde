---- MODULE MCMatch ----
(***************************************************************************)
(* Small games: trees in which a player may move twice in a row and which  *)
(* end after one to four moves.                                            *)
(***************************************************************************)
EXTENDS Match

MCTree == [start |-> [player |-> 1, next |-> [a |-> "reply", b |-> "again", c |-> "end"]],
           reply |-> [player |-> 2, next |-> [a |-> "end"]],
           again |-> [player |-> 1, next |-> [a |-> "reply", c |-> "end"]],
           end   |-> [player |-> 1, next |-> <<>>]]

\* Three players; the third may have nothing to do but to follow the game.
MCThreeTree == [start |-> [player |-> 1, next |-> [a |-> "two", b |-> "again", c |-> "end"]],
                two   |-> [player |-> 2, next |-> [a |-> "three", b |-> "end"]],
                again |-> [player |-> 1, next |-> [a |-> "two", b |-> "three"]],
                three |-> [player |-> 3, next |-> [a |-> "end"]],
                end   |-> [player |-> 1, next |-> <<>>]]

\* A game of one move each.
MCShortTree == [start |-> [player |-> 1, next |-> [a |-> "reply"]],
                reply |-> [player |-> 2, next |-> [b |-> "end"]],
                end   |-> [player |-> 1, next |-> <<>>]]

----
\* README.md:56: the game starts when the time for preparation went up.
PreparationEnds == server = "ready" /\ elapsed.sent = PrepTime ~> server # "ready"

\* README.md:59-60: the deadline is the time a player has to make a move.
ChargedOnlyOverdue == \A i \in Clients : book.charged[i] <= book.overdue[i]
====
