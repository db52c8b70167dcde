---- MODULE VisitedMarks ----
(***************************************************************************)
(* What the search promises itself about its "visited" bits, with nothing  *)
(* about how they are stored: a stack of levels, each level a set of       *)
(* marked (check, vertex) pairs.  A new level is empty, leaving a level    *)
(* restores the one below exactly, and starting over leaves one empty      *)
(* level.  `answer' is what the last query returned.                       *)
(***************************************************************************)
EXTENDS Naturals, Sequences, SequencesExt

CONSTANTS Checks,    \* indices of the visited checks (0 .. count - 1)
          Vertices,  \* vertices a check can be asked about
          MaxDepth   \* bound on the number of levels

VARIABLES marks,     \* sequence of sets of <<check, vertex>>, top level last
          answer     \* what the last query returned

vars == <<marks, answer>>

Init == /\ marks = <<{}>>
        /\ answer = FALSE

Push == /\ Len(marks) < MaxDepth
        /\ marks' = Append(marks, {})
        /\ UNCHANGED answer

Pop == /\ Len(marks) > 1
       /\ marks' = SubSeq(marks, 1, Len(marks) - 1)
       /\ UNCHANGED answer

Reset == /\ marks' = <<{}>>
         /\ UNCHANGED answer

Mark(c, v) == /\ marks' = [marks EXCEPT ![Len(marks)] = @ \cup {<<c, v>>}]
              /\ UNCHANGED answer

Query(c, v) == /\ answer' = (<<c, v>> \in marks[Len(marks)])
               /\ UNCHANGED marks

Next == \/ Push
        \/ Pop
        \/ Reset
        \/ \E c \in Checks, v \in Vertices : Mark(c, v) \/ Query(c, v)

Spec == Init /\ [][Next]_vars
====
