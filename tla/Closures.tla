---- MODULE Closures ----
(***************************************************************************)
(* The closure of a set: what is reached from it when a step is taken as   *)
(* often as it leads on.  Next is a function on the subsets of U.          *)
(***************************************************************************)

Closure(U, Next, S) ==
  LET all[X \in SUBSET U] == IF Next[X] \subseteq X THEN X ELSE all[X \cup Next[X]]
  IN  all[S]
====
