---- MODULE Mailbox ----
(***************************************************************************)
(* What Match takes a connection to be: messages are delivered whole, in   *)
(* order and once, the last of them may be lost when the writer goes, and  *)
(* only then, and with nothing left, does a read fail.                     *)
(***************************************************************************)
EXTENDS Naturals, Sequences, SequencesExt

CONSTANT Messages

VARIABLES queue,      \* written and not read yet
          closed,     \* has the writer gone?
          delivered,  \* what was read, in order
          failed      \* has a read failed?

vars == <<queue, closed, delivered, failed>>

Init == queue = <<>> /\ closed = FALSE /\ delivered = <<>> /\ failed = FALSE

Post == /\ ~closed
        /\ UNCHANGED <<closed, delivered, failed>>
        /\ queue' # <<>> /\ Front(queue') = queue /\ Last(queue') \in Messages

Deliver == /\ queue # <<>> /\ ~failed
           /\ delivered' = Append(delivered, Head(queue))
           /\ queue' = Tail(queue)
           /\ UNCHANGED <<closed, failed>>

Close == /\ ~closed
         /\ closed' = TRUE
         /\ \E n \in 0 .. Len(queue) : queue' = SubSeq(queue, 1, n)
         /\ UNCHANGED <<delivered, failed>>

Fail == /\ closed /\ queue = <<>> /\ ~failed
        /\ failed' = TRUE
        /\ UNCHANGED <<queue, closed, delivered>>

Next == Post \/ Deliver \/ Close \/ Fail

Spec == Init /\ [][Next]_vars
====
