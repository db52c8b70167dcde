---- MODULE StringSocket ----
(***************************************************************************)
(* StringSocket of networking/socket.h: one direction of a connection, as  *)
(* bytes.  TCP brings the bytes in order, in pieces of any size; read_until *)
(* takes what it gets into the buffer of the reader until a null character *)
(* is there, which may leave the beginning of further messages behind it.  *)
(*                                                                         *)
(* The reader is a client, which reads, or the server, which moves its     *)
(* sockets around while it accepts, asks for one message asynchronously    *)
(* (HandleReady of server.h) and then reads.                               *)
(***************************************************************************)
EXTENDS Naturals, Sequences, FiniteSets, SequencesExt

CONSTANTS Texts,      \* what is written, sequences of tokens
          Null,       \* the token that ends a message
          ReadyText,  \* "ready"
          MaxWrites   \* bound on the number of messages

ASSUME SocketAssumption ==
  \A text \in Texts \cup {ReadyText} : text \in Seq(ToSet(text)) /\ ~Contains(text, Null)

VARIABLES wire,       \* bytes on their way
          closed,     \* is the writer gone?
          writes,     \* (bounded) number of messages written
          buffer,     \* buffer of the reader
          reader,     \* where the reader is
          size,       \* bytes_transferred, for the handler
          delivered   \* (history) what was extracted

vars == <<wire, closed, writes, buffer, reader, size, delivered>>

\* Bytes up to and including the first null character.
FirstSize(bytes) == SelectInSeq(bytes, LAMBDA b : b = Null)

----
WriteString(text) ==
  /\ ~closed /\ writes < MaxWrites
  /\ wire' = wire \o Append(text, Null)
  /\ writes' = writes + 1
  /\ UNCHANGED <<closed, buffer, reader, size, delivered>>

\* The writer ends, also within a write: of what is on its way a part arrives.
Close ==
  /\ ~closed
  /\ closed' = TRUE
  /\ \E n \in 0 .. Len(wire) : wire' = SubSeq(wire, 1, n)
  /\ UNCHANGED <<writes, buffer, reader, size, delivered>>

\* Mutant: sockets are still moved when messages were read.
LateRelocate ==
  /\ reader \in {"accepting", "idle"}
  /\ buffer' = <<>>
  /\ UNCHANGED <<wire, closed, writes, reader, size, delivered>>

\* The vector of sockets grows: the move constructor copies into the new buffer
\* what the new buffer holds, which is nothing, and drops the old one.
Relocate ==
  /\ reader = "accepting"
  /\ buffer' = <<>>
  /\ UNCHANGED <<wire, closed, writes, reader, size, delivered>>

AsyncReadString ==
  /\ reader = "accepting"
  /\ reader' = "awaiting"
  /\ UNCHANGED <<wire, closed, writes, buffer, size, delivered>>

ReadString ==
  /\ reader = "idle"
  /\ reader' = "reading"
  /\ UNCHANGED <<wire, closed, writes, buffer, size, delivered>>

\* Mutant: what is in the buffer is taken for a message.
HastyReadSome ==
  /\ reader \in {"reading", "awaiting"} /\ buffer = <<>>
  /\ \E n \in 1 .. Len(wire) :
       /\ buffer' = buffer \o SubSeq(wire, 1, n)
       /\ wire' = SubSeq(wire, n + 1, Len(wire))
  /\ UNCHANGED <<closed, writes, reader, size, delivered>>

\* read_until: no null character yet.
ReadSome ==
  /\ reader \in {"reading", "awaiting"} /\ FirstSize(buffer) = 0
  /\ \E n \in 1 .. Len(wire) :
       /\ buffer' = buffer \o SubSeq(wire, 1, n)
       /\ wire' = SubSeq(wire, n + 1, Len(wire))
  /\ UNCHANGED <<closed, writes, reader, size, delivered>>

\* Mutant: the buffer is emptied with the message.
GreedyExtractNextStringFromBuffer ==
  /\ delivered' = Append(delivered, SubSeq(buffer, 1, FirstSize(buffer) - 1))
  /\ buffer' = <<>>

\* getline: the null character is extracted and not part of the string.
ExtractNextStringFromBuffer ==
  /\ delivered' = Append(delivered, SubSeq(buffer, 1, FirstSize(buffer) - 1))
  /\ buffer' = SubSeq(buffer, FirstSize(buffer) + 1, Len(buffer))

ReturnString ==
  /\ reader = "reading" /\ FirstSize(buffer) # 0
  /\ ExtractNextStringFromBuffer
  /\ reader' = "idle"
  /\ UNCHANGED <<wire, closed, writes, size>>

CallHandler ==
  /\ reader = "awaiting" /\ FirstSize(buffer) # 0
  /\ size' = FirstSize(buffer)
  /\ reader' = "handling"
  /\ UNCHANGED <<wire, closed, writes, buffer, delivered>>

\* A message of another size stays where it is, for the next read.
HandleReady ==
  /\ reader = "handling"
  /\ IF size = Len(ReadyText) + 1 THEN ExtractNextStringFromBuffer
     ELSE UNCHANGED <<buffer, delivered>>
  /\ reader' = "idle"
  /\ UNCHANGED <<wire, closed, writes, size>>

\* The end of the stream: a read throws, the handler is called with an error.
EndOfStream ==
  /\ reader \in {"reading", "awaiting"} /\ FirstSize(buffer) = 0
  /\ wire = <<>> /\ closed
  /\ reader' = IF reader = "reading" THEN "failed" ELSE "idle"
  /\ UNCHANGED <<wire, closed, writes, buffer, size, delivered>>

\* After a failed read nothing is read any more.
Done == reader = "failed" /\ UNCHANGED vars

Init ==
  /\ wire = <<>> /\ closed = FALSE /\ writes = 0
  /\ buffer = <<>> /\ size = 0 /\ delivered = <<>>
  /\ reader \in {"idle", "accepting"}

ReaderStep == \/ AsyncReadString \/ ReadString \/ ReadSome \/ ReturnString
              \/ CallHandler \/ HandleReady \/ EndOfStream

Next == \/ \E text \in Texts : WriteString(text)
        \/ Close \/ Relocate \/ ReaderStep \/ Done

\* The reader goes on; nothing makes the writer write or leave.
Spec == Init /\ [][Next]_vars /\ WF_vars(ReaderStep)

----
\* Where messages end in a sequence of bytes, and where the k-th of them does.
Ends(bytes) == {i \in 1 .. Len(bytes) : bytes[i] = Null}

Count(bytes, i) == Cardinality({j \in Ends(bytes) : j <= i})

End(bytes, k) ==
  IF k = 0 THEN 0 ELSE CHOOSE i \in Ends(bytes) : Count(bytes, i) = k

Between(bytes, d, e) == SubSeq(bytes, d + 1, e - 1)

\* The messages that are whole in a sequence of bytes.
Whole(bytes) ==
  [k \in 1 .. Cardinality(Ends(bytes)) |-> Between(bytes, End(bytes, k - 1), End(bytes, k))]

Connection == INSTANCE Mailbox WITH
  Messages <- Texts, queue <- Whole(buffer \o wire), failed <- reader = "failed"

\* Whatever the pieces that arrive, and also for the message HandleReady leaves,
\* the texts read are those written, whole, in order and once, and a read fails
\* only when nothing whole is left; a part of a message is never read.
ImplementsMailbox == Connection!Spec

\* A reader that goes on reads all that is written while the writer stays, and
\* is told in the end if it does not.
AllRead ==
  /\ \A n \in 1 .. MaxWrites : writes >= n ~> Len(delivered) >= n \/ closed
  /\ closed ~> reader = "failed"
====
