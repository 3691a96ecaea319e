------------------------------- MODULE Reader --------------------------------
(***************************************************************************)
(* How the SMTP server cuts what a client sends into command lines and      *)
(* messages: Read and ReadDataBlock (internal/smtp/reader.go), called by    *)
(* the command goroutine and by the DATA executor in turn.                  *)
(*                                                                         *)
(* TCP keeps the bytes in order and forgets where they were sent apart: a   *)
(* read of the connection returns any number of those that have arrived.    *)
(* The reader knows a line only by what stands at the end of a read.        *)
(***************************************************************************)
EXTENDS Integers, Sequences, SequencesExt

CONSTANTS
  MaxBody,      \* bound: bytes in a message
  MaxPieces,    \* bound: lines and messages that a client sends
  MaxRead,      \* bytes a read of the connection may return (1024 in the code)
  Waits         \* whether clients wait for the answer before they go on

ASSUME ReaderAssumption ==
  /\ MaxBody \in Nat /\ MaxPieces \in Nat /\ MaxRead \in Nat \ {0} /\ Waits \in BOOLEAN

VARIABLES
  sent,         \* lines and messages the client has sent, in order
  arrived,      \* bytes that have arrived and are not read
  raw,          \* Read's buffer
  dataBuffer,   \* ReadDataBlock's buffer
  expecting,    \* which of the two is at work
  taken         \* what they have returned

vars == <<sent, arrived, raw, dataBuffer, expecting, taken>>

CRLF == <<"cr", "lf">>
Terminator == CRLF \o <<"dot">> \o CRLF

Bodies == BoundedSeq({"cr", "lf", "dot", "x"}, MaxBody)

\* A message has its terminator at the end and nowhere before, which clients see to by
\* doubling dots at the beginning of lines.
Messages ==
  {[kind |-> "message", bytes |-> body] : body \in
     {b \in Bodies : Terminator \notin SubSeqs(b \o Front(Terminator))}}

\* "d" begins a DATA command, "x" any other.
DataLine == [kind |-> "line", bytes |-> <<"d">> \o CRLF]
OtherLine == [kind |-> "line", bytes |-> <<"x">> \o CRLF]

Pieces == Messages \cup {DataLine, OtherLine}

OnWire(piece) == IF piece.kind = "message" THEN piece.bytes \o Terminator ELSE piece.bytes

TypeOK ==
  /\ sent \in Seq(Pieces) /\ Len(sent) <= MaxPieces
  /\ \A bytes \in {arrived, raw, dataBuffer} : bytes \in Seq({"cr", "lf", "dot", "x", "d"})
  /\ expecting \in {"line", "message"}
  /\ \A i \in DOMAIN taken : taken[i].kind \in {"line", "message"}
  /\ expecting = "line" => dataBuffer = <<>>

Init ==
  /\ sent = <<>> /\ arrived = <<>> /\ raw = <<>> /\ dataBuffer = <<>>
  /\ expecting = "line" /\ taken = <<>>

-----------------------------------------------------------------------------
\* The client: a message after DATA, a line otherwise.
Send(piece) ==
  /\ Len(sent) < MaxPieces
  /\ Waits => Len(taken) = Len(sent)
  /\ (piece.kind = "message") <=> (sent # <<>> /\ Last(sent) = DataLine)
  /\ sent' = Append(sent, piece)
  /\ arrived' = arrived \o OnWire(piece)
  /\ UNCHANGED <<raw, dataBuffer, expecting, taken>>

Take(kind, bytes) == taken' = Append(taken, [kind |-> kind, bytes |-> bytes])

\* GetCommandFromString goes by how the input begins.
IsData(line) == line[1] = "d"

\* The command goroutine has read a line.
LineRead(line) ==
  /\ Take("line", line)
  /\ expecting' = IF IsData(line) THEN "message" ELSE "line"
  /\ UNCHANGED dataBuffer

\* Mutants: the end of a message is looked for in the last read only; it is looked for
\* without the line break before the dot.
BlockReadLast(read) ==
  LET data == dataBuffer \o read
  IN IF Terminator \in SubSeqs(read)
     THEN /\ Take("message", SubSeq(data, 1, Len(data) - 3))
          /\ dataBuffer' = <<>>
          /\ expecting' = "line"
     ELSE /\ dataBuffer' = data
          /\ UNCHANGED <<expecting, taken>>

BlockReadDot(read) ==
  LET data == dataBuffer \o read
  IN IF Tail(Tail(Terminator)) \in SubSeqs(data)
     THEN /\ Take("message", SubSeq(data, 1, Len(data) - 3))
          /\ dataBuffer' = <<>>
          /\ expecting' = "line"
     ELSE /\ dataBuffer' = data
          /\ UNCHANGED <<expecting, taken>>

\* ReadDataBlock, after a Read: three bytes are cut off the end of all that was read.
BlockRead(read) ==
  LET data == dataBuffer \o read
  IN IF Terminator \in SubSeqs(data)
     THEN /\ Take("message", SubSeq(data, 1, Len(data) - 3))
          /\ dataBuffer' = <<>>
          /\ expecting' = "line"
     ELSE /\ dataBuffer' = data
          /\ UNCHANGED <<expecting, taken>>

\* Connection.Read returns n bytes; Read returns all it has if they end in a line break.
ReadConnection(n) ==
  /\ n \in 1..Len(arrived)
  /\ arrived' = SubSeq(arrived, n + 1, Len(arrived))
  /\ LET all == raw \o SubSeq(arrived, 1, n)
     IN IF ~IsSuffix(CRLF, all)
        THEN raw' = all /\ UNCHANGED <<dataBuffer, expecting, taken>>
        ELSE /\ raw' = <<>>
             /\ IF expecting = "line" THEN LineRead(all) ELSE BlockRead(all)
  /\ UNCHANGED sent

Reading == \E n \in 1..MaxRead : ReadConnection(n)

Next == (\E piece \in Pieces : Send(piece)) \/ Reading

Spec == Init /\ [][Next]_vars

\* What has arrived is read.  Clients may fall silent.
FairSpec == Spec /\ WF_vars(Reading)

-----------------------------------------------------------------------------
(* Properties. *)

\* What a piece is to the server: of the terminator the first line break stays, as the
\* last one of the message.
AsTaken(piece) ==
  IF piece.kind = "message" THEN [piece EXCEPT !.bytes = @ \o CRLF] ELSE piece

\* A client that waits for its answers is understood, byte for byte, wherever the network
\* cuts its lines and messages, the terminator included.
TakenAsSent == IsPrefix(taken, [i \in DOMAIN sent |-> AsTaken(sent[i])])

\* And everything it sends is taken: no cut makes the reader miss an end.
SentIsTaken == \A n \in 1..MaxPieces : Len(sent) >= n ~> Len(taken) >= n
==============================================================================
