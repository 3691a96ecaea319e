------------------------------- MODULE Network -------------------------------
(***************************************************************************)
(* A TCP connection as the SMTP server sees it: what the client has sent,  *)
(* who has closed which side, the read deadline, and the lock that Go's    *)
(* network descriptor holds while a goroutine is inside Read.  The socket  *)
(* and the client are external to the repository; they are modelled from   *)
(* the calls internal/smtp makes on net.Conn (reader.go, connection.go,    *)
(* writer.go).                                                             *)
(*                                                                         *)
(* A line is one segment that ends in CRLF, told apart only by what the    *)
(* server does with it.  How bytes are cut into lines is not modelled.     *)
(***************************************************************************)
EXTENDS Naturals

CONSTANTS
  Conns,          \* connections; each is accepted at most once
  NoConn,         \* "no connection"
  CommandLines,   \* the commands clients send, a subset of AllCommandLines
  BodyLines,      \* how a message body ends, a subset of AllBodyLines
  HangUpPoints,   \* when a client may close its side, see HangUpPoint
  MaxLines        \* bound: lines a client sends on one connection

AllCommandLines == {"ok", "bad", "data", "quit", "unknown"}
AllBodyLines    == {"body", "badBody"}

ASSUME NetworkAssumption ==
  /\ NoConn \notin Conns
  /\ CommandLines \subseteq AllCommandLines
  /\ BodyLines \subseteq AllBodyLines
  /\ HangUpPoints \subseteq {"command", "data", "goodbye"}
  /\ MaxLines \in Nat

VARIABLES
  inbox,        \* inbox[c]: the line waiting in the receive buffer, or NoLine
  linesSent,    \* linesSent[c]: lines the client of c has sent
  inData,       \* connections whose client sent DATA and not yet the body
  hungUp,       \* connections whose client has closed its side
  closed,       \* connections the server has closed
  expired,      \* connections whose read deadline lies in the past
  readLocked,   \* connections some goroutine is inside Read on
  goodbye       \* connections that were sent the 221 closing message

networkVars ==
  <<inbox, linesSent, inData, hungUp, closed, expired, readLocked, goodbye>>

NoLine == ""
Lines  == AllCommandLines \cup AllBodyLines

\* What a read can hand to its caller: a line, nothing (Reader.Read returns
\* an empty string and no error), a timeout, or another error.
ReadResults == Lines \cup {NoLine, "timeout", "error"}

NetworkTypeOK ==
  /\ inbox \in [Conns -> Lines \cup {NoLine}]
  /\ linesSent \in [Conns -> Nat]
  /\ inData \subseteq Conns
  /\ hungUp \subseteq Conns
  /\ closed \subseteq Conns
  /\ expired \subseteq Conns
  /\ readLocked \subseteq Conns
  /\ goodbye \subseteq Conns

NetworkInit ==
  /\ inbox = [c \in Conns |-> NoLine]
  /\ linesSent = [c \in Conns |-> 0]
  /\ inData = {}
  /\ hungUp = {}
  /\ closed = {}
  /\ expired = {}
  /\ readLocked = {}
  /\ goodbye = {}

-----------------------------------------------------------------------------
(* The client. *)

\* After DATA a client sends the message, otherwise a command.
NextLines(c) == IF c \in inData THEN BodyLines ELSE CommandLines

ClientSend(c) ==
  /\ c \notin hungUp \cup goodbye \cup closed
  /\ inbox[c] = NoLine
  /\ linesSent[c] < MaxLines
  /\ \E line \in NextLines(c) :
       /\ inbox' = [inbox EXCEPT ![c] = line]
       /\ inData' = IF line = "data" THEN inData \cup {c} ELSE inData \ {c}
  /\ linesSent' = [linesSent EXCEPT ![c] = @ + 1]
  /\ UNCHANGED <<hungUp, closed, expired, readLocked, goodbye>>

HangUpPoint(c) ==
  IF c \in goodbye THEN "goodbye"
  ELSE IF c \in inData THEN "data" ELSE "command"

ClientHangUp(c) ==
  /\ c \notin hungUp
  /\ HangUpPoint(c) \in HangUpPoints
  /\ hungUp' = hungUp \cup {c}
  /\ UNCHANGED <<inbox, linesSent, inData, closed, expired, readLocked, goodbye>>

-----------------------------------------------------------------------------
(* Reading.  Reader.Read sets the deadline ten minutes ahead, then enters  *)
(* the connection's Read, where one goroutine at a time may be.            *)

\* SetReadDeadline in the future: fails on a closed connection.
ExtendDeadline(c) ==
  /\ c \notin closed
  /\ expired' = expired \ {c}
  /\ UNCHANGED <<inbox, linesSent, inData, hungUp, closed, readLocked, goodbye>>

EnterRead(c) ==
  /\ c \notin closed \cup expired \cup readLocked
  /\ readLocked' = readLocked \cup {c}
  /\ UNCHANGED <<inbox, linesSent, inData, hungUp, closed, expired, goodbye>>

\* A Read that fails before it waits: the connection is closed, or its
\* deadline has already passed.
RefusedResults(c) ==
  IF c \in closed THEN {"error"}
  ELSE IF c \in expired THEN {"timeout"} ELSE {}

\* What ends a Read that waits.  Two causes may be there together: either
\* may win.
WaitResults(c) ==
  {r \in ReadResults :
     \/ r = "error"   /\ (c \in closed \/ (c \in hungUp /\ inbox[c] = NoLine))
     \/ r = "timeout" /\ c \in expired
     \/ r = inbox[c]  /\ inbox[c] # NoLine}

LeaveRead(c, result) ==
  /\ readLocked' = readLocked \ {c}
  /\ inbox' = IF result = inbox[c] THEN [inbox EXCEPT ![c] = NoLine] ELSE inbox
  /\ UNCHANGED <<linesSent, inData, hungUp, closed, expired, goodbye>>

\* Ten minutes pass while a goroutine waits for a silent client.
IdleTimeout(c) ==
  /\ c \in readLocked \ (expired \cup closed \cup hungUp)
  /\ inbox[c] = NoLine
  /\ expired' = expired \cup {c}
  /\ UNCHANGED <<inbox, linesSent, inData, hungUp, closed, readLocked, goodbye>>

-----------------------------------------------------------------------------
(* Writing and closing. *)

SayGoodbye(c) ==
  /\ goodbye' = IF c \in closed THEN goodbye ELSE goodbye \cup {c}
  /\ UNCHANGED <<inbox, linesSent, inData, hungUp, closed, expired, readLocked>>

\* SetReadDeadline(time.Now()) wakes whoever waits in Read with a timeout.
ExpireDeadline(c) ==
  /\ expired' = expired \cup {c}
  /\ UNCHANGED <<inbox, linesSent, inData, hungUp, closed, readLocked, goodbye>>

\* The deadline of a closed connection means nothing any more.
CloseConnection(c) ==
  /\ closed' = closed \cup {c}
  /\ expired' = expired \ {c}
  /\ UNCHANGED <<inbox, linesSent, inData, hungUp, readLocked, goodbye>>

=============================================================================
