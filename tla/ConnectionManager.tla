-------------------------- MODULE ConnectionManager --------------------------
(***************************************************************************)
(* internal/smtp/connection.go: the map of tracked connections, the        *)
(* goroutine that closes the connections the workers send it, and New,     *)
(* which the listener's accept loop calls with each new connection.        *)
(* newConn is the connection New is working on; while it is set the accept *)
(* loop is busy.                                                           *)
(***************************************************************************)
EXTENDS Worker

CONSTANTS
  Addrs,        \* remote addresses
  RemoteAddr    \* RemoteAddr[c]: the address connection c comes from

ASSUME ConnectionManagerAssumption == RemoteAddr \in [Conns -> Addrs]

VARIABLES
  connectionPool,   \* connectionPool[a]: the connection tracked under address a
  managerPc,        \* where the closing goroutine is
  managerConn,      \* the connection it is closing
  newConn           \* the connection New is working on

managerVars == <<connectionPool, managerPc, managerConn, newConn>>

ManagerTypeOK ==
  /\ connectionPool \in [Addrs -> Conns \cup {NoConn}]
  /\ managerPc \in {"select", "probe", "exited"}
  /\ managerConn \in Conns \cup {NoConn}
  /\ newConn \in Conns \cup {NoConn}

ManagerInit ==
  /\ connectionPool = [a \in Addrs |-> NoConn]
  /\ managerPc = "select"
  /\ managerConn = NoConn
  /\ newConn = NoConn

Tracked(c) == connectionPool[RemoteAddr[c]] # NoConn

-----------------------------------------------------------------------------
(* The goroutine that closes connections. *)

\* A connection that is not in the map, or is closed already, is left alone.
\* Otherwise isConnectionClosed first puts its read deadline into the past.
ManagerReceive ==
  /\ managerPc = "select"
  /\ closeChannel # <<>>
  /\ closeChannel' = Tail(closeChannel)
  /\ LET c == Head(closeChannel) IN
       IF Tracked(c) /\ c \notin closed
       THEN /\ managerPc' = "probe"
            /\ managerConn' = c
            /\ ExpireDeadline(c)
       ELSE UNCHANGED <<managerPc, managerConn, networkVars>>
  /\ UNCHANGED <<poolVars, mainVars, cmdVars, localVars, mailItemChannel, chStop,
                 connectionPool, newConn>>

\* The empty Read of isConnectionClosed waits until no goroutine is inside a
\* Read on the connection; Close follows at once.
ManagerClose ==
  /\ managerPc = "probe"
  /\ managerConn \notin readLocked
  /\ managerPc' = "select"
  /\ managerConn' = NoConn
  /\ CloseConnection(connectionPool[RemoteAddr[managerConn]])
  /\ UNCHANGED <<poolVars, mainVars, cmdVars, localVars, sharedVars,
                 connectionPool, newConn>>

ManagerStop ==
  /\ managerPc = "select"
  /\ chStop
  /\ managerPc' = "exited"
  /\ UNCHANGED <<workerVars, connectionPool, managerConn, newConn>>

ManagerStep == ManagerReceive \/ ManagerClose \/ ManagerStop

-----------------------------------------------------------------------------
(* New, run by the accept loop. *)

\* New refuses a connection whose address is in the map, and its caller
\* closes it.
New(c) ==
  /\ newConn = NoConn
  /\ IF Tracked(c)
     THEN CloseConnection(c) /\ UNCHANGED newConn
     ELSE newConn' = c /\ UNCHANGED networkVars
  /\ UNCHANGED <<poolVars, mainVars, cmdVars, localVars, sharedVars,
                 connectionPool, managerPc, managerConn>>

NewGetsWorker ==
  /\ newConn # NoConn
  /\ sessionWorker[newConn] = NoWorker
  /\ \E w \in Workers : NextWorker(w, newConn)
  /\ UNCHANGED <<networkVars, mainVars, cmdVars, localVars, sharedVars, managerVars>>

NewGetsNoWorker ==
  /\ newConn # NoConn
  /\ sessionWorker[newConn] = NoWorker
  /\ NoWorkerAvailable
  /\ CloseConnection(newConn)
  /\ newConn' = NoConn
  /\ UNCHANGED <<mainVars, cmdVars, localVars, sharedVars, connectionPool,
                 managerPc, managerConn>>

\* New tracks the connection and starts Work in a goroutine of its own.
NewTracks ==
  /\ newConn # NoConn
  /\ sessionWorker[newConn] # NoWorker
  /\ connectionPool' = [connectionPool EXCEPT ![RemoteAddr[newConn]] = newConn]
  /\ GoTo(mainPc, newConn, "none", "start")
  /\ newConn' = NoConn
  /\ UNCHANGED <<networkVars, poolVars, mainConn, cmdVars, localVars, sharedVars,
                 managerPc, managerConn>>

NewStep == NewGetsWorker \/ NewGetsNoWorker \/ NewTracks

\* The closing goroutine reads the map while New writes it: Go's runtime may
\* stop the program.
MapRace ==
  /\ newConn # NoConn
  /\ sessionWorker[newConn] # NoWorker
  /\ \/ managerPc = "select" /\ closeChannel # <<>>
     \/ managerPc = "probe" /\ managerConn \notin readLocked

=============================================================================
