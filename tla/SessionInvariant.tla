-------------------------- MODULE SessionInvariant ---------------------------
(***************************************************************************)
(* The inductive invariant behind ExclusiveWorkers and OwnConnection: what *)
(* is true of the goroutines of every session, of what its client has      *)
(* sent, of the connections on their way to be closed, and of the workers, *)
(* as long as clients are polite and the service has not been stopped.     *)
(***************************************************************************)
EXTENDS SmtpServer

-----------------------------------------------------------------------------
(* True of all behaviours. *)

\* Whatever a goroutine of session c is about to use is there.
WiredSession(c) ==
  /\ mainPc[c] # "none" => sessionWorker[c] # NoWorker
  /\ cmdPc[c] = "none" <=> mainPc[c] \in {"none", "start"}
  /\ sessionWorker[c] # NoWorker => CurrentConn(c) \in Conns
  /\ mainPc[c] \in {"closing", "stopClosing", "data", "dataEnter", "dataWaiting"}
       => mainConn[c] \in Conns
  /\ cmdPc[c] \in {"enter", "waiting"} => cmdConn[c] \in Conns

Wired ==
  /\ \A c \in Conns : WiredSession(c)
  /\ managerPc = "probe" => managerConn \in Conns /\ Tracked(managerConn)

-----------------------------------------------------------------------------
(* True until the service is stopped, when clients are polite. *)

Messages(c) == quitChannel[c] + workerErrorChannel[c]

\* A session reports its end to its main loop once, and the report is
\* outstanding, being handled, or handled.
OneReport(c) ==
  /\ quitCommandChannel[c] \in {0, 1}
  /\ quitCommandChannel[c] = 1 => cmdPc[c] = "loop"
  /\ Messages(c) \in {0, 1}
  /\ Messages(c) = 1 => \/ mainPc[c] = "select" /\ CommandsEnded(c)
                        \/ mainPc[c] = "failDone"
  /\ mainPc[c] = "failDone" => Messages(c) = 1
  /\ mainPc[c] \in HangUpPcs => CommandsEnded(c)
  /\ mainPc[c] \notin {"stopHangup", "stopClosing"}

\* The session has asked for its connection to be closed.
HungUp(c) ==
  CommandsEnded(c) /\ mainPc[c] \in {"rejoin", "select"} /\ Messages(c) = 0

\* The server is busy with the DATA command of c, or reads nothing more.
DataPhase(c) ==
  \/ mainPc[c] \in {"data", "dataEnter", "dataWaiting", "fail", "failDone"}
  \/ cmdPc[c] = "got" /\ cmdLine[c] = "data"
  \/ CommandsEnded(c)

\* A message body never reaches the command goroutine, and an orderly
\* client leaves only when nobody waits for its next command.
OrderlyClient(c) ==
  /\ inbox[c] \in AllCommandLines => inbox[c] \in CommandLines
  /\ cmdPc[c] = "got" => cmdLine[c] \in {"ok", "bad", "data", "quit", "timeout"}
  /\ c \in inData => inbox[c] = "data" \/ DataPhase(c)
  /\ inbox[c] \in AllBodyLines => c \notin inData /\ DataPhase(c)
  /\ c \in hungUp => c \in inData \/ CommandsEnded(c)

\* Connections are tracked once they are served, under their own address,
\* and are closed only when their session has asked for it.
OrderlyClose ==
  /\ \A c \in Conns :
       /\ c \in closed => c \in accepted /\ (sessionWorker[c] = NoWorker \/ HungUp(c))
       /\ sessionWorker[c] # NoWorker => c \in accepted
       /\ sessionWorker[c] # NoWorker /\ c # newConn =>
            mainPc[c] # "none" /\ connectionPool[RemoteAddr[c]] = c
       /\ \/ \E i \in 1..Len(closeChannel) : closeChannel[i] = c
          \/ managerPc = "probe" /\ managerConn = c
          => HungUp(c)
  /\ newConn # NoConn => /\ newConn \in accepted \ closed
                         /\ mainPc[newConn] = "none"
                         /\ ~Tracked(newConn)

\* The worker that serves a connection is prepared for it.
PreparedForOwn ==
  \A c \in Conns, w \in Workers : Serves(w, c) => workerConn[w] = c

SessionsInv ==
  /\ \A c \in Conns : OneReport(c) /\ OrderlyClient(c)
  /\ OrderlyClose
  /\ PreparedForOwn

\* No goroutine holds another session's connection, and a session that has said
\* goodbye reads nothing more.
OwnUntilGoodbye ==
  ~chStop =>
    \A c \in Conns : /\ cmdConn[c] \in {NoConn, c}
                     /\ mainConn[c] \in {NoConn, c}
                     /\ c \in goodbye => CommandsEnded(c)

PoliteInv == ExclusiveWorkers /\ OwnUntilGoodbye /\ (~chStop => SessionsInv)
=============================================================================
