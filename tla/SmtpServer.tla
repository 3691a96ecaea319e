----------------------------- MODULE SmtpServer ------------------------------
(***************************************************************************)
(* The SMTP service in one specification: clients, the listener's accept   *)
(* loop and receiver goroutine (internal/smtp/listener.go), the connection *)
(* manager, the worker pool, and the two goroutines of every call of       *)
(* Worker.Work, with the service's shutdown (internal/app/service.go).     *)
(***************************************************************************)
EXTENDS ConnectionManager

CONSTANTS
  CanStop    \* whether the service is shut down in the behaviours looked at

ASSUME SmtpServerAssumption == CanStop \in BOOLEAN

VARIABLES
  accepted,     \* connections the accept loop has returned
  listening,    \* the listening socket is open and the accept loop runs
  receiving,    \* the receiver goroutine runs
  crashed       \* the Go runtime has stopped the program

serverVars == <<accepted, listening, receiving, crashed>>
vars == <<workerVars, managerVars, serverVars>>

TypeOK ==
  /\ NetworkTypeOK
  /\ ServerPoolTypeOK
  /\ WorkerTypeOK
  /\ ManagerTypeOK
  /\ accepted \subseteq Conns
  /\ listening \in BOOLEAN
  /\ receiving \in BOOLEAN
  /\ crashed \in BOOLEAN

Init ==
  /\ NetworkInit
  /\ ServerPoolInit
  /\ WorkerInit
  /\ ManagerInit
  /\ accepted = {}
  /\ listening = TRUE
  /\ receiving = TRUE
  /\ crashed = FALSE

-----------------------------------------------------------------------------
(* The listener. *)

\* A client can use an address again once the server has closed the
\* connection that used it.
AddressFree(c) ==
  \A d \in accepted \ {c} : RemoteAddr[d] = RemoteAddr[c] => d \in closed

Accept(c) ==
  /\ ~crashed
  /\ listening
  /\ c \notin accepted
  /\ AddressFree(c)
  /\ accepted' = accepted \cup {c}
  /\ New(c)
  /\ UNCHANGED <<listening, receiving, crashed>>

\* startReceivers hands a queued mail to the receivers.
Receive ==
  /\ ~crashed
  /\ receiving
  /\ mailItemChannel # <<>>
  /\ mailItemChannel' = Tail(mailItemChannel)
  /\ UNCHANGED <<networkVars, poolVars, mainVars, cmdVars, localVars,
                 closeChannel, chStop, managerVars, serverVars>>

ReceiversStop ==
  /\ ~crashed
  /\ receiving
  /\ ~listening
  /\ receiving' = FALSE
  /\ UNCHANGED <<workerVars, managerVars, accepted, listening, crashed>>

-----------------------------------------------------------------------------
(* Shutdown closes the service's stop channel, then the listener. *)

StopService ==
  /\ ~crashed
  /\ CanStop
  /\ ~chStop
  /\ chStop' = TRUE
  /\ UNCHANGED <<networkVars, poolVars, mainVars, cmdVars, localVars, closeChannel,
                 mailItemChannel, managerVars, serverVars>>

CloseListener ==
  /\ ~crashed
  /\ chStop
  /\ listening
  /\ listening' = FALSE
  /\ UNCHANGED <<workerVars, managerVars, accepted, receiving, crashed>>

-----------------------------------------------------------------------------
(* The steps of the parts, as steps of the whole. *)

CommandGoroutine(c) ==
  ~crashed /\ CommandStep(c) /\ UNCHANGED <<managerVars, serverVars>>

MainGoroutine(c) ==
  ~crashed /\ MainStep(c) /\ UNCHANGED <<managerVars, serverVars>>

ManagerGoroutine == ~crashed /\ ManagerStep /\ UNCHANGED serverVars

AcceptGoroutine == ~crashed /\ NewStep /\ UNCHANGED serverVars

ClientStep(c) ==
  /\ ~crashed
  /\ c \in accepted
  /\ ClientSend(c) \/ ClientHangUp(c)
  /\ UNCHANGED <<poolVars, mainVars, cmdVars, localVars, sharedVars, managerVars,
                 serverVars>>

Timer(c) ==
  /\ ~crashed
  /\ IdleTimeout(c)
  /\ UNCHANGED <<poolVars, mainVars, cmdVars, localVars, sharedVars, managerVars,
                 serverVars>>

Crash ==
  /\ ~crashed
  /\ MapRace
  /\ crashed' = TRUE
  /\ UNCHANGED <<workerVars, managerVars, accepted, listening, receiving>>

SessionStep(c) ==
  \/ Accept(c)
  \/ ClientStep(c)
  \/ Timer(c)
  \/ CommandGoroutine(c)
  \/ MainGoroutine(c)

Next ==
  \/ \E c \in Conns : SessionStep(c)
  \/ AcceptGoroutine
  \/ ManagerGoroutine
  \/ Receive
  \/ ReceiversStop
  \/ StopService
  \/ CloseListener
  \/ Crash

\* Go runs every goroutine that can run, and its timers fire.  Nothing is
\* assumed of the clients, nor that the service is ever stopped; a shutdown
\* that has begun is carried through.
Fairness ==
  /\ \A c \in Conns : /\ WF_vars(CommandGoroutine(c))
                      /\ WF_vars(MainGoroutine(c))
                      /\ WF_vars(Timer(c))
  /\ WF_vars(AcceptGoroutine)
  /\ WF_vars(ManagerGoroutine)
  /\ WF_vars(Receive)
  /\ WF_vars(ReceiversStop)
  /\ WF_vars(CloseListener)

Spec == Init /\ [][Next]_vars
FairSpec == Spec /\ Fairness

-----------------------------------------------------------------------------
(* The life of a session, read off its goroutines. *)

\* The command goroutine of c will not read another command.
CommandsEnded(c) ==
  \/ cmdPc[c] \in {"failed", "exited"}
  \/ cmdPc[c] = "loop" /\ quitCommandChannel[c] > 0

\* The session of c is over: its main loop has hung up and waits for
\* messages that nobody is left to send.
Over(c) ==
  /\ CommandsEnded(c)
  /\ mainPc[c] = "select"
  /\ quitChannel[c] = 0
  /\ workerErrorChannel[c] = 0

\* Session c has been given w and may still use it.
Serves(w, c) == sessionWorker[c] = w /\ ~Over(c)

\* Clients that leave only through QUIT, inside a message, or after the
\* server's goodbye, and that send no command the server does not know.
Polite == "unknown" \notin CommandLines /\ "command" \notin HangUpPoints

-----------------------------------------------------------------------------
(* Safety. *)

\* A worker processes a single connection at a time (worker.go, NextWorker and
\* rejoinWorkerQueue): while the service runs, a worker is in the pool at
\* most once, is not in it while a session may still use it, and is never
\* used by two sessions.
ExclusiveWorkers ==
  ~chStop =>
    /\ \A i, j \in 1..Len(pool) : pool[i] = pool[j] => i = j
    /\ \A c \in Conns, i \in 1..Len(pool) : ~Serves(pool[i], c)
    /\ \A c, d \in Conns, w \in Workers : Serves(w, c) /\ Serves(w, d) => c = d

\* Whatever a session reads and writes goes to its own client, although both of its
\* goroutines use the connection of a worker that is handed on to other sessions (worker.go,
\* Work): neither reads from, nor is about to close, another session's connection, and when
\* the main loop has just said goodbye, or answers a command, the worker's connection is
\* the session's own.
OwnConnection ==
  ~chStop =>
    \A c \in Conns :
      /\ cmdConn[c] \in {NoConn, c}
      /\ mainConn[c] \in {NoConn, c}
      /\ mainPc[c] \in {"hangup"} \cup ExecutingPcs => CurrentConn(c) = c

\* The unbuffered commandChannel and commandDoneChannel keep the two
\* goroutines of a session in step (worker.go, Work): the command goroutine
\* waits for an answer exactly while the main loop executes its command, so
\* that only one of them ever reads from the client.
Handshake ==
  \A c \in Conns : cmdPc[c] = "await" <=> mainPc[c] \in ExecutingPcs

\* No send within a session, and no way back to the pool, waits for room: the main loop
\* does not wait for itself to receive, the command goroutine not for a main loop that waits
\* for it, and a worker finds its place in the pool (worker.go: the buffered channels of
\* Work, rejoinWorkerQueue; serverpool.go JoinQueue).
RoomToSend ==
  ~chStop =>
    \A c \in Conns :
      /\ mainPc[c] = "fail" => workerErrorChannel[c] < LocalCap
      /\ cmdPc[c] = "got" => /\ quitChannel[c] < LocalCap
                             /\ quitCommandChannel[c] < LocalCap
                             /\ workerErrorChannel[c] < LocalCap
      /\ cmdPc[c] = "failed" => quitCommandChannel[c] < LocalCap
      /\ mainPc[c] = "rejoin" => Len(pool) < Cardinality(Workers)

-----------------------------------------------------------------------------
(* Actions and liveness. *)

\* The server never closes a connection that it is still serving: when the
\* manager closes a client the session has read its last command, and has
\* answered the mail it accepted (connection.go Close, worker.go Work).
NoCloseInService ==
  [][\A c \in closed' \ closed :
       sessionWorker[c] # NoWorker => CommandsEnded(c) /\ mainPc[c] \notin ExecutingPcs]_vars

\* Whatever its client does or fails to do, every connection the server
\* accepts is closed in the end (worker.go, Work: "and finally close the
\* connection"; connection.go: idle connections are closed).
EventuallyClosed == \A c \in Conns : c \in accepted ~> c \in closed \/ crashed

\* Every worker comes back to the pool, always again (serverpool.go JoinQueue).
WorkersReturn ==
  \A w \in Workers : []<>(crashed \/ \E i \in 1..Len(pool) : pool[i] = w)

\* A shutdown reaches every session that is not inside DATA, nor waits to send an error
\* to itself on a channel that is full: its client is told goodbye or disconnected
\* (worker.go, the chStop case of Work).
StopReachesSessions ==
  \A c \in Conns :
    chStop /\ sessionWorker[c] # NoWorker
      ~> \/ c \in goodbye \cup closed
         \/ mainPc[c] \in {"data", "deliver"}
         \/ workerErrorChannel[c] = LocalCap
         \/ crashed

-----------------------------------------------------------------------------
(* Refinement. *)

\* The connection that worker w is lent to.
Owner(w) ==
  IF \E c \in Conns : Serves(w, c)
  THEN CHOOSE c \in Conns : Serves(w, c) ELSE NoConn

Allocation == INSTANCE WorkerAllocation WITH
  idle   <- pool,
  owner  <- [w \in Workers |-> Owner(w)],
  served <- {c \in Conns : sessionWorker[c] # NoWorker},
  halted <- crashed

\* Taking a worker from the pool, serving a connection with two goroutines and
\* rejoining the pool amount to lending a worker and getting it back
\* (serverpool.go NextWorker and JoinQueue, worker.go Work).
ImplementsAllocation == Allocation!FairSpec
=============================================================================
