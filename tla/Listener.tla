------------------------------ MODULE Listener -------------------------------
(***************************************************************************)
(* How the SMTP service starts and stops: SMTPService.Start, Shutdown and   *)
(* Close (internal/app/service.go), Listener.ListenAndServe with its accept *)
(* loop, and Listener.Shutdown and Close (internal/smtp/listener.go).       *)
(*                                                                         *)
(* Three parties write running and close chClose: the goroutine that starts *)
(* and then accepts, and each goroutine that stops the service.  Closing a  *)
(* channel twice, or using a listener that is not there yet, is a panic,    *)
(* which ends the program.                                                 *)
(***************************************************************************)
EXTENDS Integers, FiniteSets

CONSTANTS
  Closers,        \* calls of Shutdown or Close that may be made, each at most once
  AcceptErrors,   \* whether Accept may fail on an open socket, and listening fail
  EarlyClose      \* whether the service may be stopped without a listener

ASSUME ListenerAssumption == AcceptErrors \in BOOLEAN /\ EarlyClose \in BOOLEAN

VARIABLES
  startPc,      \* where Start is
  acceptPc,     \* where its accept loop is
  closerPc,     \* where each call of Shutdown or Close is
  stopClosed,   \* SMTPService.chClose, which workers and manager watch, is closed
  chClosed,     \* Listener.chClose, which receivers and accept loop watch, is closed
  running,      \* Listener.running
  socket,       \* Listener.listener: none, open or closed
  panicked      \* a goroutine has panicked, and the program ended

listenerVars ==
  <<startPc, acceptPc, closerPc, stopClosed, chClosed, running, socket, panicked>>

ListenerTypeOK ==
  /\ startPc \in {"new", "made", "opening", "serving", "returned"}
  /\ acceptPc \in {"none", "select", "accept", "failed", "closing", "storing", "ended"}
  /\ closerPc \in [Closers -> {"idle", "stop", "close", "store", "socket", "done"}]
  /\ stopClosed \in BOOLEAN /\ chClosed \in BOOLEAN /\ running \in BOOLEAN
  /\ socket \in {"none", "open", "closed"}
  /\ panicked \in BOOLEAN

ListenerInit ==
  /\ startPc = "new" /\ acceptPc = "none"
  /\ closerPc = [k \in Closers |-> "idle"]
  /\ stopClosed = FALSE /\ chClosed = FALSE /\ running = FALSE
  /\ socket = "none"
  /\ panicked = FALSE

-----------------------------------------------------------------------------
(* Start. *)

StartAt(from, to) == ~panicked /\ startPc = from /\ startPc' = to

\* NewListener, kept in the service.
MakeListener ==
  /\ StartAt("new", "made")
  /\ UNCHANGED <<acceptPc, closerPc, stopClosed, chClosed, running, socket, panicked>>

ListenAndServe ==
  /\ StartAt("made", "opening")
  /\ running' = TRUE
  /\ UNCHANGED <<acceptPc, closerPc, stopClosed, chClosed, socket, panicked>>

\* openListener, and the accept loop begins.  The receiver goroutine is started too.
OpenListener ==
  /\ StartAt("opening", "serving")
  /\ socket' = "open"
  /\ acceptPc' = "select"
  /\ UNCHANGED <<closerPc, stopClosed, chClosed, running, panicked>>

\* The address does not resolve, TLS refuses it (no listener), or it cannot be
\* listened on, which leaves a typed nil: closing that is an error and no panic.
OpenFails ==
  /\ AcceptErrors
  /\ StartAt("opening", "returned")
  /\ running' = FALSE
  /\ socket' \in {"none", "closed"}
  /\ UNCHANGED <<acceptPc, closerPc, stopClosed, chClosed, panicked>>

\* ListenAndServe returns ErrServerClosed when its accept loop has ended.
ServeReturns ==
  /\ acceptPc = "ended"
  /\ StartAt("serving", "returned")
  /\ UNCHANGED <<acceptPc, closerPc, stopClosed, chClosed, running, socket, panicked>>

-----------------------------------------------------------------------------
(* The accept loop. *)

AcceptAt(from, to) == ~panicked /\ acceptPc = from /\ acceptPc' = to

SelectClose ==
  /\ AcceptAt("select", IF chClosed THEN "ended" ELSE "accept")
  /\ UNCHANGED <<startPc, closerPc, stopClosed, chClosed, running, socket, panicked>>

\* A connection, handed to the connection manager.
AcceptConnection ==
  /\ socket = "open"
  /\ AcceptAt("accept", "select")
  /\ UNCHANGED <<startPc, closerPc, stopClosed, chClosed, running, socket, panicked>>

AcceptFails ==
  /\ socket = "closed" \/ AcceptErrors
  /\ AcceptAt("accept", "failed")
  /\ UNCHANGED <<startPc, closerPc, stopClosed, chClosed, running, socket, panicked>>

\* Was it a failure, or has the service been stopped?
AskRunning ==
  /\ AcceptAt("failed", IF running THEN "closing" ELSE "ended")
  /\ UNCHANGED <<startPc, closerPc, stopClosed, chClosed, running, socket, panicked>>

\* Mutant: the loop only returns.
LoopClosesNothing ==
  /\ AcceptAt("closing", "storing")
  /\ UNCHANGED <<startPc, closerPc, stopClosed, chClosed, running, socket, panicked>>

\* The loop closes chClose itself, and then sets running.
LoopCloses ==
  /\ AcceptAt("closing", "storing")
  /\ chClosed' = TRUE
  /\ panicked' = chClosed
  /\ UNCHANGED <<startPc, closerPc, stopClosed, running, socket>>

LoopStores ==
  /\ AcceptAt("storing", "ended")
  /\ running' = FALSE
  /\ UNCHANGED <<startPc, closerPc, stopClosed, chClosed, socket, panicked>>

-----------------------------------------------------------------------------
(* SMTPService.Shutdown and Close, which do the same. *)

CloserAt(k, from, to) ==
  ~panicked /\ closerPc[k] = from /\ closerPc' = [closerPc EXCEPT ![k] = to]

\* Once it has been opened, the listener may be closed at any time, also after Start
\* has returned.
CallClose(k) ==
  /\ socket # "none" \/ EarlyClose
  /\ CloserAt(k, "idle", "stop")
  /\ UNCHANGED <<startPc, acceptPc, stopClosed, chClosed, running, socket, panicked>>

CloseStop(k) ==
  /\ CloserAt(k, "stop", "close")
  /\ stopClosed' = TRUE
  /\ panicked' = stopClosed
  /\ UNCHANGED <<startPc, acceptPc, chClosed, running, socket>>

\* The first statement of Listener.Shutdown; before Start there is no listener.
CloseListener(k) ==
  /\ CloserAt(k, "close", "store")
  /\ chClosed' = (chClosed \/ startPc # "new")
  /\ panicked' = (chClosed \/ startPc = "new")
  /\ UNCHANGED <<startPc, acceptPc, stopClosed, running, socket>>

\* Mutant: running is never cleared.
StoreRunningForgets(k) ==
  /\ CloserAt(k, "store", "socket")
  /\ UNCHANGED <<startPc, acceptPc, stopClosed, chClosed, running, socket, panicked>>

StoreRunning(k) ==
  /\ CloserAt(k, "store", "socket")
  /\ running' = FALSE
  /\ UNCHANGED <<startPc, acceptPc, stopClosed, chClosed, socket, panicked>>

\* Mutant: the socket stays open.
CloseSocketForgets(k) ==
  /\ CloserAt(k, "socket", "done")
  /\ UNCHANGED <<startPc, acceptPc, stopClosed, chClosed, running, socket, panicked>>

\* The last; a service that is only starting has no socket yet.
CloseSocket(k) ==
  /\ CloserAt(k, "socket", "done")
  /\ socket' = IF socket = "none" THEN "none" ELSE "closed"
  /\ panicked' = (socket = "none")
  /\ UNCHANGED <<startPc, acceptPc, stopClosed, chClosed, running>>

-----------------------------------------------------------------------------
StartStep ==
  MakeListener \/ ListenAndServe \/ OpenListener \/ OpenFails \/ ServeReturns

\* What the accept loop does when no connection comes.
AcceptOther ==
  SelectClose \/ AcceptFails \/ AskRunning \/ LoopCloses \/ LoopStores

\* The part of it that it cannot put off: an open socket need not fail.
AcceptMust == AcceptOther /\ (acceptPc = "accept" => socket = "closed")

CloserStep(k) == CloseStop(k) \/ CloseListener(k) \/ StoreRunning(k) \/ CloseSocket(k)

-----------------------------------------------------------------------------
(* Properties. *)

\* Nothing that Start, the accept loop and those who stop the service do ends the
\* program: chClose is closed once, and only a listener that is there is closed.
NeverPanics == ~panicked

\* When Accept fails, the loop asks running whether the service has been stopped, and
\* closes chClose itself if not.  A stop clears running before it closes the socket, so
\* that the loop closes chClose only for an error on a socket nobody has closed,
\* whatever genuine errors and stops come between its steps.
StopIsNoFailure ==
  [][acceptPc = "failed" /\ acceptPc' = "closing" => socket = "open"]_listenerVars

\* A stop that has been called for makes Start return, whatever the accept loop is doing.
StartReturns ==
  \A k \in Closers : closerPc[k] # "idle" ~> (startPc = "returned" \/ panicked)
==============================================================================
