------------------------------- MODULE Worker --------------------------------
(***************************************************************************)
(* Worker.Work (internal/smtp/worker.go): the two goroutines that serve a  *)
(* connection.  Each call of Work belongs to one connection c and runs on  *)
(* the worker sessionWorker[c]; its local variables and channels are the   *)
(* functions below, applied to c.  The fields of the worker itself live in *)
(* ServerPool and are shared by every call of Work on the same worker.     *)
(*                                                                         *)
(*   main loop          command goroutine                                  *)
(*   mainPc[c]          cmdPc[c]                                           *)
(*   select             loop      next pass, quitCommandChannel first      *)
(*   hangup..rejoin     enter     deadline set, about to enter Read        *)
(*   stopHangup..       waiting   inside Read                              *)
(*   data..dataWaiting  got       holds a result of Read in cmdLine[c]     *)
(*   fail..done         await     waits on commandDoneChannel              *)
(*                      failed    received an error from it                *)
(*                                                                         *)
(* Work never returns: after a hang-up both goroutines keep their loops,   *)
(* the command goroutine until it finds a message in quitCommandChannel,   *)
(* the main loop for ever.                                                 *)
(***************************************************************************)
EXTENDS ServerPool

CONSTANTS
  LocalCap,    \* capacity of quitChannel, quitCommandChannel, workerErrorChannel
  CloseCap,    \* capacity of the connection manager's close channel
  MailCap      \* capacity of the channel of received mails

ASSUME WorkerAssumption ==
  /\ LocalCap \in Nat \ {0}
  /\ CloseCap \in Nat \ {0}
  /\ MailCap \in Nat \ {0}

VARIABLES
  mainPc,               \* where the main loop of c is
  mainConn,             \* connection the main loop is reading or is about to close
  cmdPc,                \* where the command goroutine of c is
  cmdConn,              \* connection the command goroutine is reading
  cmdLine,              \* what it has read and not yet passed on
  quitChannel,          \* messages in quitChannel
  quitCommandChannel,   \* messages in quitCommandChannel
  workerErrorChannel,   \* messages in workerErrorChannel
  closeChannel,         \* connections the manager is asked to close
  mailItemChannel,      \* received mails, each named by the session it came by
  chStop                \* the service's stop channel is closed

mainVars    == <<mainPc, mainConn>>
cmdVars     == <<cmdPc, cmdConn, cmdLine>>
localVars   == <<quitChannel, quitCommandChannel, workerErrorChannel>>
sharedVars  == <<closeChannel, mailItemChannel, chStop>>
workerVars  == <<networkVars, poolVars, mainVars, cmdVars, localVars, sharedVars>>

ExecutingPcs == {"data", "dataEnter", "dataWaiting", "fail", "failDone",
                 "deliver", "done"}
HangUpPcs    == {"hangup", "closing", "rejoin"}
MainPcs == {"none", "start", "select", "stopHangup", "stopClosing"}
             \cup ExecutingPcs \cup HangUpPcs
CmdPcs  == {"none", "loop", "enter", "waiting", "got", "await", "failed", "exited"}

WorkerTypeOK ==
  /\ mainPc \in [Conns -> MainPcs]
  /\ mainConn \in [Conns -> Conns \cup {NoConn}]
  /\ cmdPc \in [Conns -> CmdPcs]
  /\ cmdConn \in [Conns -> Conns \cup {NoConn}]
  /\ cmdLine \in [Conns -> ReadResults]
  /\ quitChannel \in [Conns -> 0..LocalCap]
  /\ quitCommandChannel \in [Conns -> 0..LocalCap]
  /\ workerErrorChannel \in [Conns -> 0..LocalCap]
  /\ closeChannel \in Seq(Conns)
  /\ mailItemChannel \in Seq(Conns)
  /\ chStop \in BOOLEAN

WorkerInit ==
  /\ mainPc = [c \in Conns |-> "none"]
  /\ mainConn = [c \in Conns |-> NoConn]
  /\ cmdPc = [c \in Conns |-> "none"]
  /\ cmdConn = [c \in Conns |-> NoConn]
  /\ cmdLine = [c \in Conns |-> NoLine]
  /\ quitChannel = [c \in Conns |-> 0]
  /\ quitCommandChannel = [c \in Conns |-> 0]
  /\ workerErrorChannel = [c \in Conns |-> 0]
  /\ closeChannel = <<>>
  /\ mailItemChannel = <<>>
  /\ chStop = FALSE

Put(channel, c) == channel[c] < LocalCap /\ channel' = [channel EXCEPT ![c] = @ + 1]
Take(channel, c) == channel[c] > 0 /\ channel' = [channel EXCEPT ![c] = @ - 1]

GoTo(pc, c, from, to) == pc[c] = from /\ pc' = [pc EXCEPT ![c] = to]

-----------------------------------------------------------------------------
(* Work starts: it greets the client and spawns the command goroutine. *)
WorkStart(c) ==
  /\ GoTo(mainPc, c, "start", "select")
  /\ GoTo(cmdPc, c, "none", "loop")
  /\ UNCHANGED <<networkVars, poolVars, mainConn, cmdConn, cmdLine, localVars,
                 sharedVars>>

-----------------------------------------------------------------------------
(* The command goroutine. *)

CommandQuit(c) ==
  /\ GoTo(cmdPc, c, "loop", "exited")
  /\ Take(quitCommandChannel, c)
  /\ UNCHANGED <<networkVars, poolVars, mainVars, cmdConn, cmdLine,
                 quitChannel, workerErrorChannel, sharedVars>>

\* Reader.Read on a stopped server, or on a connection the server has closed,
\* returns an empty line and no error.
CommandReadNothing(c) ==
  /\ GoTo(cmdPc, c, "loop", "got")
  /\ quitCommandChannel[c] = 0
  /\ chStop \/ CurrentConn(c) \in closed
  /\ cmdLine' = [cmdLine EXCEPT ![c] = NoLine]
  /\ UNCHANGED <<networkVars, poolVars, mainVars, cmdConn, localVars,
                 sharedVars>>

CommandSetDeadline(c) ==
  /\ GoTo(cmdPc, c, "loop", "enter")
  /\ quitCommandChannel[c] = 0
  /\ ~chStop
  /\ ExtendDeadline(CurrentConn(c))
  /\ cmdConn' = [cmdConn EXCEPT ![c] = CurrentConn(c)]
  /\ UNCHANGED <<poolVars, mainVars, cmdLine, localVars, sharedVars>>

CommandEnterRead(c) ==
  /\ GoTo(cmdPc, c, "enter", "waiting")
  /\ EnterRead(cmdConn[c])
  /\ UNCHANGED <<poolVars, mainVars, cmdConn, cmdLine, localVars, sharedVars>>

CommandReadRefused(c) ==
  /\ GoTo(cmdPc, c, "enter", "got")
  /\ \E result \in RefusedResults(cmdConn[c]) :
       cmdLine' = [cmdLine EXCEPT ![c] = result]
  /\ cmdConn' = [cmdConn EXCEPT ![c] = NoConn]
  /\ UNCHANGED <<networkVars, poolVars, mainVars, localVars, sharedVars>>

CommandRead(c) ==
  /\ GoTo(cmdPc, c, "waiting", "got")
  /\ \E result \in WaitResults(cmdConn[c]) :
       /\ LeaveRead(cmdConn[c], result)
       /\ cmdLine' = [cmdLine EXCEPT ![c] = result]
  /\ cmdConn' = [cmdConn EXCEPT ![c] = NoConn]
  /\ UNCHANGED <<poolVars, mainVars, localVars, sharedVars>>

\* Mutant of CommandEnd: the command goroutine is not told to end.
CommandEndForgets(c) ==
  /\ GoTo(cmdPc, c, "got", "loop")
  /\ cmdLine[c] \in {"quit", "timeout"}
  /\ cmdLine' = [cmdLine EXCEPT ![c] = NoLine]
  /\ Put(quitChannel, c)
  /\ UNCHANGED <<networkVars, poolVars, mainVars, cmdConn, quitCommandChannel,
                 workerErrorChannel, sharedVars>>

\* QUIT and an inactivity timeout end the command goroutine.
CommandEnd(c) ==
  /\ GoTo(cmdPc, c, "got", "loop")
  /\ cmdLine[c] \in {"quit", "timeout"}
  /\ cmdLine' = [cmdLine EXCEPT ![c] = NoLine]
  /\ Put(quitCommandChannel, c)
  /\ Put(quitChannel, c)
  /\ UNCHANGED <<networkVars, poolVars, mainVars, cmdConn, workerErrorChannel,
                 sharedVars>>

\* Any other read error and an unknown command are reported to the main
\* loop; the break that follows leaves the select only, so the command
\* goroutine reads again.
CommandError(c) ==
  /\ GoTo(cmdPc, c, "got", "loop")
  /\ cmdLine[c] \in {"error", "unknown"} \cup AllBodyLines
  /\ cmdLine' = [cmdLine EXCEPT ![c] = NoLine]
  /\ Put(workerErrorChannel, c)
  /\ UNCHANGED <<networkVars, poolVars, mainVars, cmdConn, quitChannel,
                 quitCommandChannel, sharedVars>>

\* Mutant of CommandFailed: the break after the error reads again.
CommandFailedForgets(c) ==
  /\ GoTo(cmdPc, c, "failed", "loop")
  /\ UNCHANGED <<networkVars, poolVars, mainVars, cmdConn, cmdLine, localVars,
                 sharedVars>>

\* The executor of the command failed.
CommandFailed(c) ==
  /\ GoTo(cmdPc, c, "failed", "loop")
  /\ Put(quitCommandChannel, c)
  /\ UNCHANGED <<networkVars, poolVars, mainVars, cmdConn, cmdLine,
                 quitChannel, workerErrorChannel, sharedVars>>

CommandStep(c) ==
  \/ CommandQuit(c)
  \/ CommandReadNothing(c)
  \/ CommandSetDeadline(c)
  \/ CommandEnterRead(c)
  \/ CommandReadRefused(c)
  \/ CommandRead(c)
  \/ CommandEnd(c)
  \/ CommandError(c)
  \/ CommandFailed(c)

-----------------------------------------------------------------------------
(* The main loop: hanging up. *)

\* Mutant of MainStop: no goodbye.
MainStopSilent(c) ==
  /\ GoTo(mainPc, c, "select", "stopHangup")
  /\ chStop
  /\ SetState(sessionWorker[c], "DONE")
  /\ UNCHANGED <<networkVars, mainConn, cmdVars, localVars, sharedVars>>

MainStop(c) ==
  /\ GoTo(mainPc, c, "select", "stopHangup")
  /\ chStop
  /\ SetState(sessionWorker[c], "DONE")
  /\ SayGoodbye(CurrentConn(c))
  /\ UNCHANGED <<mainConn, cmdVars, localVars, sharedVars>>

MainQuit(c) ==
  /\ Take(quitChannel, c)
  /\ GoTo(mainPc, c, "select", "hangup")
  /\ SetState(sessionWorker[c], "DONE")
  /\ SayGoodbye(CurrentConn(c))
  /\ UNCHANGED <<mainConn, cmdVars, quitCommandChannel, workerErrorChannel,
                 sharedVars>>

\* Mutant of MainError: after an error the worker does not rejoin the pool.
MainErrorLeaves(c) ==
  /\ Take(workerErrorChannel, c)
  /\ GoTo(mainPc, c, "select", "stopHangup")
  /\ SetState(sessionWorker[c], "ERROR")
  /\ SayGoodbye(CurrentConn(c))
  /\ UNCHANGED <<mainConn, cmdVars, quitChannel, quitCommandChannel, sharedVars>>

MainError(c) ==
  /\ Take(workerErrorChannel, c)
  /\ GoTo(mainPc, c, "select", "hangup")
  /\ SetState(sessionWorker[c], "ERROR")
  /\ SayGoodbye(CurrentConn(c))
  /\ UNCHANGED <<mainConn, cmdVars, quitChannel, quitCommandChannel,
                 sharedVars>>

\* w.Connection is evaluated, then the send waits for room.
MainHangUp(c) ==
  /\ \/ GoTo(mainPc, c, "hangup", "closing")
     \/ GoTo(mainPc, c, "stopHangup", "stopClosing")
  /\ mainConn' = [mainConn EXCEPT ![c] = CurrentConn(c)]
  /\ UNCHANGED <<networkVars, poolVars, cmdVars, localVars, sharedVars>>

\* Mutant of MainClose: a send that does not wait for room.
MainCloseDrops(c) ==
  /\ \/ GoTo(mainPc, c, "closing", "rejoin")
     \/ GoTo(mainPc, c, "stopClosing", "select")
  /\ closeChannel' = IF Len(closeChannel) < CloseCap
                     THEN Append(closeChannel, mainConn[c]) ELSE closeChannel
  /\ mainConn' = [mainConn EXCEPT ![c] = NoConn]
  /\ UNCHANGED <<networkVars, poolVars, cmdVars, localVars, mailItemChannel, chStop>>

\* A stopped worker does not rejoin the pool.
MainClose(c) ==
  /\ \/ GoTo(mainPc, c, "closing", "rejoin")
     \/ GoTo(mainPc, c, "stopClosing", "select")
  /\ Len(closeChannel) < CloseCap
  /\ closeChannel' = Append(closeChannel, mainConn[c])
  /\ mainConn' = [mainConn EXCEPT ![c] = NoConn]
  /\ UNCHANGED <<networkVars, poolVars, cmdVars, localVars, mailItemChannel, chStop>>

MainRejoin(c) ==
  /\ GoTo(mainPc, c, "rejoin", "select")
  /\ JoinQueue(sessionWorker[c])
  /\ UNCHANGED <<networkVars, mainConn, cmdVars, localVars, sharedVars>>

-----------------------------------------------------------------------------
(* The main loop: executing a command. *)

\* An executor answers through the worker's writer; on a connection either
\* side has closed the answer may fail, which HELO, RSET and NOOP return.
Outcomes(c, line) ==
  CASE line = "data" -> {"data"}
    [] line = "ok"   -> IF CurrentConn(c) \in closed \cup hungUp
                        THEN {"done", "fail"} ELSE {"done"}
    [] OTHER         -> {"fail"}

\* The unbuffered commandChannel hands the command over.  An empty line is
\* the command NONE, which the HELO executor rejects.
MainCommand(c) ==
  /\ GoTo(cmdPc, c, "got", "await")
  /\ cmdLine[c] \in {"ok", "bad", "data", NoLine}
  /\ cmdLine' = [cmdLine EXCEPT ![c] = NoLine]
  /\ \E pc \in Outcomes(c, cmdLine[c]) : GoTo(mainPc, c, "select", pc)
  /\ mainConn' = IF cmdLine[c] = "data"
                 THEN [mainConn EXCEPT ![c] = CurrentConn(c)] ELSE mainConn
  /\ UNCHANGED <<networkVars, poolVars, cmdConn, localVars, sharedVars>>

\* ReadDataBlock reads until the terminator.  Once the server is stopped, or
\* has closed the connection, Read returns at once with nothing and the loop
\* spins for ever: no step is taken.
DataSetDeadline(c) ==
  /\ ~chStop
  /\ GoTo(mainPc, c, "data", "dataEnter")
  /\ ExtendDeadline(mainConn[c])
  /\ UNCHANGED <<poolVars, mainConn, cmdVars, localVars, sharedVars>>

DataEnterRead(c) ==
  /\ GoTo(mainPc, c, "dataEnter", "dataWaiting")
  /\ EnterRead(mainConn[c])
  /\ UNCHANGED <<poolVars, mainConn, cmdVars, localVars, sharedVars>>

DataReadRefused(c) ==
  /\ GoTo(mainPc, c, "dataEnter", "fail")
  /\ RefusedResults(mainConn[c]) # {}
  /\ mainConn' = [mainConn EXCEPT ![c] = NoConn]
  /\ UNCHANGED <<networkVars, poolVars, cmdVars, localVars, sharedVars>>

\* A message that parses is answered with 250 before it is queued; one that
\* does not is answered with 554 and ends the session like a read error.
AfterDataRead(result) ==
  CASE result = "body"            -> "deliver"
    [] result \in AllCommandLines -> "data"
    [] OTHER                      -> "fail"

DataRead(c) ==
  /\ mainPc[c] = "dataWaiting"
  /\ \E result \in WaitResults(mainConn[c]) :
       LET pc == AfterDataRead(result) IN
       /\ LeaveRead(mainConn[c], result)
       /\ mainPc' = [mainPc EXCEPT ![c] = pc]
       /\ mainConn' = IF pc = "data" THEN mainConn
                      ELSE [mainConn EXCEPT ![c] = NoConn]
  /\ UNCHANGED <<poolVars, cmdVars, localVars, sharedVars>>

MainDeliver(c) ==
  /\ GoTo(mainPc, c, "deliver", "done")
  /\ Len(mailItemChannel) < MailCap
  /\ mailItemChannel' = Append(mailItemChannel, c)
  /\ UNCHANGED <<networkVars, poolVars, mainConn, cmdVars, localVars,
                 closeChannel, chStop>>

\* commandDoneChannel <- nil
MainDone(c) ==
  /\ GoTo(mainPc, c, "done", "select")
  /\ GoTo(cmdPc, c, "await", "loop")
  /\ UNCHANGED <<networkVars, poolVars, mainConn, cmdConn, cmdLine, localVars,
                 sharedVars>>

\* Mutant of MainFail: continue without an answer on commandDoneChannel.
MainFailSilent(c) ==
  /\ GoTo(mainPc, c, "fail", "select")
  /\ Put(workerErrorChannel, c)
  /\ UNCHANGED <<networkVars, poolVars, mainConn, cmdVars, quitChannel,
                 quitCommandChannel, sharedVars>>

\* The main loop reports an executor's error to itself, and waits for ever
\* when its own channel is full.
MainFail(c) ==
  /\ GoTo(mainPc, c, "fail", "failDone")
  /\ Put(workerErrorChannel, c)
  /\ UNCHANGED <<networkVars, poolVars, mainConn, cmdVars, quitChannel,
                 quitCommandChannel, sharedVars>>

\* commandDoneChannel <- err
MainFailDone(c) ==
  /\ GoTo(mainPc, c, "failDone", "select")
  /\ GoTo(cmdPc, c, "await", "failed")
  /\ UNCHANGED <<networkVars, poolVars, mainConn, cmdConn, cmdLine, localVars,
                 sharedVars>>

MainStep(c) ==
  \/ WorkStart(c)
  \/ MainStop(c)
  \/ MainQuit(c)
  \/ MainError(c)
  \/ MainHangUp(c)
  \/ MainClose(c)
  \/ MainRejoin(c)
  \/ MainCommand(c)
  \/ DataSetDeadline(c)
  \/ DataEnterRead(c)
  \/ DataReadRefused(c)
  \/ DataRead(c)
  \/ MainDeliver(c)
  \/ MainDone(c)
  \/ MainFail(c)
  \/ MainFailDone(c)

=============================================================================
