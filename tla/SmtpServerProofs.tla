--------------------------- MODULE SmtpServerProofs ---------------------------
(*****************************************************************************)
(* Proofs about the SMTP service (worker.go, serverpool.go, connection.go),  *)
(* for every value of the constants.                                         *)
(*                                                                           *)
(* For any clients: types, and the handshake of a session's two goroutines.  *)
(* Wired (SessionInvariant) supplies what TypeOK alone lacks: that the       *)
(* worker, the connection and the line a step refers to exist. TypeOK, Wired *)
(* and Handshake are proved together, one case per action.                   *)
(*                                                                           *)
(* For polite clients: workers are exclusive, sessions touch only their own  *)
(* connection, and a server that is not stopped closes no connection in      *)
(* service and implements WorkerAllocation; no worker is lost, and no sender *)
(* finds a channel of its session full. The inductive invariant is           *)
(* PoliteInv (SessionInvariant). A step of session c is summarised by        *)
(* Progress(c): what it does to c, and that it does nothing to any other     *)
(* session. Every step of its two goroutines makes Progress, and every       *)
(* Progress preserves PoliteInv; the accept loop, the manager and the        *)
(* clients are treated one by one.                                           *)
(*****************************************************************************)
EXTENDS SessionInvariant, SequenceTheorems, FiniteSetTheorems, TLAPS

\* Every operation on a connection of Conns keeps the types of Network.
LEMMA NetworkTypes ==
  ASSUME NetworkTypeOK, NEW c \in Conns, NEW result,
         \/ ClientSend(c) \/ ClientHangUp(c) \/ IdleTimeout(c)
         \/ ExtendDeadline(c) \/ EnterRead(c) \/ LeaveRead(c, result)
         \/ SayGoodbye(c) \/ ExpireDeadline(c) \/ CloseConnection(c)
         \/ UNCHANGED networkVars
  PROVE  NetworkTypeOK'
<1> USE DEF NetworkTypeOK, Lines
<1>1. CASE ClientSend(c)
  <2>1. NextLines(c) \subseteq Lines
    BY NetworkAssumption DEF NextLines
  <2> QED  BY <1>1, <2>1 DEF ClientSend
<1>2. CASE ClientHangUp(c)  BY <1>2 DEF ClientHangUp
<1>3. CASE IdleTimeout(c)  BY <1>3 DEF IdleTimeout
<1>4. CASE ExtendDeadline(c)  BY <1>4 DEF ExtendDeadline
<1>5. CASE EnterRead(c)  BY <1>5 DEF EnterRead
<1>6. CASE LeaveRead(c, result)  BY <1>6 DEF LeaveRead
<1>7. CASE SayGoodbye(c)  BY <1>7 DEF SayGoodbye
<1>8. CASE ExpireDeadline(c)  BY <1>8 DEF ExpireDeadline
<1>9. CASE CloseConnection(c)  BY <1>9 DEF CloseConnection
<1>10. CASE UNCHANGED networkVars  BY <1>10 DEF networkVars
<1> QED
  BY <1>1, <1>2, <1>3, <1>4, <1>5, <1>6, <1>7, <1>8, <1>9, <1>10

\* The initial state has the right types, is wired and is in step.
LEMMA InitTypes == Init => TypeOK /\ Wired /\ Handshake
<1> SUFFICES ASSUME Init PROVE TypeOK /\ Wired /\ Handshake
  OBVIOUS
<1>1. pool \in Seq(Workers)
  BY FS_CardinalityType, ServerPoolAssumption DEF Init, ServerPoolInit
<1>2. TypeOK
  <2>1. NetworkTypeOK  BY DEF Init, NetworkInit, NetworkTypeOK, Lines
  <2>2. ServerPoolTypeOK
    BY <1>1 DEF Init, ServerPoolInit, ServerPoolTypeOK, WorkerStates
  <2>3. WorkerTypeOK
    <3>1. 0 \in 0..LocalCap /\ <<>> \in Seq(Conns) /\ NoLine \in ReadResults
      BY WorkerAssumption DEF ReadResults
    <3> QED  BY <3>1 DEF Init, WorkerInit, WorkerTypeOK, MainPcs, CmdPcs
  <2>4. ManagerTypeOK  BY DEF Init, ManagerInit, ManagerTypeOK
  <2> QED  BY <2>1, <2>2, <2>3, <2>4 DEF Init, TypeOK
<1>3. Wired
  BY DEF Init, ServerPoolInit, WorkerInit, ManagerInit, Wired, WiredSession
<1>4. Handshake
  BY DEF Init, WorkerInit, Handshake, ExecutingPcs
<1> QED  BY <1>2, <1>3, <1>4

\* A step that leaves the variables of Worker alone keeps their types.
LEMMA WorkerVarsTypes ==
  ASSUME NetworkTypeOK, ServerPoolTypeOK, WorkerTypeOK, UNCHANGED workerVars
  PROVE  NetworkTypeOK' /\ ServerPoolTypeOK' /\ WorkerTypeOK'
<1>1. NetworkTypeOK'
  BY DEF workerVars, networkVars, NetworkTypeOK
<1>2. ServerPoolTypeOK'
  BY DEF workerVars, poolVars, ServerPoolTypeOK
<1>3. WorkerTypeOK'
  BY DEF workerVars, mainVars, cmdVars, localVars, sharedVars, WorkerTypeOK
<1> QED  BY <1>1, <1>2, <1>3

\* A step of a command goroutine keeps the types.
LEMMA CommandTypes ==
  ASSUME TypeOK, Wired, NEW c \in Conns, CommandStep(c),
         UNCHANGED <<managerVars, serverVars>>
  PROVE  TypeOK'
<1> USE DEF TypeOK
<1>1. ManagerTypeOK' /\ (accepted \subseteq Conns)' /\ (listening \in BOOLEAN)'
        /\ (receiving \in BOOLEAN)' /\ (crashed \in BOOLEAN)'
  BY DEF managerVars, serverVars, ManagerTypeOK
<1>2. SUFFICES NetworkTypeOK' /\ ServerPoolTypeOK' /\ WorkerTypeOK'
  BY <1>1
<1> USE DEF WorkerTypeOK, ServerPoolTypeOK, CmdPcs, GoTo, Put, Take, poolVars,
        mainVars, localVars, sharedVars, ReadResults
<1>3. CASE CommandQuit(c)
  BY <1>3, NetworkTypes, WorkerAssumption DEF CommandQuit
<1>4. CASE CommandReadNothing(c)
  BY <1>4, NetworkTypes
     DEF CommandReadNothing, Wired, WiredSession, RefusedResults, WaitResults
<1>5. CASE CommandSetDeadline(c)
  BY <1>5, NetworkTypes
     DEF CommandSetDeadline, Wired, WiredSession, RefusedResults, WaitResults
<1>6. CASE CommandEnterRead(c)
  <2>1. cmdConn[c] \in Conns
    BY <1>6 DEF CommandEnterRead, Wired, WiredSession
  <2>2. NetworkTypeOK'
    BY <1>6, <2>1, NetworkTypes DEF CommandEnterRead
  <2> QED  BY <1>6, <2>2 DEF CommandEnterRead
<1>7. CASE CommandReadRefused(c)
  <2>1. PICK result \in RefusedResults(cmdConn[c]) : cmdLine' = [cmdLine EXCEPT ![c] = result]
    BY <1>7 DEF CommandReadRefused
  <2>2. result \in ReadResults
    BY DEF RefusedResults
  <2> QED  BY <1>7, <2>1, <2>2, NetworkTypes DEF CommandReadRefused
<1>8. CASE CommandRead(c)
  <2>1. PICK result \in WaitResults(cmdConn[c]) :
          LeaveRead(cmdConn[c], result) /\ cmdLine' = [cmdLine EXCEPT ![c] = result]
    BY <1>8 DEF CommandRead
  <2>2. result \in ReadResults
    BY DEF WaitResults
  <2>3. cmdConn[c] \in Conns
    BY <1>8 DEF CommandRead, Wired, WiredSession
  <2>4. NetworkTypeOK'
    BY <2>1, <2>3, NetworkTypes
  <2> QED  BY <1>8, <2>1, <2>2, <2>4 DEF CommandRead
<1>9. CASE CommandEnd(c)
  BY <1>9, NetworkTypes, WorkerAssumption DEF CommandEnd
<1>10. CASE CommandError(c)
  BY <1>10, NetworkTypes, WorkerAssumption DEF CommandError
<1>11. CASE CommandFailed(c)
  BY <1>11, NetworkTypes, WorkerAssumption DEF CommandFailed
<1> QED
  BY <1>3, <1>4, <1>5, <1>6, <1>7, <1>8, <1>9, <1>10, <1>11 DEF CommandStep

\* A step of a main loop keeps the types.
LEMMA MainTypes ==
  ASSUME TypeOK, Wired, NEW c \in Conns, MainStep(c),
         UNCHANGED <<managerVars, serverVars>>
  PROVE  TypeOK'
<1> USE DEF TypeOK
<1>1. ManagerTypeOK' /\ (accepted \subseteq Conns)' /\ (listening \in BOOLEAN)'
        /\ (receiving \in BOOLEAN)' /\ (crashed \in BOOLEAN)'
  BY DEF managerVars, serverVars, ManagerTypeOK
<1>2. SUFFICES NetworkTypeOK' /\ ServerPoolTypeOK' /\ WorkerTypeOK'
  BY <1>1
<1> USE DEF WorkerTypeOK, ServerPoolTypeOK, GoTo, Put, Take, SetState,
        poolVars, cmdVars, localVars, sharedVars
<1>a. sessionWorker[c] # NoWorker => CurrentConn(c) \in Conns
  BY DEF Wired, WiredSession
<1>3. CASE WorkStart(c)
  BY <1>3, NetworkTypes DEF WorkStart, MainPcs, CmdPcs
<1>4. CASE MainStop(c)
  BY <1>4, <1>a, NetworkTypes
     DEF MainStop, Wired, WiredSession, MainPcs, WorkerStates
<1>5. CASE MainQuit(c)
  <2>1. CurrentConn(c) \in Conns /\ sessionWorker[c] \in Workers
    BY <1>5, <1>a DEF MainQuit, Wired, WiredSession
  <2>2. NetworkTypeOK'
    BY <1>5, <2>1, NetworkTypes DEF MainQuit
  <2>3. ServerPoolTypeOK'
    BY <1>5, <2>1 DEF MainQuit, WorkerStates
  <2>4. WorkerTypeOK'
    BY <1>5, WorkerAssumption DEF MainQuit, MainPcs, HangUpPcs
  <2> QED  BY <2>2, <2>3, <2>4
<1>6. CASE MainError(c)
  <2>1. CurrentConn(c) \in Conns /\ sessionWorker[c] \in Workers
    BY <1>6, <1>a DEF MainError, Wired, WiredSession
  <2>2. NetworkTypeOK'
    BY <1>6, <2>1, NetworkTypes DEF MainError
  <2>3. ServerPoolTypeOK'
    BY <1>6, <2>1 DEF MainError, WorkerStates
  <2>4. WorkerTypeOK'
    BY <1>6, WorkerAssumption DEF MainError, MainPcs, HangUpPcs
  <2> QED  BY <2>2, <2>3, <2>4
<1>7. CASE MainHangUp(c)
  <2>1. CurrentConn(c) \in Conns
    BY <1>7, <1>a DEF MainHangUp, Wired, WiredSession
  <2>2. NetworkTypeOK' /\ ServerPoolTypeOK'
    BY <1>7, NetworkTypes DEF MainHangUp
  <2>3. mainPc' \in [Conns -> MainPcs]
    BY <1>7 DEF MainHangUp, MainPcs, HangUpPcs
  <2> QED  BY <1>7, <2>1, <2>2, <2>3 DEF MainHangUp
<1>8. CASE MainClose(c)
  <2>1. mainConn[c] \in Conns
    BY <1>8 DEF MainClose, Wired, WiredSession
  <2>2. NetworkTypeOK' /\ ServerPoolTypeOK'
    BY <1>8, NetworkTypes DEF MainClose
  <2>3. mainPc' \in [Conns -> MainPcs]
    BY <1>8 DEF MainClose, MainPcs, HangUpPcs
  <2>4. closeChannel' \in Seq(Conns)
    BY <1>8, <2>1 DEF MainClose
  <2> QED  BY <1>8, <2>2, <2>3, <2>4 DEF MainClose
<1>9. CASE MainRejoin(c)
  BY <1>9, NetworkTypes DEF MainRejoin, Wired, WiredSession, MainPcs, JoinQueue
<1>10. CASE MainCommand(c)
  <2>1. PICK pc \in Outcomes(c, cmdLine[c]) :
          mainPc[c] = "select" /\ mainPc' = [mainPc EXCEPT ![c] = pc]
    BY <1>10 DEF MainCommand
  <2>2. pc \in {"data", "done", "fail"}
    <3>1. CASE cmdLine[c] = "data"  BY <2>1, <3>1 DEF Outcomes
    <3>2. CASE cmdLine[c] = "ok"
      <4>1. CASE CurrentConn(c) \in closed \cup hungUp
        BY <2>1, <3>2, <4>1 DEF Outcomes
      <4>2. CASE CurrentConn(c) \notin closed \cup hungUp
        BY <2>1, <3>2, <4>2 DEF Outcomes
      <4> QED  BY <4>1, <4>2
    <3>3. CASE cmdLine[c] \notin {"data", "ok"}  BY <2>1, <3>3 DEF Outcomes
    <3> QED  BY <3>1, <3>2, <3>3
  <2>3. mainPc' \in [Conns -> MainPcs]
    BY <2>1, <2>2 DEF MainPcs, ExecutingPcs
  <2>4. NetworkTypeOK' /\ ServerPoolTypeOK'
    BY <1>10, NetworkTypes DEF MainCommand
  <2>5. mainConn' \in [Conns -> Conns \cup {NoConn}]
    BY <1>10, <1>a DEF MainCommand, Wired, WiredSession
  <2> QED  BY <1>10, <2>3, <2>4, <2>5 DEF MainCommand, CmdPcs, ReadResults
<1>11. CASE DataSetDeadline(c)
  BY <1>11, NetworkTypes
     DEF DataSetDeadline, Wired, WiredSession, MainPcs, ExecutingPcs
<1>12. CASE DataEnterRead(c)
  BY <1>12, NetworkTypes
     DEF DataEnterRead, Wired, WiredSession, MainPcs, ExecutingPcs
<1>13. CASE DataReadRefused(c)
  BY <1>13, NetworkTypes DEF DataReadRefused, MainPcs, ExecutingPcs
<1>14. CASE DataRead(c)
  <2>1. PICK result \in WaitResults(mainConn[c]) :
          /\ LeaveRead(mainConn[c], result)
          /\ mainPc' = [mainPc EXCEPT ![c] = AfterDataRead(result)]
          /\ mainConn' = IF AfterDataRead(result) = "data" THEN mainConn
                         ELSE [mainConn EXCEPT ![c] = NoConn]
    BY <1>14 DEF DataRead
  <2>2. mainConn[c] \in Conns
    BY <1>14 DEF DataRead, Wired, WiredSession
  <2>3. NetworkTypeOK'
    BY <2>1, <2>2, NetworkTypes
  <2>4. AfterDataRead(result) \in {"data", "deliver", "fail"}
    BY DEF AfterDataRead
  <2>5. mainPc' \in [Conns -> MainPcs]
    BY <2>1, <2>4 DEF MainPcs, ExecutingPcs
  <2> QED  BY <1>14, <2>1, <2>3, <2>5 DEF DataRead
<1>15. CASE MainDeliver(c)
  BY <1>15, NetworkTypes DEF MainDeliver, MainPcs, ExecutingPcs
<1>16. CASE MainDone(c)
  BY <1>16, NetworkTypes DEF MainDone, MainPcs, CmdPcs
<1>17. CASE MainFail(c)
  BY <1>17, NetworkTypes, WorkerAssumption DEF MainFail, MainPcs, ExecutingPcs
<1>18. CASE MainFailDone(c)
  BY <1>18, NetworkTypes DEF MainFailDone, MainPcs, CmdPcs
<1> QED
  BY <1>3, <1>4, <1>5, <1>6, <1>7, <1>8, <1>9, <1>10, <1>11, <1>12, <1>13,
     <1>14, <1>15, <1>16, <1>17, <1>18
     DEF MainStep

\* A step of the closing goroutine keeps the types.
LEMMA ManagerTypes ==
  ASSUME TypeOK, Wired, ManagerStep, UNCHANGED serverVars
  PROVE  TypeOK'
<1> USE DEF TypeOK, ManagerTypeOK
<1>1. (accepted \subseteq Conns)' /\ (listening \in BOOLEAN)'
        /\ (receiving \in BOOLEAN)' /\ (crashed \in BOOLEAN)'
  BY DEF serverVars
<1>2. SUFFICES NetworkTypeOK' /\ ServerPoolTypeOK' /\ WorkerTypeOK' /\ ManagerTypeOK'
  BY <1>1
<1>3. CASE ManagerReceive
  <2>1. /\ ServerPoolTypeOK'
        /\ Head(closeChannel) \in Conns
        /\ closeChannel' \in Seq(Conns)
    <3>1. ServerPoolTypeOK'
      BY <1>3 DEF ManagerReceive, ServerPoolTypeOK, poolVars
    <3>2. /\ closeChannel \in Seq(Conns) /\ closeChannel # <<>>
          /\ closeChannel' = Tail(closeChannel)
      BY <1>3 DEF ManagerReceive, WorkerTypeOK
    <3>3. Head(closeChannel) \in Conns /\ closeChannel' \in Seq(Conns)
      BY <3>2
    <3> QED  BY <3>1, <3>3
  <2>2. WorkerTypeOK'
    BY <1>3, <2>1
       DEF ManagerReceive, WorkerTypeOK, mainVars, cmdVars, localVars
  <2>3. NetworkTypeOK' /\ ManagerTypeOK'
    <3>1. CASE Tracked(Head(closeChannel)) /\ Head(closeChannel) \notin closed
      BY <1>3, <2>1, <3>1, NetworkTypes DEF ManagerReceive
    <3>2. CASE ~(Tracked(Head(closeChannel)) /\ Head(closeChannel) \notin closed)
      BY <1>3, <2>1, <3>2, NetworkTypes DEF ManagerReceive
    <3> QED  BY <3>1, <3>2
  <2> QED  BY <2>1, <2>2, <2>3
<1>4. CASE ManagerClose
  <2>1. connectionPool[RemoteAddr[managerConn]] \in Conns
    BY <1>4, ConnectionManagerAssumption
       DEF ManagerClose, Wired, WiredSession, Tracked
  <2>2. NetworkTypeOK'
    BY <1>4, <2>1, NetworkTypes DEF ManagerClose
  <2>3. ServerPoolTypeOK' /\ WorkerTypeOK'
    BY <1>4
       DEF ManagerClose, ServerPoolTypeOK, WorkerTypeOK, poolVars, mainVars,
           cmdVars, localVars, sharedVars
  <2> QED  BY <1>4, <2>2, <2>3 DEF ManagerClose
<1>5. CASE ManagerStop
  <2>1. NetworkTypeOK' /\ ServerPoolTypeOK' /\ WorkerTypeOK'
    BY <1>5, WorkerVarsTypes DEF ManagerStop
  <2> QED  BY <1>5, <2>1 DEF ManagerStop
<1> QED  BY <1>3, <1>4, <1>5 DEF ManagerStep

\* A step of New keeps the types.
LEMMA NewTypes ==
  ASSUME TypeOK, Wired, NewStep, UNCHANGED serverVars
  PROVE  TypeOK'
<1> USE DEF TypeOK, ManagerTypeOK
<1>1. (accepted \subseteq Conns)' /\ (listening \in BOOLEAN)'
        /\ (receiving \in BOOLEAN)' /\ (crashed \in BOOLEAN)'
  BY DEF serverVars
<1>2. SUFFICES NetworkTypeOK' /\ ServerPoolTypeOK' /\ WorkerTypeOK' /\ ManagerTypeOK'
  BY <1>1
<1>3. CASE NewGetsWorker
  <2>1. NetworkTypeOK' /\ WorkerTypeOK' /\ ManagerTypeOK'
    BY <1>3, NetworkTypes
       DEF NewGetsWorker, WorkerTypeOK, mainVars, cmdVars, localVars,
           sharedVars, managerVars, networkVars
  <2>2. PICK w \in Workers : NextWorker(w, newConn)
    BY <1>3 DEF NewGetsWorker
  <2>3. pool' \in Seq(Workers)
    BY <2>2 DEF NextWorker, ServerPoolTypeOK
  <2>4. ServerPoolTypeOK'
    BY <1>3, <2>2, <2>3
       DEF NewGetsWorker, NextWorker, Prepare, ServerPoolTypeOK, WorkerStates
  <2> QED  BY <2>1, <2>4
<1>4. CASE NewGetsNoWorker
  <2>1. ServerPoolTypeOK' /\ WorkerTypeOK'
    BY <1>4
       DEF NewGetsNoWorker, NoWorkerAvailable, ServerPoolTypeOK, WorkerTypeOK,
           poolVars, mainVars, cmdVars, localVars, sharedVars
  <2>2. NetworkTypeOK' /\ ManagerTypeOK'
    BY <1>4, NetworkTypes DEF NewGetsNoWorker
  <2> QED  BY <2>1, <2>2
<1>5. CASE NewTracks
  <2>1. NetworkTypeOK' /\ ServerPoolTypeOK'
    BY <1>5, NetworkTypes DEF NewTracks, ServerPoolTypeOK, poolVars
  <2>2. WorkerTypeOK'
    BY <1>5
       DEF NewTracks, WorkerTypeOK, GoTo, MainPcs, cmdVars, localVars,
           sharedVars
  <2>3. ManagerTypeOK'
    BY <1>5 DEF NewTracks
  <2> QED  BY <2>1, <2>2, <2>3
<1> QED  BY <1>3, <1>4, <1>5 DEF NewStep

\* Every step keeps the types.
LEMMA StepTypes ==
  ASSUME TypeOK, Wired, [Next]_vars
  PROVE  TypeOK'
<1> DEFINE ServerTypeOK == /\ accepted \subseteq Conns
                           /\ listening \in BOOLEAN
                           /\ receiving \in BOOLEAN
                           /\ crashed \in BOOLEAN
<1>1. ASSUME NEW c \in Conns, Accept(c)  PROVE TypeOK'
  <2>1. NetworkTypeOK' /\ (newConn' \in Conns \cup {NoConn})
    <3>1. CASE Tracked(c)
      BY <1>1, <3>1, NetworkTypes DEF Accept, New, TypeOK, ManagerTypeOK
    <3>2. CASE ~Tracked(c)
      BY <1>1, <3>2, NetworkTypes DEF Accept, New, TypeOK
    <3> QED  BY <3>1, <3>2
  <2>2. ServerPoolTypeOK' /\ WorkerTypeOK'
    BY <1>1
       DEF Accept, New, TypeOK, ServerPoolTypeOK, WorkerTypeOK, poolVars,
           mainVars, cmdVars, localVars, sharedVars
  <2>3. ManagerTypeOK' /\ ServerTypeOK'
    BY <1>1, <2>1 DEF Accept, New, TypeOK, ManagerTypeOK
  <2> QED  BY <2>1, <2>2, <2>3 DEF TypeOK
<1>2. ASSUME NEW c \in Conns, ClientStep(c) \/ Timer(c)  PROVE TypeOK'
  <2>1. NetworkTypeOK'
    BY <1>2, NetworkTypes DEF ClientStep, Timer, TypeOK
  <2>2. ServerPoolTypeOK' /\ WorkerTypeOK' /\ ManagerTypeOK' /\ ServerTypeOK'
    BY <1>2
       DEF ClientStep, Timer, TypeOK, ServerPoolTypeOK, WorkerTypeOK,
           ManagerTypeOK, poolVars, mainVars, cmdVars, localVars, sharedVars,
           managerVars, serverVars
  <2> QED  BY <2>1, <2>2 DEF TypeOK
<1>3. ASSUME NEW c \in Conns, CommandGoroutine(c)  PROVE TypeOK'
  BY <1>3, CommandTypes DEF CommandGoroutine
<1>4. ASSUME NEW c \in Conns, MainGoroutine(c)  PROVE TypeOK'
  BY <1>4, MainTypes DEF MainGoroutine
<1>5. CASE AcceptGoroutine
  BY <1>5, NewTypes DEF AcceptGoroutine
<1>6. CASE ManagerGoroutine
  BY <1>6, ManagerTypes DEF ManagerGoroutine
<1>7. CASE Receive
  <2>1. mailItemChannel' \in Seq(Conns)
    BY <1>7 DEF Receive, TypeOK, WorkerTypeOK
  <2>2. NetworkTypeOK'
    BY <1>7 DEF Receive, TypeOK, NetworkTypeOK, networkVars
  <2>3. ServerPoolTypeOK' /\ WorkerTypeOK' /\ ManagerTypeOK' /\ ServerTypeOK'
    BY <1>7, <2>1
       DEF Receive, TypeOK, ServerPoolTypeOK, WorkerTypeOK, ManagerTypeOK,
           poolVars, mainVars, cmdVars, localVars, managerVars, serverVars
  <2> QED  BY <2>2, <2>3 DEF TypeOK
<1>8. CASE StopService
  <2>1. NetworkTypeOK'
    BY <1>8 DEF StopService, TypeOK, NetworkTypeOK, networkVars
  <2>2. ServerPoolTypeOK' /\ WorkerTypeOK' /\ ManagerTypeOK' /\ ServerTypeOK'
    BY <1>8
       DEF StopService, TypeOK, ServerPoolTypeOK, WorkerTypeOK, ManagerTypeOK,
           poolVars, mainVars, cmdVars, localVars, managerVars, serverVars
  <2> QED  BY <2>1, <2>2 DEF TypeOK
<1>9. CASE ReceiversStop \/ CloseListener \/ Crash \/ UNCHANGED vars
  <2>1. UNCHANGED workerVars /\ UNCHANGED managerVars /\ ServerTypeOK'
    BY <1>9 DEF ReceiversStop, CloseListener, Crash, TypeOK, vars, serverVars
  <2>2. NetworkTypeOK' /\ ServerPoolTypeOK' /\ WorkerTypeOK'
    BY <2>1, WorkerVarsTypes DEF TypeOK
  <2>3. ManagerTypeOK'
    BY <2>1 DEF TypeOK, ManagerTypeOK, managerVars
  <2> QED  BY <2>1, <2>2, <2>3 DEF TypeOK
<1> QED
  BY <1>1, <1>2, <1>3, <1>4, <1>5, <1>6, <1>7, <1>8, <1>9 DEF Next, SessionStep

\* A step of a command goroutine keeps sessions wired and in step.
LEMMA CommandWired ==
  ASSUME TypeOK, Wired, Handshake, NEW c \in Conns, CommandStep(c), UNCHANGED managerVars
  PROVE  Wired' /\ Handshake'
<1>1. managerPc' = "probe" => managerConn' \in Conns /\ Tracked(managerConn)'
  BY DEF Wired, managerVars, Tracked
<1>2. SUFFICES ASSUME NEW d \in Conns
               PROVE  /\ WiredSession(d)'
                      /\ cmdPc'[d] = "await" <=> mainPc'[d] \in ExecutingPcs
  BY <1>1 DEF Wired, Handshake
<1> USE DEF TypeOK, WorkerTypeOK, Wired, WiredSession, Handshake, GoTo,
        poolVars, mainVars, CurrentConn
<1>3. CASE CommandQuit(c)
  BY <1>3 DEF CommandQuit
<1>4. CASE CommandReadNothing(c)
  BY <1>4 DEF CommandReadNothing
<1>5. CASE CommandSetDeadline(c)
  BY <1>5 DEF CommandSetDeadline
<1>6. CASE CommandEnterRead(c)
  BY <1>6 DEF CommandEnterRead
<1>7. CASE CommandReadRefused(c)
  BY <1>7 DEF CommandReadRefused
<1>8. CASE CommandRead(c)
  BY <1>8 DEF CommandRead
<1>9. CASE CommandEnd(c)
  BY <1>9 DEF CommandEnd
<1>10. CASE CommandError(c)
  BY <1>10 DEF CommandError
<1>11. CASE CommandFailed(c)
  BY <1>11 DEF CommandFailed
<1> QED
  BY <1>3, <1>4, <1>5, <1>6, <1>7, <1>8, <1>9, <1>10, <1>11 DEF CommandStep

\* A step of a main loop keeps sessions wired and in step.
LEMMA MainWired ==
  ASSUME TypeOK, Wired, Handshake, NEW c \in Conns, MainStep(c), UNCHANGED managerVars
  PROVE  Wired' /\ Handshake'
<1>1. managerPc' = "probe" => managerConn' \in Conns /\ Tracked(managerConn)'
  BY DEF Wired, managerVars, Tracked
<1>2. SUFFICES ASSUME NEW d \in Conns
               PROVE  /\ WiredSession(d)'
                      /\ cmdPc'[d] = "await" <=> mainPc'[d] \in ExecutingPcs
  BY <1>1 DEF Wired, Handshake
<1> USE DEF TypeOK, WorkerTypeOK, Wired, WiredSession, Handshake, GoTo,
        poolVars, cmdVars, CurrentConn, ExecutingPcs
<1>3. CASE WorkStart(c)
  BY <1>3 DEF WorkStart
<1>4. CASE MainStop(c)
  BY <1>4 DEF MainStop, SetState
<1>5. CASE MainQuit(c)
  BY <1>5 DEF MainQuit, SetState
<1>6. CASE MainError(c)
  BY <1>6 DEF MainError, SetState
<1>7. CASE MainHangUp(c)
  BY <1>7 DEF MainHangUp
<1>8. CASE MainClose(c)
  BY <1>8 DEF MainClose
<1>9. CASE MainRejoin(c)
  BY <1>9 DEF MainRejoin, JoinQueue
<1>10. CASE MainCommand(c)
  BY <1>10 DEF MainCommand, Outcomes
<1>11. CASE DataSetDeadline(c)
  BY <1>11 DEF DataSetDeadline
<1>12. CASE DataEnterRead(c)
  BY <1>12 DEF DataEnterRead
<1>13. CASE DataReadRefused(c)
  BY <1>13 DEF DataReadRefused
<1>14. CASE DataRead(c)
  BY <1>14 DEF DataRead, AfterDataRead
<1>15. CASE MainDeliver(c)
  BY <1>15 DEF MainDeliver
<1>16. CASE MainDone(c)
  BY <1>16 DEF MainDone
<1>17. CASE MainFail(c)
  BY <1>17 DEF MainFail
<1>18. CASE MainFailDone(c)
  BY <1>18 DEF MainFailDone
<1> QED
  BY <1>3, <1>4, <1>5, <1>6, <1>7, <1>8, <1>9, <1>10, <1>11, <1>12, <1>13,
     <1>14, <1>15, <1>16, <1>17, <1>18
     DEF MainStep

\* Every step keeps sessions wired and in step.
LEMMA StepWired ==
  ASSUME TypeOK, Wired, Handshake, [Next]_vars
  PROVE  Wired' /\ Handshake'
<1>1. ASSUME UNCHANGED <<poolVars, mainVars, cmdVars>>
      PROVE  (\A d \in Conns : WiredSession(d)') /\ Handshake'
  BY <1>1
     DEF poolVars, mainVars, cmdVars, Wired, WiredSession, CurrentConn,
         Handshake
<1>2. ASSUME UNCHANGED <<connectionPool, managerPc, managerConn>>
      PROVE  managerPc' = "probe" => managerConn' \in Conns /\ Tracked(managerConn)'
  BY <1>2 DEF Wired, Tracked
<1>3. ASSUME NEW c \in Conns, Accept(c) \/ ClientStep(c) \/ Timer(c)
      PROVE  Wired' /\ Handshake'
  <2>1. UNCHANGED <<poolVars, mainVars, cmdVars>>
    BY <1>3 DEF Accept, New, ClientStep, Timer
  <2>2. UNCHANGED <<connectionPool, managerPc, managerConn>>
    BY <1>3 DEF Accept, New, ClientStep, Timer, managerVars
  <2> QED  BY <1>1, <1>2, <2>1, <2>2 DEF Wired
<1>4. ASSUME NEW c \in Conns, CommandGoroutine(c)
      PROVE  Wired' /\ Handshake'
  BY <1>4, CommandWired DEF CommandGoroutine
<1>5. ASSUME NEW c \in Conns, MainGoroutine(c)
      PROVE  Wired' /\ Handshake'
  BY <1>5, MainWired DEF MainGoroutine
<1>6. CASE NewGetsWorker
  <2>1. newConn \in Conns
    BY <1>6 DEF NewGetsWorker, TypeOK, ManagerTypeOK
  <2>2. PICK w \in Workers : NextWorker(w, newConn)
    BY <1>6 DEF NewGetsWorker
  <2>3. \A d \in Conns : WiredSession(d)'
    BY <1>6, <2>1, <2>2, ServerPoolAssumption
       DEF NewGetsWorker, NextWorker, Prepare, Wired, WiredSession,
           CurrentConn, mainVars, cmdVars, TypeOK, ServerPoolTypeOK
  <2>4. Handshake' /\ UNCHANGED <<connectionPool, managerPc, managerConn>>
    BY <1>6 DEF NewGetsWorker, Handshake, mainVars, cmdVars, managerVars
  <2> QED  BY <1>2, <2>3, <2>4 DEF Wired
<1>7. CASE NewGetsNoWorker
  <2>1. UNCHANGED <<poolVars, mainVars, cmdVars>>
    BY <1>7 DEF NewGetsNoWorker, NoWorkerAvailable
  <2>2. UNCHANGED <<connectionPool, managerPc, managerConn>>
    BY <1>7 DEF NewGetsNoWorker
  <2> QED  BY <1>1, <1>2, <2>1, <2>2 DEF Wired
<1>8. CASE NewTracks
  <2>1. newConn \in Conns
    BY <1>8 DEF NewTracks, TypeOK, ManagerTypeOK
  <2>2. (\A d \in Conns : WiredSession(d)') /\ Handshake'
    BY <1>8, <2>1
       DEF NewTracks, GoTo, Wired, WiredSession, CurrentConn, Handshake,
           ExecutingPcs, poolVars, cmdVars, TypeOK, WorkerTypeOK
  <2>3. managerPc' = "probe" => managerConn' \in Conns /\ Tracked(managerConn)'
    BY <1>8, <2>1, ConnectionManagerAssumption, NetworkAssumption
       DEF NewTracks, Wired, Tracked, TypeOK, ManagerTypeOK
  <2> QED  BY <2>2, <2>3 DEF Wired
<1>9. CASE ManagerReceive
  <2>1. UNCHANGED <<poolVars, mainVars, cmdVars>>
    BY <1>9 DEF ManagerReceive
  <2>2. closeChannel # <<>> => Head(closeChannel) \in Conns
    BY DEF TypeOK, WorkerTypeOK
  <2>3. managerPc' = "probe" => managerConn' \in Conns /\ Tracked(managerConn)'
    BY <1>9, <2>2 DEF ManagerReceive, Wired, Tracked
  <2> QED  BY <1>1, <2>1, <2>3 DEF Wired
<1>10. CASE ManagerClose \/ ManagerStop
  <2>1. UNCHANGED <<poolVars, mainVars, cmdVars>>
    BY <1>10 DEF ManagerClose, ManagerStop, workerVars
  <2>2. managerPc' # "probe"
    BY <1>10 DEF ManagerClose, ManagerStop
  <2> QED  BY <1>1, <2>1, <2>2 DEF Wired
<1>11. CASE Receive \/ ReceiversStop \/ StopService \/ CloseListener \/ Crash \/ UNCHANGED vars
  <2>1. UNCHANGED <<poolVars, mainVars, cmdVars>>
    BY <1>11
       DEF Receive, ReceiversStop, StopService, CloseListener, Crash, vars,
           workerVars
  <2>2. UNCHANGED <<connectionPool, managerPc, managerConn>>
    BY <1>11
       DEF Receive, ReceiversStop, StopService, CloseListener, Crash, vars,
           managerVars
  <2> QED  BY <1>1, <1>2, <2>1, <2>2 DEF Wired
<1> QED
  BY <1>3, <1>4, <1>5, <1>6, <1>7, <1>8, <1>9, <1>10, <1>11
     DEF Next, SessionStep, AcceptGoroutine, NewStep, ManagerGoroutine,
         ManagerStep

\* TypeOK, Wired and Handshake are invariants, with any clients and with or
\* without a shutdown.
LEMMA CommonInvariant == Spec => [](TypeOK /\ Wired /\ Handshake)
<1>1. TypeOK /\ Wired /\ Handshake /\ [Next]_vars => (TypeOK /\ Wired /\ Handshake)'
  BY StepTypes, StepWired
<1> QED  BY InitTypes, <1>1, PTL DEF Spec

\* Every variable keeps its type in all behaviours of the SMTP service.
THEOREM TypeCorrect == Spec => []TypeOK
BY CommonInvariant, PTL

\* In all behaviours the command goroutine of a session waits for an answer
\* exactly while its main loop executes a command (worker.go, Work: the unbuffered
\* commandChannel and commandDoneChannel).
THEOREM HandshakeHolds == Spec => []Handshake
BY CommonInvariant, PTL

-----------------------------------------------------------------------------
(* Polite clients. *)

\* A step leaves the goroutines of session d alone.
SessionUnchanged(d) ==
  /\ mainPc'[d] = mainPc[d]
  /\ mainConn'[d] = mainConn[d]
  /\ cmdPc'[d] = cmdPc[d]
  /\ cmdConn'[d] = cmdConn[d]
  /\ cmdLine'[d] = cmdLine[d]
  /\ quitChannel'[d] = quitChannel[d]
  /\ quitCommandChannel'[d] = quitCommandChannel[d]
  /\ workerErrorChannel'[d] = workerErrorChannel[d]

\* A step leaves what the client of d has sent and been sent alone.
ClientUnchanged(d) ==
  /\ inbox'[d] = inbox[d]
  /\ d \in inData' <=> d \in inData
  /\ d \in hungUp' <=> d \in hungUp
  /\ d \in goodbye' <=> d \in goodbye

\* What a step of one of the goroutines of session c may do.
Progress(c) ==
  /\ \A d \in Conns \ {c} : SessionUnchanged(d) /\ ClientUnchanged(d)
  /\ OneReport(c)' /\ OrderlyClient(c)'
  /\ CommandsEnded(c) => CommandsEnded(c)'
  /\ Over(c) => Over(c)'
  /\ HungUp(c) => HungUp(c)'
  /\ cmdConn'[c] \in {NoConn, c} /\ mainConn'[c] \in {NoConn, c}
  /\ c \in goodbye' => CommandsEnded(c)'
  /\ mainPc[c] # "none" /\ mainPc'[c] # "none"
  /\ UNCHANGED <<closed, workerConn, sessionWorker>>
  /\ \/ UNCHANGED pool
     \/ mainPc[c] = "rejoin" /\ Over(c)' /\ pool' = Append(pool, sessionWorker[c])
  /\ \/ UNCHANGED closeChannel
     \/ HungUp(c)' /\ closeChannel' = Append(closeChannel, c)

\* The members of Append(s, x) are those of s and x.
LEMMA AppendIndex ==
  ASSUME NEW S, NEW s \in Seq(S), NEW x \in S
  PROVE  /\ Len(Append(s, x)) = Len(s) + 1
         /\ \A i \in 1..Len(s) + 1 :
              \/ i = Len(s) + 1 /\ Append(s, x)[i] = x
              \/ i \in 1..Len(s) /\ Append(s, x)[i] = s[i]
BY AppendProperties

\* Whether a session has ended, is over or has hung up is read off its own
\* variables.
LEMMA Frame ==
  ASSUME NEW d \in Conns, SessionUnchanged(d)
  PROVE  /\ CommandsEnded(d)' <=> CommandsEnded(d)
         /\ Over(d)' <=> Over(d)
         /\ HungUp(d)' <=> HungUp(d)
         /\ OneReport(d)' <=> OneReport(d)
         /\ DataPhase(d)' <=> DataPhase(d)
BY DEF SessionUnchanged, CommandsEnded, Over, HungUp, OneReport, DataPhase,
       Messages

\* What OrderlyClient says of a session is read off its own variables and its
\* client's.
LEMMA FrameClient ==
  ASSUME NEW d \in Conns, SessionUnchanged(d), ClientUnchanged(d)
  PROVE  OrderlyClient(d)' <=> OrderlyClient(d)
BY Frame DEF OrderlyClient, SessionUnchanged, ClientUnchanged

\* A step of session c that makes progress preserves PoliteInv.
LEMMA ProgressPreserves ==
  ASSUME TypeOK, Wired, TypeOK', Wired', PoliteInv, ~chStop,
         UNCHANGED <<chStop, managerVars, accepted>>,
         NEW c \in Conns, Progress(c)
  PROVE  PoliteInv'
<1> USE DEF PoliteInv
<1>1. /\ \A d \in Conns : CommandsEnded(d) => CommandsEnded(d)'
      /\ \A d \in Conns : Over(d) => Over(d)'
      /\ \A d \in Conns : HungUp(d) => HungUp(d)'
  BY Frame DEF Progress
<1>2. OwnUntilGoodbye'
  BY <1>1 DEF OwnUntilGoodbye, Progress, SessionUnchanged, ClientUnchanged
<1>3. \A d \in Conns : OneReport(d)' /\ OrderlyClient(d)'
  BY Frame, FrameClient DEF Progress, SessionsInv
<1>4. PreparedForOwn'
  BY <1>1 DEF SessionsInv, PreparedForOwn, Serves, Progress
<1>5. OrderlyClose'
  <2>1. \A d \in Conns : mainPc[d] = "none" <=> mainPc'[d] = "none"
    BY DEF Progress, SessionUnchanged
  <2>2. \A d \in Conns, i \in 1..Len(closeChannel') : closeChannel'[i] = d => HungUp(d)'
    <3>1. CASE UNCHANGED closeChannel
      BY <1>1, <3>1 DEF SessionsInv, OrderlyClose
    <3>2. CASE HungUp(c)' /\ closeChannel' = Append(closeChannel, c)
      <4>1. closeChannel \in Seq(Conns)
        BY DEF TypeOK, WorkerTypeOK
      <4>2. /\ Len(closeChannel') = Len(closeChannel) + 1
            /\ \A i \in 1..Len(closeChannel) + 1 :
                 \/ closeChannel'[i] = c
                 \/ i \in 1..Len(closeChannel) /\ closeChannel'[i] = closeChannel[i]
        BY <3>2, <4>1, AppendIndex
      <4> QED  BY <1>1, <3>2, <4>2 DEF SessionsInv, OrderlyClose
    <3> QED  BY <3>1, <3>2 DEF Progress
  <2>3. \A d \in Conns : managerPc' = "probe" /\ managerConn' = d => HungUp(d)'
    BY <1>1 DEF SessionsInv, OrderlyClose, managerVars
  <2>4. newConn' # NoConn => /\ newConn' \in accepted' \ closed'
                             /\ mainPc'[newConn'] = "none"
                             /\ ~Tracked(newConn)'
    BY <2>1
       DEF SessionsInv, OrderlyClose, managerVars, Tracked, Progress, TypeOK,
           ManagerTypeOK
  <2>5. \A d \in Conns :
           /\ d \in closed' => d \in accepted' /\ (sessionWorker'[d] = NoWorker \/ HungUp(d)')
           /\ sessionWorker'[d] # NoWorker => d \in accepted'
           /\ sessionWorker'[d] # NoWorker /\ d # newConn' =>
                mainPc'[d] # "none" /\ connectionPool'[RemoteAddr[d]] = d
    BY <1>1, <2>1 DEF SessionsInv, OrderlyClose, managerVars, Progress
  <2> QED
    BY <2>2, <2>3, <2>4, <2>5 DEF OrderlyClose
<1>6. ExclusiveWorkers'
  <2>1. \A d \in Conns, w \in Workers : Serves(w, d)' => Serves(w, d)
    BY <1>1 DEF Serves, Progress
  <2>2. CASE UNCHANGED pool
    BY <2>1, <2>2 DEF ExclusiveWorkers, TypeOK, ServerPoolTypeOK
  <2>3. CASE mainPc[c] = "rejoin" /\ Over(c)' /\ pool' = Append(pool, sessionWorker[c])
    <3>1. sessionWorker[c] \in Workers /\ Serves(sessionWorker[c], c)
      BY <2>3 DEF Wired, WiredSession, TypeOK, ServerPoolTypeOK, Serves, Over
    <3>2. \A i \in 1..Len(pool) : pool[i] # sessionWorker[c]
      BY <3>1 DEF ExclusiveWorkers, Serves
    <3>3. Len(pool') = Len(pool) + 1 /\ \A i \in 1..Len(pool') :
             pool'[i] = IF i = Len(pool) + 1 THEN sessionWorker[c] ELSE pool[i]
      BY <2>3, <3>1 DEF TypeOK, ServerPoolTypeOK
    <3>4. Len(pool) \in Nat /\ \A i \in 1..Len(pool) : pool[i] \in Workers
      BY DEF TypeOK, ServerPoolTypeOK
    <3>5. \A i, j \in 1..Len(pool') : pool'[i] = pool'[j] => i = j
      BY <3>2, <3>3, <3>4 DEF ExclusiveWorkers
    <3>6. \A d \in Conns, i \in 1..Len(pool') : sessionWorker'[d] = pool'[i] => Over(d)'
      <4> SUFFICES ASSUME NEW d \in Conns, NEW i \in 1..Len(pool'),
                          sessionWorker'[d] = pool'[i]
                   PROVE  Over(d)'
        OBVIOUS
      <4>1. CASE i = Len(pool) + 1
        BY <3>3, <4>1, <1>1, <2>3, <3>1, <3>4
           DEF ExclusiveWorkers, Serves, Progress
      <4>2. CASE i # Len(pool) + 1
        BY <3>3, <3>4, <4>2, <1>1 DEF ExclusiveWorkers, Serves, Progress
      <4> QED  BY <4>1, <4>2
    <3>7. \A d, e \in Conns, w \in Workers : Serves(w, d)' /\ Serves(w, e)' => d = e
      BY <2>1 DEF ExclusiveWorkers
    <3> QED  BY <3>5, <3>6, <3>7 DEF ExclusiveWorkers, Serves
  <2> QED  BY <2>2, <2>3 DEF Progress
<1> QED  BY <1>2, <1>3, <1>4, <1>5, <1>6 DEF SessionsInv

\* What PoliteInv says of one session of a running server.
LEMMA SessionFacts ==
  ASSUME TypeOK, Wired, Handshake, PoliteInv, ~chStop, NEW c \in Conns
  PROVE  /\ OneReport(c) /\ OrderlyClient(c) /\ WiredSession(c)
         /\ cmdPc[c] = "await" <=> mainPc[c] \in ExecutingPcs
         /\ cmdConn[c] \in {NoConn, c} /\ mainConn[c] \in {NoConn, c}
         /\ c \in goodbye => CommandsEnded(c)
         /\ c \in closed /\ mainPc[c] # "none" => CommandsEnded(c)
         /\ mainPc[c] # "none" /\ ~Over(c) => CurrentConn(c) = c
<1>1. OneReport(c) /\ OrderlyClient(c) /\ WiredSession(c)
  BY DEF PoliteInv, SessionsInv, Wired
<1>2. /\ cmdPc[c] = "await" <=> mainPc[c] \in ExecutingPcs
      /\ cmdConn[c] \in {NoConn, c} /\ mainConn[c] \in {NoConn, c}
      /\ c \in goodbye => CommandsEnded(c)
  BY DEF Handshake, PoliteInv, OwnUntilGoodbye
<1>3. c \in closed /\ mainPc[c] # "none" => CommandsEnded(c)
  BY <1>1 DEF PoliteInv, SessionsInv, OrderlyClose, HungUp, WiredSession
<1>4. mainPc[c] # "none" /\ ~Over(c) => CurrentConn(c) = c
  BY <1>1
     DEF PoliteInv, SessionsInv, PreparedForOwn, Serves, CurrentConn,
         WiredSession, TypeOK, ServerPoolTypeOK
<1> QED  BY <1>1, <1>2, <1>3, <1>4

\* Executing a command leads to the data phase, to an answer or to a failure;
\* DATA always leads to the data phase.
LEMMA OutcomeValues ==
  ASSUME NEW c, NEW line, NEW pc \in Outcomes(c, line)
  PROVE  pc \in {"data", "done", "fail"} /\ (line = "data" => pc = "data")
<1>1. CASE line = "data"  BY <1>1 DEF Outcomes
<1>2. CASE line = "ok"
  <2>1. CASE CurrentConn(c) \in closed \cup hungUp  BY <1>2, <2>1 DEF Outcomes
  <2>2. CASE CurrentConn(c) \notin closed \cup hungUp
    BY <1>2, <2>2 DEF Outcomes
  <2> QED  BY <2>1, <2>2
<1>3. CASE line \notin {"data", "ok"}  BY <1>3 DEF Outcomes
<1> QED  BY <1>1, <1>2, <1>3

\* Every step of a command goroutine makes progress. With polite clients it
\* never reads nothing, and never reads an error, an unknown command or a line of
\* a message body.
LEMMA CommandProgress ==
  ASSUME Polite, TypeOK, Wired, Handshake, PoliteInv, ~chStop, NEW c \in Conns, CommandStep(c)
  PROVE  Progress(c)
<1>1. \A d \in Conns \ {c} : SessionUnchanged(d)
  BY DEF CommandStep, CommandQuit, CommandReadNothing, CommandSetDeadline,
         CommandEnterRead, CommandReadRefused, CommandRead, CommandEnd,
         CommandError, CommandFailed, SessionUnchanged, Put, Take, GoTo,
         mainVars, localVars, TypeOK, WorkerTypeOK
<1>2. /\ OneReport(c) /\ OrderlyClient(c) /\ WiredSession(c)
      /\ cmdPc[c] = "await" <=> mainPc[c] \in ExecutingPcs
      /\ cmdConn[c] \in {NoConn, c} /\ mainConn[c] \in {NoConn, c}
      /\ c \in goodbye => CommandsEnded(c)
      /\ c \in closed /\ mainPc[c] # "none" => CommandsEnded(c)
      /\ mainPc[c] # "none" /\ ~Over(c) => CurrentConn(c) = c
  BY SessionFacts
<1>3. mainPc[c] # "none" /\ NoConn \notin Conns
  BY <1>2, NetworkAssumption
     DEF CommandStep, CommandQuit, CommandReadNothing, CommandSetDeadline,
         CommandEnterRead, CommandReadRefused, CommandRead, CommandEnd,
         CommandError, CommandFailed, GoTo, WiredSession
<1> USE <1>2, <1>3 DEF TypeOK, WorkerTypeOK, GoTo, mainVars, poolVars,
        localVars, sharedVars, networkVars, CommandsEnded
<1>4. CASE CommandQuit(c)
  <2>1. \A d \in Conns \ {c} : ClientUnchanged(d)
    BY <1>4 DEF CommandQuit, ClientUnchanged, NetworkTypeOK
  <2>2. /\ OneReport(c)'
        /\ CommandsEnded(c) => CommandsEnded(c)'
        /\ Over(c) => Over(c)'
        /\ HungUp(c) => HungUp(c)'
    BY <1>4 DEF CommandQuit, OneReport, Over, HungUp, Messages, Put, Take
  <2>3. OrderlyClient(c)'
    BY <1>4 DEF CommandQuit, OrderlyClient, DataPhase, Put, Take, NetworkTypeOK
  <2> QED
    BY <1>1, <1>4, <2>1, <2>2, <2>3 DEF CommandQuit, Progress, WiredSession
<1>5. CASE CommandSetDeadline(c)
  <2> CurrentConn(c) = c
    BY <1>5 DEF CommandSetDeadline, Over
  <2>1. \A d \in Conns \ {c} : ClientUnchanged(d)
    BY <1>5
       DEF CommandSetDeadline, ExtendDeadline, ClientUnchanged, NetworkTypeOK
  <2>2. /\ OneReport(c)'
        /\ CommandsEnded(c) => CommandsEnded(c)'
        /\ Over(c) => Over(c)'
        /\ HungUp(c) => HungUp(c)'
    BY <1>5
       DEF CommandSetDeadline, ExtendDeadline, OneReport, Over, HungUp,
           Messages, Put, Take
  <2>3. OrderlyClient(c)'
    BY <1>5
       DEF CommandSetDeadline, ExtendDeadline, OrderlyClient, DataPhase, Put,
           Take, NetworkTypeOK
  <2> QED
    BY <1>1, <1>5, <2>1, <2>2, <2>3
       DEF CommandSetDeadline, ExtendDeadline, Progress, WiredSession
<1>6. CASE CommandEnterRead(c)
  <2> cmdConn[c] = c
    BY <1>6 DEF CommandEnterRead, WiredSession
  <2>1. \A d \in Conns \ {c} : ClientUnchanged(d)
    BY <1>6 DEF CommandEnterRead, EnterRead, ClientUnchanged, NetworkTypeOK
  <2>2. /\ OneReport(c)'
        /\ CommandsEnded(c) => CommandsEnded(c)'
        /\ Over(c) => Over(c)'
        /\ HungUp(c) => HungUp(c)'
    BY <1>6
       DEF CommandEnterRead, EnterRead, OneReport, Over, HungUp, Messages, Put,
           Take
  <2>3. OrderlyClient(c)'
    BY <1>6
       DEF CommandEnterRead, EnterRead, OrderlyClient, DataPhase, Put, Take,
           NetworkTypeOK
  <2> QED
    BY <1>1, <1>6, <2>1, <2>2, <2>3
       DEF CommandEnterRead, EnterRead, Progress, WiredSession
<1>7. CASE CommandReadRefused(c)
  <2> cmdConn[c] = c /\ c \notin closed
    BY <1>7 DEF CommandReadRefused, WiredSession
  <2> cmdLine' = [cmdLine EXCEPT ![c] = "timeout"]
    BY <1>7 DEF CommandReadRefused, RefusedResults
  <2>1. \A d \in Conns \ {c} : ClientUnchanged(d)
    BY <1>7 DEF CommandReadRefused, ClientUnchanged, NetworkTypeOK
  <2>2. /\ OneReport(c)'
        /\ CommandsEnded(c) => CommandsEnded(c)'
        /\ Over(c) => Over(c)'
        /\ HungUp(c) => HungUp(c)'
    BY <1>7
       DEF CommandReadRefused, OneReport, Over, HungUp, Messages, Put, Take
  <2>3. OrderlyClient(c)'
    BY <1>7
       DEF CommandReadRefused, OrderlyClient, DataPhase, Put, Take,
           NetworkTypeOK
  <2> QED
    BY <1>1, <1>7, <2>1, <2>2, <2>3
       DEF CommandReadRefused, Progress, WiredSession
<1>8. CASE CommandRead(c)
  <2> cmdConn[c] = c /\ c \notin closed
    BY <1>8 DEF CommandRead, WiredSession
  <2>a. PICK result \in WaitResults(c) :
          /\ LeaveRead(c, result)
          /\ cmdLine' = [cmdLine EXCEPT ![c] = result]
    BY <1>8 DEF CommandRead
  <2>b. ~DataPhase(c)
    BY <1>8 DEF CommandRead, DataPhase, ExecutingPcs
  <2>c. \/ result = "timeout"
        \/ result = inbox[c] /\ result \in {"ok", "bad", "data", "quit"}
    <3>1. cmdPc[c] = "waiting"
      BY <1>8 DEF CommandRead
    <3>2. \/ result = "error" /\ c \in hungUp /\ inbox[c] = NoLine
          \/ result = "timeout"
          \/ result = inbox[c] /\ inbox[c] # NoLine
      BY <2>a DEF WaitResults
    <3>3. ~(c \in hungUp /\ inbox[c] = NoLine)
      BY <2>b, <3>1 DEF OrderlyClient, NoLine
    <3>4. inbox[c] # NoLine => inbox[c] \in {"ok", "bad", "data", "quit"}
      BY <2>b
         DEF OrderlyClient, Polite, AllCommandLines, AllBodyLines, Lines,
             NetworkTypeOK
    <3>5. result = inbox[c] /\ inbox[c] # NoLine => result \in {"ok", "bad", "data", "quit"}
      BY <3>4
    <3> QED  BY <3>2, <3>3, <3>5
  <2> USE <2>a, <2>b, <2>c
  <2>1. \A d \in Conns \ {c} : ClientUnchanged(d)
    BY <1>8 DEF CommandRead, LeaveRead, ClientUnchanged, NetworkTypeOK
  <2>2. /\ OneReport(c)'
        /\ CommandsEnded(c) => CommandsEnded(c)'
        /\ Over(c) => Over(c)'
        /\ HungUp(c) => HungUp(c)'
    BY <1>8 DEF CommandRead, OneReport, Over, HungUp, Messages, Put, Take
  <2>3. OrderlyClient(c)'
    BY <1>8
       DEF CommandRead, LeaveRead, OrderlyClient, DataPhase, Put, Take,
           NetworkTypeOK, NoLine, AllBodyLines, AllCommandLines
  <2> QED
    BY <1>1, <1>8, <2>1, <2>2, <2>3
       DEF CommandRead, LeaveRead, Progress, WiredSession
<1>9. CASE CommandEnd(c)
  <2> mainPc[c] = "select" /\ quitCommandChannel[c] = 0 /\ Messages(c) = 0
    BY <1>9 DEF CommandEnd, WiredSession, OneReport, MainPcs, HangUpPcs
  <2>1. \A d \in Conns \ {c} : ClientUnchanged(d)
    BY <1>9 DEF CommandEnd, ClientUnchanged, NetworkTypeOK
  <2>2. /\ OneReport(c)'
        /\ CommandsEnded(c) => CommandsEnded(c)'
        /\ Over(c) => Over(c)'
        /\ HungUp(c) => HungUp(c)'
    BY <1>9 DEF CommandEnd, OneReport, Over, HungUp, Messages, Put, Take
  <2>3. OrderlyClient(c)'
    BY <1>9 DEF CommandEnd, OrderlyClient, DataPhase, Put, Take, NetworkTypeOK
  <2> QED
    BY <1>1, <1>9, <2>1, <2>2, <2>3 DEF CommandEnd, Progress, WiredSession
<1>10. CASE CommandFailed(c)
  <2>1. \A d \in Conns \ {c} : ClientUnchanged(d)
    BY <1>10 DEF CommandFailed, ClientUnchanged, NetworkTypeOK
  <2>2. /\ OneReport(c)'
        /\ CommandsEnded(c) => CommandsEnded(c)'
        /\ Over(c) => Over(c)'
        /\ HungUp(c) => HungUp(c)'
    BY <1>10 DEF CommandFailed, OneReport, Over, HungUp, Messages, Put, Take
  <2>3. OrderlyClient(c)'
    BY <1>10
       DEF CommandFailed, OrderlyClient, DataPhase, Put, Take, NetworkTypeOK
  <2> QED
    BY <1>1, <1>10, <2>1, <2>2, <2>3 DEF CommandFailed, Progress, WiredSession
<1>11. CASE CommandReadNothing(c)
  BY <1>11 DEF CommandReadNothing, Over
<1>12. CASE CommandError(c)
  BY <1>12 DEF CommandError, OrderlyClient, AllBodyLines
<1> QED
  BY <1>4, <1>5, <1>6, <1>7, <1>8, <1>9, <1>10, <1>11, <1>12 DEF CommandStep

\* Every step of a main loop makes progress.
LEMMA MainProgress ==
  ASSUME TypeOK, Wired, Handshake, PoliteInv, ~chStop, NEW c \in Conns, MainStep(c)
  PROVE  Progress(c)
<1>1. ~MainStop(c)
  BY DEF MainStop
<1>2. /\ OneReport(c) /\ OrderlyClient(c) /\ WiredSession(c)
      /\ cmdPc[c] = "await" <=> mainPc[c] \in ExecutingPcs
      /\ cmdConn[c] \in {NoConn, c} /\ mainConn[c] \in {NoConn, c}
      /\ c \in goodbye => CommandsEnded(c)
      /\ c \in closed /\ mainPc[c] # "none" => CommandsEnded(c)
      /\ mainPc[c] # "none" /\ ~Over(c) => CurrentConn(c) = c
  BY SessionFacts
<1>3. NoConn \notin Conns
  BY NetworkAssumption
<1> USE <1>2, <1>3 DEF TypeOK, WorkerTypeOK, GoTo, cmdVars, poolVars,
        localVars, sharedVars, networkVars, CommandsEnded, ExecutingPcs
<1>4. CASE WorkStart(c)
  <2>1. \A d \in Conns \ {c} : SessionUnchanged(d) /\ ClientUnchanged(d)
    BY <1>4
       DEF WorkStart, SessionUnchanged, ClientUnchanged, NetworkTypeOK, Put,
           Take
  <2>2. /\ OneReport(c)'
        /\ CommandsEnded(c) => CommandsEnded(c)'
        /\ Over(c) => Over(c)'
        /\ HungUp(c) => HungUp(c)'
    BY <1>4
       DEF WorkStart, OneReport, Over, HungUp, Messages, HangUpPcs, Put, Take
  <2>3. OrderlyClient(c)'
    BY <1>4 DEF WorkStart, OrderlyClient, DataPhase, NetworkTypeOK, Put, Take
  <2> QED  BY <1>4, <2>1, <2>2, <2>3 DEF WorkStart, Progress, WiredSession
<1>5. CASE MainQuit(c)
  <2> CurrentConn(c) = c
    BY <1>5 DEF MainQuit, Take, Over
  <2> CommandsEnded(c) /\ Messages(c) = 1
    BY <1>5 DEF MainQuit, Take, OneReport, Messages
  <2>1. \A d \in Conns \ {c} : SessionUnchanged(d) /\ ClientUnchanged(d)
    BY <1>5
       DEF MainQuit, SayGoodbye, SetState, SessionUnchanged, ClientUnchanged,
           NetworkTypeOK, Put, Take
  <2>2. /\ OneReport(c)'
        /\ CommandsEnded(c) => CommandsEnded(c)'
        /\ Over(c) => Over(c)'
        /\ HungUp(c) => HungUp(c)'
    BY <1>5
       DEF MainQuit, OneReport, Over, HungUp, Messages, HangUpPcs, Put, Take
  <2>3. OrderlyClient(c)'
    BY <1>5
       DEF MainQuit, SayGoodbye, SetState, OrderlyClient, DataPhase,
           NetworkTypeOK, Put, Take
  <2> QED
    BY <1>5, <2>1, <2>2, <2>3
       DEF MainQuit, SayGoodbye, SetState, Progress, WiredSession
<1>6. CASE MainError(c)
  <2> CurrentConn(c) = c
    BY <1>6 DEF MainError, Take, Over
  <2> CommandsEnded(c) /\ Messages(c) = 1
    BY <1>6 DEF MainError, Take, OneReport, Messages
  <2>1. \A d \in Conns \ {c} : SessionUnchanged(d) /\ ClientUnchanged(d)
    BY <1>6
       DEF MainError, SayGoodbye, SetState, SessionUnchanged, ClientUnchanged,
           NetworkTypeOK, Put, Take
  <2>2. /\ OneReport(c)'
        /\ CommandsEnded(c) => CommandsEnded(c)'
        /\ Over(c) => Over(c)'
        /\ HungUp(c) => HungUp(c)'
    BY <1>6
       DEF MainError, OneReport, Over, HungUp, Messages, HangUpPcs, Put, Take
  <2>3. OrderlyClient(c)'
    BY <1>6
       DEF MainError, SayGoodbye, SetState, OrderlyClient, DataPhase,
           NetworkTypeOK, Put, Take
  <2> QED
    BY <1>6, <2>1, <2>2, <2>3
       DEF MainError, SayGoodbye, SetState, Progress, WiredSession
<1>7. CASE MainHangUp(c)
  <2> mainPc[c] = "hangup" /\ CurrentConn(c) = c
    BY <1>7 DEF MainHangUp, OneReport, Over
  <2>1. \A d \in Conns \ {c} : SessionUnchanged(d) /\ ClientUnchanged(d)
    BY <1>7
       DEF MainHangUp, SessionUnchanged, ClientUnchanged, NetworkTypeOK, Put,
           Take
  <2>2. /\ OneReport(c)'
        /\ CommandsEnded(c) => CommandsEnded(c)'
        /\ Over(c) => Over(c)'
        /\ HungUp(c) => HungUp(c)'
    BY <1>7
       DEF MainHangUp, OneReport, Over, HungUp, Messages, HangUpPcs, Put, Take
  <2>3. OrderlyClient(c)'
    BY <1>7 DEF MainHangUp, OrderlyClient, DataPhase, NetworkTypeOK, Put, Take
  <2> QED  BY <1>7, <2>1, <2>2, <2>3 DEF MainHangUp, Progress, WiredSession
<1>8. CASE MainClose(c)
  <2> mainPc[c] = "closing" /\ mainConn[c] = c /\ CommandsEnded(c) /\ Messages(c) = 0
    BY <1>8 DEF MainClose, OneReport, WiredSession, HangUpPcs, Messages
  <2>1. \A d \in Conns \ {c} : SessionUnchanged(d) /\ ClientUnchanged(d)
    BY <1>8
       DEF MainClose, SessionUnchanged, ClientUnchanged, NetworkTypeOK, Put,
           Take
  <2>2. /\ OneReport(c)'
        /\ CommandsEnded(c) => CommandsEnded(c)'
        /\ Over(c) => Over(c)'
        /\ HungUp(c) => HungUp(c)'
    BY <1>8
       DEF MainClose, OneReport, Over, HungUp, Messages, HangUpPcs, Put, Take
  <2>3. OrderlyClient(c)'
    BY <1>8 DEF MainClose, OrderlyClient, DataPhase, NetworkTypeOK, Put, Take
  <2>4. HungUp(c)'
    BY <1>8 DEF MainClose, HungUp, Messages
  <2> QED
    BY <1>8, <2>1, <2>2, <2>3, <2>4 DEF MainClose, Progress, WiredSession
<1>9. CASE MainRejoin(c)
  <2> CommandsEnded(c) /\ Messages(c) = 0
    BY <1>9 DEF MainRejoin, OneReport, HangUpPcs, Messages
  <2>1. \A d \in Conns \ {c} : SessionUnchanged(d) /\ ClientUnchanged(d)
    BY <1>9
       DEF MainRejoin, JoinQueue, SessionUnchanged, ClientUnchanged,
           NetworkTypeOK, Put, Take
  <2>2. /\ OneReport(c)'
        /\ CommandsEnded(c) => CommandsEnded(c)'
        /\ Over(c) => Over(c)'
        /\ HungUp(c) => HungUp(c)'
    BY <1>9
       DEF MainRejoin, OneReport, Over, HungUp, Messages, HangUpPcs, Put, Take
  <2>3. OrderlyClient(c)'
    BY <1>9
       DEF MainRejoin, JoinQueue, OrderlyClient, DataPhase, NetworkTypeOK, Put,
           Take
  <2> QED
    BY <1>9, <2>1, <2>2, <2>3
       DEF MainRejoin, JoinQueue, Progress, WiredSession, Over, Messages
<1>10. CASE MainCommand(c)
  <2> CurrentConn(c) = c
    BY <1>10 DEF MainCommand, Over
  <2>a. PICK pc \in Outcomes(c, cmdLine[c]) :
          mainPc[c] = "select" /\ mainPc' = [mainPc EXCEPT ![c] = pc]
    BY <1>10 DEF MainCommand
  <2>b. pc \in {"data", "done", "fail"} /\ (cmdLine[c] = "data" => pc = "data")
    BY <2>a, OutcomeValues
  <2> USE <2>a, <2>b
  <2>1. \A d \in Conns \ {c} : SessionUnchanged(d) /\ ClientUnchanged(d)
    BY <1>10
       DEF MainCommand, SessionUnchanged, ClientUnchanged, NetworkTypeOK, Put,
           Take
  <2>2. /\ OneReport(c)'
        /\ CommandsEnded(c) => CommandsEnded(c)'
        /\ Over(c) => Over(c)'
        /\ HungUp(c) => HungUp(c)'
    BY <1>10
       DEF MainCommand, OneReport, Over, HungUp, Messages, HangUpPcs, Put, Take
  <2>3. OrderlyClient(c)'
    BY <1>10
       DEF MainCommand, OrderlyClient, DataPhase, NetworkTypeOK, Put, Take
  <2> QED  BY <1>10, <2>1, <2>2, <2>3 DEF MainCommand, Progress, WiredSession
<1>11. CASE DataSetDeadline(c)
  <2> mainConn[c] = c
    BY <1>11 DEF DataSetDeadline, WiredSession
  <2>1. \A d \in Conns \ {c} : SessionUnchanged(d) /\ ClientUnchanged(d)
    BY <1>11
       DEF DataSetDeadline, ExtendDeadline, SessionUnchanged, ClientUnchanged,
           NetworkTypeOK, Put, Take
  <2>2. /\ OneReport(c)'
        /\ CommandsEnded(c) => CommandsEnded(c)'
        /\ Over(c) => Over(c)'
        /\ HungUp(c) => HungUp(c)'
    BY <1>11
       DEF DataSetDeadline, OneReport, Over, HungUp, Messages, HangUpPcs, Put,
           Take
  <2>3. OrderlyClient(c)'
    BY <1>11
       DEF DataSetDeadline, ExtendDeadline, OrderlyClient, DataPhase,
           NetworkTypeOK, Put, Take
  <2> QED
    BY <1>11, <2>1, <2>2, <2>3
       DEF DataSetDeadline, ExtendDeadline, Progress, WiredSession
<1>12. CASE DataEnterRead(c)
  <2> mainConn[c] = c
    BY <1>12 DEF DataEnterRead, WiredSession
  <2>1. \A d \in Conns \ {c} : SessionUnchanged(d) /\ ClientUnchanged(d)
    BY <1>12
       DEF DataEnterRead, EnterRead, SessionUnchanged, ClientUnchanged,
           NetworkTypeOK, Put, Take
  <2>2. /\ OneReport(c)'
        /\ CommandsEnded(c) => CommandsEnded(c)'
        /\ Over(c) => Over(c)'
        /\ HungUp(c) => HungUp(c)'
    BY <1>12
       DEF DataEnterRead, OneReport, Over, HungUp, Messages, HangUpPcs, Put,
           Take
  <2>3. OrderlyClient(c)'
    BY <1>12
       DEF DataEnterRead, EnterRead, OrderlyClient, DataPhase, NetworkTypeOK,
           Put, Take
  <2> QED
    BY <1>12, <2>1, <2>2, <2>3
       DEF DataEnterRead, EnterRead, Progress, WiredSession
<1>13. CASE DataReadRefused(c)
  <2> mainConn[c] = c
    BY <1>13 DEF DataReadRefused, WiredSession
  <2>1. \A d \in Conns \ {c} : SessionUnchanged(d) /\ ClientUnchanged(d)
    BY <1>13
       DEF DataReadRefused, SessionUnchanged, ClientUnchanged, NetworkTypeOK,
           Put, Take
  <2>2. /\ OneReport(c)'
        /\ CommandsEnded(c) => CommandsEnded(c)'
        /\ Over(c) => Over(c)'
        /\ HungUp(c) => HungUp(c)'
    BY <1>13
       DEF DataReadRefused, OneReport, Over, HungUp, Messages, HangUpPcs, Put,
           Take
  <2>3. OrderlyClient(c)'
    BY <1>13
       DEF DataReadRefused, OrderlyClient, DataPhase, NetworkTypeOK, Put, Take
  <2> QED
    BY <1>13, <2>1, <2>2, <2>3 DEF DataReadRefused, Progress, WiredSession
<1>14. CASE DataRead(c)
  <2> mainConn[c] = c
    BY <1>14 DEF DataRead, WiredSession
  <2>a. PICK result \in WaitResults(c) :
          /\ LeaveRead(c, result)
          /\ mainPc' = [mainPc EXCEPT ![c] = AfterDataRead(result)]
          /\ mainConn' = IF AfterDataRead(result) = "data" THEN mainConn
                         ELSE [mainConn EXCEPT ![c] = NoConn]
    BY <1>14 DEF DataRead
  <2>b. /\ AfterDataRead(result) \in {"data", "deliver", "fail"}
        /\ AfterDataRead(result) = "deliver" <=> result = "body"
    BY DEF AfterDataRead, AllCommandLines
  <2>c. \/ result = "error" \/ result = "timeout"
        \/ result = inbox[c] /\ inbox[c] # NoLine
    BY <2>a DEF WaitResults
  <2> USE <2>a, <2>b, <2>c
  <2>1. \A d \in Conns \ {c} : SessionUnchanged(d) /\ ClientUnchanged(d)
    BY <1>14
       DEF DataRead, LeaveRead, SessionUnchanged, ClientUnchanged,
           NetworkTypeOK, Put, Take
  <2>2. /\ OneReport(c)'
        /\ CommandsEnded(c) => CommandsEnded(c)'
        /\ Over(c) => Over(c)'
        /\ HungUp(c) => HungUp(c)'
    BY <1>14
       DEF DataRead, OneReport, Over, HungUp, Messages, HangUpPcs, Put, Take
  <2>3. OrderlyClient(c)'
    BY <1>14
       DEF DataRead, LeaveRead, OrderlyClient, DataPhase, NetworkTypeOK, Put,
           Take, NoLine, AllBodyLines, AllCommandLines
  <2> QED
    BY <1>14, <2>1, <2>2, <2>3 DEF DataRead, LeaveRead, Progress, WiredSession
<1>15. CASE MainDeliver(c)
  <2>1. \A d \in Conns \ {c} : SessionUnchanged(d) /\ ClientUnchanged(d)
    BY <1>15
       DEF MainDeliver, SessionUnchanged, ClientUnchanged, NetworkTypeOK, Put,
           Take
  <2>2. /\ OneReport(c)'
        /\ CommandsEnded(c) => CommandsEnded(c)'
        /\ Over(c) => Over(c)'
        /\ HungUp(c) => HungUp(c)'
    BY <1>15
       DEF MainDeliver, OneReport, Over, HungUp, Messages, HangUpPcs, Put, Take
  <2>3. OrderlyClient(c)'
    BY <1>15
       DEF MainDeliver, OrderlyClient, DataPhase, NetworkTypeOK, Put, Take
  <2> QED  BY <1>15, <2>1, <2>2, <2>3 DEF MainDeliver, Progress, WiredSession
<1>16. CASE MainDone(c)
  <2>1. \A d \in Conns \ {c} : SessionUnchanged(d) /\ ClientUnchanged(d)
    BY <1>16
       DEF MainDone, SessionUnchanged, ClientUnchanged, NetworkTypeOK, Put,
           Take
  <2>2. /\ OneReport(c)'
        /\ CommandsEnded(c) => CommandsEnded(c)'
        /\ Over(c) => Over(c)'
        /\ HungUp(c) => HungUp(c)'
    BY <1>16
       DEF MainDone, OneReport, Over, HungUp, Messages, HangUpPcs, Put, Take
  <2>3. OrderlyClient(c)'
    BY <1>16 DEF MainDone, OrderlyClient, DataPhase, NetworkTypeOK, Put, Take
  <2> QED  BY <1>16, <2>1, <2>2, <2>3 DEF MainDone, Progress, WiredSession
<1>17. CASE MainFail(c)
  <2>1. \A d \in Conns \ {c} : SessionUnchanged(d) /\ ClientUnchanged(d)
    BY <1>17
       DEF MainFail, SessionUnchanged, ClientUnchanged, NetworkTypeOK, Put,
           Take
  <2>2. /\ OneReport(c)'
        /\ CommandsEnded(c) => CommandsEnded(c)'
        /\ Over(c) => Over(c)'
        /\ HungUp(c) => HungUp(c)'
    BY <1>17
       DEF MainFail, OneReport, Over, HungUp, Messages, HangUpPcs, Put, Take
  <2>3. OrderlyClient(c)'
    BY <1>17 DEF MainFail, OrderlyClient, DataPhase, NetworkTypeOK, Put, Take
  <2> QED  BY <1>17, <2>1, <2>2, <2>3 DEF MainFail, Progress, WiredSession
<1>18. CASE MainFailDone(c)
  <2>1. \A d \in Conns \ {c} : SessionUnchanged(d) /\ ClientUnchanged(d)
    BY <1>18
       DEF MainFailDone, SessionUnchanged, ClientUnchanged, NetworkTypeOK, Put,
           Take
  <2>2. /\ OneReport(c)'
        /\ CommandsEnded(c) => CommandsEnded(c)'
        /\ Over(c) => Over(c)'
        /\ HungUp(c) => HungUp(c)'
    BY <1>18
       DEF MainFailDone, OneReport, Over, HungUp, Messages, HangUpPcs, Put,
           Take
  <2>3. OrderlyClient(c)'
    BY <1>18
       DEF MainFailDone, OrderlyClient, DataPhase, NetworkTypeOK, Put, Take
  <2> QED  BY <1>18, <2>1, <2>2, <2>3 DEF MainFailDone, Progress, WiredSession
<1> QED
  BY <1>1, <1>4, <1>5, <1>6, <1>7, <1>8, <1>9, <1>10, <1>11, <1>12, <1>13,
     <1>14, <1>15, <1>16, <1>17, <1>18
     DEF MainStep

\* A step that touches no session and no worker preserves what PoliteInv says
\* of them.
LEMMA QuietPreserves ==
  ASSUME TypeOK, PoliteInv, ~chStop, UNCHANGED <<goodbye, poolVars, mainVars, cmdVars, localVars>>
  PROVE  /\ ExclusiveWorkers' /\ OwnUntilGoodbye' /\ PreparedForOwn'
         /\ \A d \in Conns : /\ OneReport(d)'
                             /\ CommandsEnded(d)' <=> CommandsEnded(d)
                             /\ HungUp(d)' <=> HungUp(d)
         /\ UNCHANGED <<inbox, inData, hungUp>> => \A d \in Conns : OrderlyClient(d)'
<1> USE DEF PoliteInv, SessionsInv
<1>1. \A d \in Conns : SessionUnchanged(d)
  BY DEF SessionUnchanged, mainVars, cmdVars, localVars
<1>2. \A d \in Conns : Over(d)' <=> Over(d)
  BY <1>1, Frame
<1>3. ExclusiveWorkers'
  BY <1>2 DEF ExclusiveWorkers, Serves, poolVars
<1>4. OwnUntilGoodbye'
  BY <1>1, Frame DEF OwnUntilGoodbye, SessionUnchanged
<1>5. PreparedForOwn'
  BY <1>2 DEF PreparedForOwn, Serves, poolVars
<1>6. ASSUME UNCHANGED <<inbox, inData, hungUp>>
      PROVE  \A d \in Conns : OrderlyClient(d)'
  BY <1>1, <1>6, FrameClient DEF ClientUnchanged
<1> QED  BY <1>1, <1>3, <1>4, <1>5, <1>6, Frame

\* A step of a polite client leaves every client orderly.
LEMMA ClientPreserves ==
  ASSUME TypeOK, Wired, Handshake, PoliteInv, Polite, ~chStop,
         NEW c \in Conns, ClientSend(c) \/ ClientHangUp(c),
         UNCHANGED <<poolVars, mainVars, cmdVars, localVars>>
  PROVE  \A d \in Conns : OrderlyClient(d)'
<1>1. \A d \in Conns : SessionUnchanged(d)
  BY DEF SessionUnchanged, mainVars, cmdVars, localVars
<1>2. \A d \in Conns \ {c} : ClientUnchanged(d)
  BY DEF ClientSend, ClientHangUp, ClientUnchanged, TypeOK, NetworkTypeOK
<1>3. OrderlyClient(c) /\ (c \in goodbye => CommandsEnded(c))
  BY SessionFacts
<1>4. CommandsEnded(c)' <=> CommandsEnded(c)
  BY <1>1, Frame
<1>5. DataPhase(c)' <=> DataPhase(c)
  BY <1>1, Frame
<1>6. CASE ClientSend(c)
  <2>1. PICK line \in NextLines(c) :
          /\ inbox' = [inbox EXCEPT ![c] = line]
          /\ inData' = IF line = "data" THEN inData \cup {c} ELSE inData \ {c}
    BY <1>6 DEF ClientSend
  <2>2. inbox'[c] = line /\ c \notin hungUp' /\ inbox[c] = NoLine
    BY <1>6, <2>1 DEF ClientSend, TypeOK, NetworkTypeOK
  <2>3. cmdPc'[c] = "got" => cmdLine'[c] \in {"ok", "bad", "data", "quit", "timeout"}
    BY <1>1, <1>3 DEF OrderlyClient, SessionUnchanged
  <2>4. OrderlyClient(c)'
    <3>1. CASE c \in inData
      <4>1. line \in AllBodyLines /\ line # "data" /\ DataPhase(c)
        BY <1>3, <2>1, <2>2, <3>1, NetworkAssumption
           DEF NextLines, OrderlyClient, NoLine, AllBodyLines
      <4>2. c \notin inData' /\ line \notin AllCommandLines
        BY <2>1, <4>1 DEF AllBodyLines, AllCommandLines
      <4> QED  BY <1>5, <2>2, <2>3, <4>1, <4>2 DEF OrderlyClient
    <3>2. CASE c \notin inData
      <4>1. line \in CommandLines /\ line \notin AllBodyLines
        BY <2>1, <3>2, NetworkAssumption
           DEF NextLines, AllBodyLines, AllCommandLines
      <4>2. c \in inData' => line = "data"
        BY <2>1, <3>2
      <4> QED  BY <2>2, <2>3, <4>1, <4>2 DEF OrderlyClient
    <3> QED  BY <3>1, <3>2
  <2> QED  BY <1>1, <1>2, <2>4, FrameClient DEF PoliteInv, SessionsInv
<1>7. CASE ClientHangUp(c)
  <2>1. c \in inData \/ CommandsEnded(c)
    BY <1>3, <1>7 DEF ClientHangUp, HangUpPoint, Polite
  <2>2. UNCHANGED <<inbox, inData>> /\ SessionUnchanged(c)
    BY <1>1, <1>7 DEF ClientHangUp
  <2>3. OrderlyClient(c)'
    BY <1>3, <1>4, <1>5, <2>1, <2>2 DEF OrderlyClient, SessionUnchanged
  <2> QED  BY <1>1, <1>2, <2>3, FrameClient DEF PoliteInv, SessionsInv
<1> QED  BY <1>6, <1>7

\* Accepting a connection, or refusing it, preserves OrderlyClose.
LEMMA AcceptPreserves ==
  ASSUME TypeOK, Wired, PoliteInv, ~chStop, NEW c \in Conns, Accept(c)
  PROVE  OrderlyClose'
<1>1. \A d \in Conns : HungUp(d)' <=> HungUp(d)
  BY QuietPreserves DEF Accept, New, CloseConnection, networkVars
<1>2. OrderlyClose
  BY DEF PoliteInv, SessionsInv
<1>3. sessionWorker[c] = NoWorker /\ c \notin closed /\ newConn = NoConn /\ mainPc[c] = "none"
  BY <1>2 DEF Accept, New, OrderlyClose, Wired, WiredSession
<1>4. UNCHANGED <<closeChannel, managerPc, managerConn, connectionPool, sessionWorker, mainPc>>
        /\ accepted' = accepted \cup {c}
  BY DEF Accept, New, poolVars, mainVars, sharedVars
<1>5. CASE Tracked(c)
  <2>1. closed' = closed \cup {c} /\ UNCHANGED newConn
    BY <1>5 DEF Accept, New, CloseConnection
  <2> QED  BY <1>1, <1>2, <1>3, <1>4, <2>1 DEF OrderlyClose
<1>6. CASE ~Tracked(c)
  <2>1. closed' = closed /\ newConn' = c
    BY <1>6 DEF Accept, New, networkVars
  <2> QED
    BY <1>1, <1>2, <1>3, <1>4, <1>6, <2>1, NetworkAssumption
       DEF OrderlyClose, Tracked
<1> QED  BY <1>5, <1>6

\* The closing goroutine closes a connection that has hung up, and no other.
LEMMA ManagerPreserves ==
  ASSUME TypeOK, Wired, PoliteInv, ~chStop, ManagerStep, UNCHANGED accepted
  PROVE  OrderlyClose'
<1>1. \A d \in Conns : HungUp(d)' <=> HungUp(d)
  BY QuietPreserves
     DEF ManagerStep, ManagerReceive, ManagerClose, ManagerStop,
         CloseConnection, ExpireDeadline, networkVars, workerVars
<1>2. OrderlyClose
  BY DEF PoliteInv, SessionsInv
<1>3. UNCHANGED <<connectionPool, newConn, sessionWorker, mainPc>>
  BY DEF ManagerStep, ManagerReceive, ManagerClose, ManagerStop, workerVars,
         poolVars, mainVars
<1>4. CASE ManagerReceive
  <2>1. closeChannel \in Seq(Conns) /\ closeChannel # <<>> /\ closeChannel' = Tail(closeChannel)
    BY <1>4 DEF ManagerReceive, TypeOK, WorkerTypeOK
  <2>2. /\ Head(closeChannel) = closeChannel[1] /\ 1 \in 1..Len(closeChannel)
        /\ \A i \in 1..Len(closeChannel') :
             i + 1 \in 1..Len(closeChannel) /\ closeChannel'[i] = closeChannel[i + 1]
    BY <2>1
  <2>3. closed' = closed /\ (managerPc' = "probe" => managerConn' = Head(closeChannel))
    BY <1>4 DEF ManagerReceive, ExpireDeadline, networkVars
  <2> QED  BY <1>1, <1>2, <1>3, <2>2, <2>3 DEF OrderlyClose, Tracked
<1>5. CASE ManagerClose
  <2>1. managerConn \in Conns /\ HungUp(managerConn)
    BY <1>2, <1>5 DEF ManagerClose, Wired, OrderlyClose
  <2>2. sessionWorker[managerConn] # NoWorker /\ managerConn # newConn
    BY <1>2, <2>1, NetworkAssumption
       DEF OrderlyClose, HungUp, Wired, WiredSession
  <2>3. connectionPool[RemoteAddr[managerConn]] = managerConn /\ managerConn \in accepted
    BY <1>2, <2>1, <2>2 DEF OrderlyClose
  <2>4. closed' = closed \cup {managerConn} /\ managerPc' # "probe" /\ UNCHANGED closeChannel
    BY <1>5, <2>3 DEF ManagerClose, CloseConnection, sharedVars
  <2> QED
    BY <1>1, <1>2, <1>3, <2>1, <2>2, <2>3, <2>4 DEF OrderlyClose, Tracked
<1>6. CASE ManagerStop
  BY <1>6 DEF ManagerStop
<1> QED  BY <1>4, <1>5, <1>6 DEF ManagerStep

\* Taking a worker from the pool for a new connection preserves PoliteInv.
LEMMA NewGetsWorkerPreserves ==
  ASSUME TypeOK, Wired, TypeOK', Wired', PoliteInv, ~chStop, NewGetsWorker, UNCHANGED accepted
  PROVE  PoliteInv'
<1>1. PICK w \in Workers : NextWorker(w, newConn)
  BY DEF NewGetsWorker
<1>2. newConn \in Conns /\ newConn # NoConn /\ sessionWorker[newConn] = NoWorker
  BY DEF NewGetsWorker, TypeOK, ManagerTypeOK
<1>3. /\ OrderlyClose /\ PreparedForOwn
      /\ \A d \in Conns : OneReport(d) /\ OrderlyClient(d)
  BY DEF PoliteInv, SessionsInv
<1>4. \A d \in Conns : SessionUnchanged(d) /\ ClientUnchanged(d)
  BY DEF NewGetsWorker, SessionUnchanged, ClientUnchanged, networkVars,
         mainVars, cmdVars, localVars
<1>5. /\ \A d \in Conns : Over(d)' <=> Over(d)
      /\ \A d \in Conns : HungUp(d)' <=> HungUp(d)
      /\ \A d \in Conns : CommandsEnded(d)' <=> CommandsEnded(d)
  BY <1>4, Frame
<1>6. \A d \in Conns : OneReport(d)' /\ OrderlyClient(d)'
  BY <1>3, <1>4, Frame, FrameClient
<1>7. OwnUntilGoodbye'
  BY <1>4, <1>5 DEF PoliteInv, OwnUntilGoodbye, SessionUnchanged, ClientUnchanged
<1>8. /\ w = pool[1] /\ 1 \in 1..Len(pool)
      /\ \A i \in 1..Len(pool') : /\ i + 1 \in 1..Len(pool)
                                  /\ pool'[i] = pool[i + 1]
                                  /\ pool'[i] \in Workers
      /\ sessionWorker' = [sessionWorker EXCEPT ![newConn] = w]
      /\ workerConn' = [workerConn EXCEPT ![w] = newConn]
  BY <1>1 DEF NextWorker, Prepare, TypeOK, ServerPoolTypeOK
<1>9. \A d \in Conns : sessionWorker[d] = w => Over(d)
  BY <1>8 DEF PoliteInv, ExclusiveWorkers, Serves
<1>10. PreparedForOwn'
  <2>1. SUFFICES ASSUME NEW d \in Conns, NEW v \in Workers, sessionWorker'[d] = v, ~Over(d)'
                 PROVE  workerConn'[v] = d
    BY DEF PreparedForOwn, Serves
  <2>2. CASE d = newConn
    BY <1>2, <1>8, <2>1, <2>2 DEF TypeOK, ServerPoolTypeOK
  <2>3. CASE d # newConn
    BY <1>2, <1>3, <1>5, <1>8, <1>9, <2>1, <2>3
       DEF PreparedForOwn, Serves, TypeOK, ServerPoolTypeOK
  <2> QED  BY <2>2, <2>3
<1>11. ExclusiveWorkers'
  <2>1. \A i, j \in 1..Len(pool') : pool'[i] = pool'[j] => i = j
    BY <1>8 DEF PoliteInv, ExclusiveWorkers
  <2>2. \A d \in Conns, i \in 1..Len(pool') : sessionWorker'[d] = pool'[i] => Over(d)'
    BY <1>2, <1>5, <1>8
       DEF PoliteInv, ExclusiveWorkers, Serves, TypeOK, ServerPoolTypeOK
  <2>3. \A d, e \in Conns, v \in Workers :
           sessionWorker'[d] = v /\ ~Over(d)' /\ sessionWorker'[e] = v /\ ~Over(e)' => d = e
    BY <1>2, <1>5, <1>8, <1>9
       DEF PoliteInv, ExclusiveWorkers, Serves, TypeOK, ServerPoolTypeOK
  <2> QED  BY <2>1, <2>2, <2>3 DEF ExclusiveWorkers, Serves
<1>12. OrderlyClose'
  BY <1>2, <1>3, <1>5, <1>8
     DEF OrderlyClose, NewGetsWorker, managerVars, networkVars, mainVars,
         sharedVars, Tracked, TypeOK, ServerPoolTypeOK
<1> QED  BY <1>6, <1>7, <1>10, <1>11, <1>12 DEF PoliteInv, SessionsInv

\* Every step of New preserves PoliteInv.
LEMMA NewPreserves ==
  ASSUME TypeOK, Wired, TypeOK', Wired', PoliteInv, ~chStop, NewStep, UNCHANGED accepted
  PROVE  PoliteInv'
<1>1. CASE NewGetsWorker
  BY <1>1, NewGetsWorkerPreserves
<1>2. newConn \in Conns /\ newConn # NoConn /\ OrderlyClose
  BY DEF NewStep, NewGetsWorker, NewGetsNoWorker, NewTracks, TypeOK,
         ManagerTypeOK, PoliteInv, SessionsInv
<1>3. CASE NewGetsNoWorker
  <2>1. /\ UNCHANGED <<goodbye, inbox, inData, hungUp, poolVars, mainVars, cmdVars,
                       localVars, sharedVars, connectionPool, managerPc, managerConn>>
        /\ closed' = closed \cup {newConn}
        /\ newConn' = NoConn
        /\ sessionWorker[newConn] = NoWorker
    BY <1>3 DEF NewGetsNoWorker, NoWorkerAvailable, CloseConnection
  <2>2. /\ ExclusiveWorkers' /\ OwnUntilGoodbye' /\ PreparedForOwn'
        /\ \A d \in Conns : OneReport(d)' /\ OrderlyClient(d)'
        /\ \A d \in Conns : HungUp(d)' <=> HungUp(d)
    BY <2>1, QuietPreserves
  <2>3. OrderlyClose'
    BY <1>2, <2>1, <2>2 DEF OrderlyClose, poolVars, mainVars, sharedVars
  <2> QED  BY <2>2, <2>3 DEF PoliteInv, SessionsInv
<1>4. CASE NewTracks
  <2> PICK n \in Conns : n = newConn
    BY <1>2
  <2>1. /\ mainPc[n] = "none" /\ mainPc' = [mainPc EXCEPT ![n] = "start"]
        /\ connectionPool' = [connectionPool EXCEPT ![RemoteAddr[n]] = n]
        /\ UNCHANGED <<networkVars, poolVars, mainConn, cmdVars, localVars, sharedVars,
                       managerPc, managerConn>>
        /\ newConn' = NoConn
    BY <1>4 DEF NewTracks, GoTo
  <2>2. \A d \in Conns \ {n} : SessionUnchanged(d)
    BY <2>1 DEF SessionUnchanged, cmdVars, localVars, TypeOK, WorkerTypeOK
  <2>3. \A d \in Conns : ClientUnchanged(d)
    BY <2>1 DEF ClientUnchanged, networkVars
  <2>4. cmdPc[n] = "none" /\ cmdPc'[n] = "none" /\ mainPc'[n] = "start"
    BY <1>2, <2>1 DEF Wired, WiredSession, cmdVars, TypeOK, WorkerTypeOK
  <2>5. ~CommandsEnded(n) /\ ~CommandsEnded(n)'
    BY <2>4 DEF CommandsEnded
  <2>6. /\ \A d \in Conns : CommandsEnded(d)' <=> CommandsEnded(d)
        /\ \A d \in Conns : Over(d)' <=> Over(d)
        /\ \A d \in Conns : HungUp(d)' <=> HungUp(d)
    BY <2>2, <2>5, Frame DEF Over, HungUp
  <2>7. \A d \in Conns : OneReport(d)' /\ OrderlyClient(d)'
    <3>1. OneReport(n)'
      BY <1>2, <2>1, <2>4, <2>5
         DEF PoliteInv, SessionsInv, OneReport, HangUpPcs, Messages, localVars,
             cmdVars
    <3>2. OrderlyClient(n)'
      BY <1>2, <2>1, <2>4, <2>5
         DEF PoliteInv, SessionsInv, OrderlyClient, DataPhase, networkVars
    <3>3. ASSUME NEW d \in Conns \ {n}
          PROVE  OneReport(d)' /\ OrderlyClient(d)'
      BY <2>2, <2>3, Frame, FrameClient DEF PoliteInv, SessionsInv
    <3> QED  BY <3>1, <3>2, <3>3
  <2>8. ExclusiveWorkers'
    BY <2>1, <2>6 DEF PoliteInv, ExclusiveWorkers, Serves, poolVars
  <2>9. OwnUntilGoodbye'
    BY <2>1, <2>3, <2>6 DEF PoliteInv, OwnUntilGoodbye, cmdVars, ClientUnchanged
  <2>10. PreparedForOwn'
    BY <2>1, <2>6 DEF PoliteInv, SessionsInv, PreparedForOwn, Serves, poolVars
  <2>11. OrderlyClose'
    <3>1. \A d \in Conns : mainPc[d] # "none" => mainPc'[d] # "none"
      BY <2>1 DEF TypeOK, WorkerTypeOK
    <3>2. \A d \in Conns : connectionPool[RemoteAddr[d]] = d => connectionPool'[RemoteAddr[d]] = d
      BY <1>2, <2>1, ConnectionManagerAssumption, NetworkAssumption
         DEF OrderlyClose, Tracked, TypeOK, ManagerTypeOK
    <3>3. connectionPool'[RemoteAddr[n]] = n
      BY <1>2, <2>1, ConnectionManagerAssumption DEF TypeOK, ManagerTypeOK
    <3>4. /\ newConn' = NoConn
          /\ UNCHANGED <<closed, sessionWorker, closeChannel, managerPc, managerConn>>
      BY <2>1 DEF networkVars, poolVars, sharedVars
    <3> QED  BY <1>2, <2>4, <2>6, <3>1, <3>2, <3>3, <3>4 DEF OrderlyClose
  <2> QED  BY <2>7, <2>8, <2>9, <2>10, <2>11 DEF PoliteInv, SessionsInv
<1> QED  BY <1>1, <1>3, <1>4 DEF NewStep

\* A step that touches no session preserves PoliteInv when it preserves its
\* parts about clients and about closing.
LEMMA QuietStep ==
  ASSUME TypeOK, PoliteInv, ~chStop, OrderlyClose',
         UNCHANGED <<goodbye, poolVars, mainVars, cmdVars, localVars>>,
         \A d \in Conns : OrderlyClient(d)'
  PROVE  PoliteInv'
BY QuietPreserves DEF PoliteInv, SessionsInv

\* PoliteInv holds in the initial state.
LEMMA InitPolite == Init => PoliteInv
<1> SUFFICES ASSUME Init PROVE PoliteInv
  OBVIOUS
<1> USE DEF Init, NetworkInit, ServerPoolInit, WorkerInit, ManagerInit
<1>1. \A c \in Conns : /\ sessionWorker[c] = NoWorker /\ mainPc[c] = "none" /\ cmdPc[c] = "none"
                         /\ mainConn[c] = NoConn /\ cmdConn[c] = NoConn
                         /\ quitChannel[c] = 0 /\ workerErrorChannel[c] = 0
                         /\ quitCommandChannel[c] = 0
                         /\ inbox[c] = NoLine /\ ~CommandsEnded(c)
  BY DEF CommandsEnded
<1>2. \A w \in Workers, c \in Conns : ~Serves(w, c)
  BY <1>1, ServerPoolAssumption DEF Serves
<1>3. Cardinality(Workers) \in Nat /\ pool \in Seq(Workers)
  BY FS_CardinalityType, ServerPoolAssumption
<1>4. \A i \in 1..Len(pool) : pool[i] \in Workers
  BY <1>3
<1>5. Len(pool) = Cardinality(Workers)
  BY <1>3
<1>6. ExclusiveWorkers
  BY <1>2, <1>4, <1>5 DEF ExclusiveWorkers
<1>7. OwnUntilGoodbye
  BY <1>1 DEF OwnUntilGoodbye
<1>8. \A c \in Conns : OneReport(c) /\ OrderlyClient(c)
  <2> SUFFICES ASSUME NEW c \in Conns  PROVE OneReport(c) /\ OrderlyClient(c)
    OBVIOUS
  <2>1. OneReport(c)
    BY <1>1 DEF OneReport, Messages, HangUpPcs
  <2>2. OrderlyClient(c)
    BY <1>1 DEF OrderlyClient, NoLine, AllCommandLines, AllBodyLines
  <2> QED  BY <2>1, <2>2
<1>9. OrderlyClose
  BY <1>1 DEF OrderlyClose
<1>10. PreparedForOwn
  BY <1>2 DEF PreparedForOwn
<1> QED  BY <1>6, <1>7, <1>8, <1>9, <1>10 DEF PoliteInv, SessionsInv

\* Every step preserves PoliteInv when clients are polite.
LEMMA StepPolite ==
  ASSUME Polite, TypeOK, Wired, Handshake, PoliteInv, [Next]_vars
  PROVE  PoliteInv'
<1>1. TypeOK' /\ Wired'
  BY StepTypes, StepWired
<1>2. CASE chStop'
  BY <1>2 DEF PoliteInv, ExclusiveWorkers, OwnUntilGoodbye
<1>3. SUFFICES ASSUME ~chStop' PROVE PoliteInv'
  BY <1>2
<1>4. ASSUME NEW c \in Conns, CommandGoroutine(c)  PROVE PoliteInv'
  <2>1. ~chStop /\ UNCHANGED <<chStop, managerVars, accepted>>
    BY <1>3, <1>4
       DEF CommandGoroutine, CommandStep, CommandQuit, CommandReadNothing,
           CommandSetDeadline, CommandEnterRead, CommandReadRefused,
           CommandRead, CommandEnd, CommandError, CommandFailed, sharedVars,
           serverVars
  <2> QED
    BY <1>1, <1>4, <2>1, CommandProgress, ProgressPreserves
       DEF CommandGoroutine
<1>5. ASSUME NEW c \in Conns, MainGoroutine(c)  PROVE PoliteInv'
  <2>1. ~chStop /\ UNCHANGED <<chStop, managerVars, accepted>>
    BY <1>3, <1>5
       DEF MainGoroutine, MainStep, WorkStart, MainStop, MainQuit, MainError,
           MainHangUp, MainClose, MainRejoin, MainCommand, DataSetDeadline,
           DataEnterRead, DataReadRefused, DataRead, MainDeliver, MainDone,
           MainFail, MainFailDone, sharedVars, serverVars
  <2> QED
    BY <1>1, <1>5, <2>1, MainProgress, ProgressPreserves DEF MainGoroutine
<1>6. CASE AcceptGoroutine
  <2>1. ~chStop /\ UNCHANGED accepted
    BY <1>3, <1>6
       DEF AcceptGoroutine, NewStep, NewGetsWorker, NewGetsNoWorker, NewTracks,
           sharedVars, serverVars
  <2> QED  BY <1>1, <1>6, <2>1, NewPreserves DEF AcceptGoroutine
<1>7. CASE ManagerGoroutine
  <2>1. /\ ~chStop /\ UNCHANGED accepted
        /\ UNCHANGED <<inbox, inData, hungUp, goodbye, poolVars, mainVars, cmdVars, localVars>>
    BY <1>3, <1>7
       DEF ManagerGoroutine, ManagerStep, ManagerReceive, ManagerClose,
           ManagerStop, ExpireDeadline, CloseConnection, workerVars,
           networkVars, sharedVars, serverVars
  <2>2. OrderlyClose'
    BY <1>7, <2>1, ManagerPreserves DEF ManagerGoroutine
  <2> QED  BY <2>1, <2>2, QuietPreserves, QuietStep
<1>8. ASSUME NEW c \in Conns, Accept(c)  PROVE PoliteInv'
  <2>1. /\ ~chStop
        /\ UNCHANGED <<inbox, inData, hungUp, goodbye, poolVars, mainVars, cmdVars, localVars>>
    BY <1>3, <1>8 DEF Accept, New, CloseConnection, networkVars, sharedVars
  <2>2. OrderlyClose'
    BY <1>8, <2>1, AcceptPreserves
  <2> QED  BY <2>1, <2>2, QuietPreserves, QuietStep
<1>9. ASSUME ~chStop, UNCHANGED <<goodbye, poolVars, mainVars, cmdVars, localVars, closed, accepted,
                                  closeChannel, managerVars>>
      PROVE  OrderlyClose'
  <2>1. \A d \in Conns : HungUp(d)' <=> HungUp(d)
    BY <1>9, QuietPreserves
  <2>2. OrderlyClose
    BY <1>9 DEF PoliteInv, SessionsInv
  <2>3. UNCHANGED <<sessionWorker, mainPc, connectionPool, managerPc, managerConn, newConn>>
    BY <1>9 DEF managerVars, poolVars, mainVars
  <2> QED  BY <1>9, <2>1, <2>2, <2>3 DEF OrderlyClose, Tracked
<1>10. ASSUME NEW c \in Conns, ClientStep(c)  PROVE PoliteInv'
  <2>1. /\ ~chStop
        /\ UNCHANGED <<goodbye, poolVars, mainVars, cmdVars, localVars, closed, accepted,
                       closeChannel, managerVars>>
    BY <1>3, <1>10
       DEF ClientStep, ClientSend, ClientHangUp, sharedVars, serverVars
  <2>2. \A d \in Conns : OrderlyClient(d)'
    BY <1>10, <2>1, ClientPreserves DEF ClientStep
  <2> QED  BY <1>9, <2>1, <2>2, QuietStep
<1>11. CASE \/ \E c \in Conns : Timer(c)
            \/ Receive \/ ReceiversStop \/ CloseListener \/ Crash \/ UNCHANGED vars
  <2>1. /\ ~chStop
        /\ UNCHANGED <<inbox, inData, hungUp, goodbye, poolVars, mainVars, cmdVars,
                       localVars, closed, accepted, closeChannel, managerVars>>
    BY <1>3, <1>11
       DEF Timer, IdleTimeout, Receive, ReceiversStop, CloseListener, Crash,
           vars, workerVars, networkVars, sharedVars, serverVars
  <2> QED  BY <1>9, <2>1, QuietPreserves, QuietStep
<1>12. CASE StopService
  BY <1>3, <1>12 DEF StopService
<1> QED
  BY <1>4, <1>5, <1>6, <1>7, <1>8, <1>10, <1>11, <1>12 DEF Next, SessionStep

\* PoliteInv is an invariant when clients are polite.
LEMMA PoliteInvariant == ASSUME Polite PROVE Spec => []PoliteInv
<1>1. TypeOK /\ Wired /\ Handshake /\ PoliteInv /\ [Next]_vars => PoliteInv'
  BY StepPolite
<1> QED  BY InitPolite, <1>1, CommonInvariant, PTL DEF Spec

\* While the service runs and clients are polite, no worker serves two
\* connections, and none is in the pool twice or while it is in use (worker.go,
\* serverpool.go NextWorker and JoinQueue).
THEOREM WorkersAreExclusive == ASSUME Polite PROVE Spec => []ExclusiveWorkers
BY PoliteInvariant, PTL DEF PoliteInv

\* While the service runs and clients are polite, what a session reads comes from
\* its own client, and what it answers, says goodbye to and closes is its own
\* client's connection (worker.go, Work).
THEOREM ConnectionsAreOwn == ASSUME Polite PROVE Spec => []OwnConnection
<1>1. TypeOK /\ Wired /\ Handshake /\ PoliteInv => OwnConnection
  <2> SUFFICES ASSUME TypeOK, Wired, Handshake, PoliteInv, ~chStop, NEW c \in Conns
               PROVE  /\ cmdConn[c] \in {NoConn, c} /\ mainConn[c] \in {NoConn, c}
                      /\ mainPc[c] \in {"hangup"} \cup ExecutingPcs => CurrentConn(c) = c
    BY DEF OwnConnection
  <2>1. mainPc[c] \in {"hangup"} \cup ExecutingPcs => mainPc[c] # "none" /\ ~Over(c)
    BY DEF ExecutingPcs, Over
  <2> QED  BY <2>1, SessionFacts
<1> QED  BY <1>1, PoliteInvariant, CommonInvariant, PTL

\* Only a shutdown closes the stop channel.
LEMMA StopChannel ==
  ASSUME [Next]_vars
  PROVE  StopService \/ UNCHANGED chStop
<1> USE DEF sharedVars
<1>1. ASSUME NEW c \in Conns, CommandStep(c)  PROVE UNCHANGED chStop
  BY <1>1
     DEF CommandStep, CommandQuit, CommandReadNothing, CommandSetDeadline,
         CommandEnterRead, CommandReadRefused, CommandRead, CommandEnd,
         CommandError, CommandFailed
<1>2. ASSUME NEW c \in Conns, MainStep(c)  PROVE UNCHANGED chStop
  BY <1>2
     DEF MainStep, WorkStart, MainStop, MainQuit, MainError, MainHangUp,
         MainClose, MainRejoin, MainCommand, DataSetDeadline, DataEnterRead,
         DataReadRefused, DataRead, MainDeliver, MainDone, MainFail,
         MainFailDone
<1>3. ASSUME NEW c \in Conns, Accept(c) \/ ClientStep(c) \/ Timer(c)  PROVE UNCHANGED chStop
  BY <1>3 DEF Accept, New, ClientStep, Timer
<1>4. CASE NewStep \/ ManagerStep
  BY <1>4
     DEF NewStep, NewGetsWorker, NewGetsNoWorker, NewTracks, ManagerStep,
         ManagerReceive, ManagerClose, ManagerStop, workerVars
<1>5. CASE Receive \/ ReceiversStop \/ CloseListener \/ Crash \/ UNCHANGED vars
  BY <1>5 DEF Receive, ReceiversStop, CloseListener, Crash, vars, workerVars
<1> QED
  BY <1>1, <1>2, <1>3, <1>4, <1>5
     DEF Next, SessionStep, CommandGoroutine, MainGoroutine, AcceptGoroutine,
         ManagerGoroutine

\* A service that is not shut down keeps its stop channel open.
LEMMA NeverStopped == ASSUME ~CanStop PROVE Spec => []~chStop
<1>1. Init => ~chStop
  BY DEF Init, WorkerInit
<1>2. ~chStop /\ [Next]_vars => ~chStop'
  BY StopChannel DEF StopService
<1> QED  BY <1>1, <1>2, PTL DEF Spec

\* Only a refusal, and the closing goroutine, close connections.
LEMMA ClosedSteps ==
  ASSUME TypeOK, [Next]_vars
  PROVE  \/ UNCHANGED closed
         \/ \E c \in Conns : Accept(c)
         \/ NewGetsNoWorker \/ ManagerClose
<1> USE DEF networkVars
<1>1. ASSUME NEW c \in Conns, CommandStep(c)  PROVE UNCHANGED closed
  BY <1>1
     DEF CommandStep, CommandQuit, CommandReadNothing, CommandSetDeadline,
         CommandEnterRead, CommandReadRefused, CommandRead, CommandEnd,
         CommandError, CommandFailed, ExtendDeadline, EnterRead, LeaveRead
<1>2. ASSUME NEW c \in Conns, MainStep(c)  PROVE UNCHANGED closed
  BY <1>2
     DEF MainStep, WorkStart, MainStop, MainQuit, MainError, MainHangUp,
         MainClose, MainRejoin, MainCommand, DataSetDeadline, DataEnterRead,
         DataReadRefused, DataRead, MainDeliver, MainDone, MainFail,
         MainFailDone, ExtendDeadline, EnterRead, LeaveRead, SayGoodbye
<1>3. ASSUME NEW c \in Conns, ClientStep(c) \/ Timer(c)  PROVE UNCHANGED closed
  BY <1>3 DEF ClientStep, ClientSend, ClientHangUp, Timer, IdleTimeout
<1>4. CASE NewGetsWorker \/ NewTracks \/ ManagerReceive \/ ManagerStop
  BY <1>4
     DEF NewGetsWorker, NewTracks, ManagerReceive, ManagerStop, ExpireDeadline,
         workerVars
<1>5. CASE Receive \/ ReceiversStop \/ StopService \/ CloseListener \/ Crash \/ UNCHANGED vars
  BY <1>5
     DEF Receive, ReceiversStop, StopService, CloseListener, Crash, vars,
         workerVars
<1> QED
  BY <1>1, <1>2, <1>3, <1>4, <1>5
     DEF Next, SessionStep, CommandGoroutine, MainGoroutine, AcceptGoroutine,
         ManagerGoroutine, NewStep, ManagerStep

\* When clients are polite and the service is not shut down, no connection is
\* closed while its session still reads or executes commands (connection.go Close,
\* worker.go Work).
THEOREM NothingClosedInService == ASSUME Polite, ~CanStop PROVE Spec => NoCloseInService
<1> DEFINE Orderly == \A c \in closed' \ closed :
       sessionWorker[c] # NoWorker => CommandsEnded(c) /\ mainPc[c] \notin ExecutingPcs
<1>1. ASSUME TypeOK, Wired, PoliteInv, ~chStop, [Next]_vars
      PROVE  Orderly
  <2>1. OrderlyClose
    BY <1>1 DEF PoliteInv, SessionsInv
  <2>2. ASSUME NEW c \in Conns, Accept(c)
        PROVE  Orderly
    <3>1. sessionWorker[c] = NoWorker
      BY <2>1, <2>2 DEF Accept, OrderlyClose
    <3>2. closed' \subseteq closed \cup {c}
      BY <2>2 DEF Accept, New, CloseConnection, networkVars
    <3> QED  BY <3>1, <3>2
  <2>3. CASE NewGetsNoWorker
    BY <2>3 DEF NewGetsNoWorker, CloseConnection
  <2>4. CASE ManagerClose
    <3>1. managerConn \in Conns /\ HungUp(managerConn)
      BY <1>1, <2>1, <2>4 DEF ManagerClose, Wired, OrderlyClose
    <3>2. sessionWorker[managerConn] # NoWorker /\ managerConn # newConn
      BY <1>1, <2>1, <3>1, NetworkAssumption
         DEF OrderlyClose, HungUp, Wired, WiredSession
    <3>3. closed' = closed \cup {managerConn}
      BY <2>1, <2>4, <3>1, <3>2 DEF ManagerClose, CloseConnection, OrderlyClose
    <3> QED  BY <3>1, <3>3 DEF HungUp, ExecutingPcs
  <2> QED  BY <1>1, <2>2, <2>3, <2>4, ClosedSteps
<1>2. TypeOK /\ Wired /\ PoliteInv /\ ~chStop /\ [Next]_vars => [Orderly]_vars
  BY <1>1
<1> QED
  BY <1>2, CommonInvariant, PoliteInvariant, NeverStopped, PTL
     DEF Spec, NoCloseInService

-----------------------------------------------------------------------------
(* The service implements WorkerAllocation. *)

\* What is running.
Running == TypeOK /\ Wired /\ Handshake /\ PoliteInv /\ ~chStop

\* Owner is the session a worker serves, if there is one.
LEMMA OwnerIs ==
  ASSUME ExclusiveWorkers, ~chStop, NEW w \in Workers
  PROVE  /\ \A c \in Conns : Serves(w, c) => Owner(w) = c
         /\ (\A c \in Conns : ~Serves(w, c)) => Owner(w) = NoConn
<1>1. ASSUME NEW c \in Conns, Serves(w, c) PROVE Owner(w) = c
  <2>1. \A d \in Conns : Serves(w, d) => d = c
    BY <1>1 DEF ExclusiveWorkers
  <2> QED BY <1>1, <2>1 DEF Owner
<1> QED BY <1>1 DEF Owner

\* And after a step.
LEMMA OwnerIsNext ==
  ASSUME ExclusiveWorkers', ~chStop', NEW w \in Workers
  PROVE  /\ \A c \in Conns : Serves(w, c)' => Owner(w)' = c
         /\ (\A c \in Conns : ~Serves(w, c)') => Owner(w)' = NoConn
<1>1. ASSUME NEW c \in Conns, Serves(w, c)' PROVE Owner(w)' = c
  <2>1. \A d \in Conns : Serves(w, d)' => d = c
    BY <1>1 DEF ExclusiveWorkers
  <2> QED BY <1>1, <2>1 DEF Owner
<1> QED BY <1>1 DEF Owner

\* A worker whose sessions have not changed has not changed hands.
LEMMA OwnerKept ==
  ASSUME ExclusiveWorkers, ~chStop, ExclusiveWorkers', ~chStop', NEW w \in Workers,
         \A c \in Conns : Serves(w, c)' <=> Serves(w, c)
  PROVE  Owner(w)' = Owner(w)
<1>1. CASE \E c \in Conns : Serves(w, c)
  <2>1. PICK c \in Conns : Serves(w, c)
    BY <1>1
  <2>2. Owner(w) = c
    BY <2>1, OwnerIs
  <2>3. Serves(w, c)'
    BY <2>1
  <2>4. Owner(w)' = c
    BY <2>3, OwnerIsNext
  <2> QED BY <2>2, <2>4
<1>2. CASE \A c \in Conns : ~Serves(w, c)
  <2>1. Owner(w) = NoConn
    BY <1>2, OwnerIs
  <2>2. \A c \in Conns : ~Serves(w, c)'
    BY <1>2
  <2>3. Owner(w)' = NoConn
    BY <2>2, OwnerIsNext
  <2> QED BY <2>1, <2>3
<1> QED BY <1>1, <1>2

\* A session is over only when its main loop comes back from rejoining the pool: whoever
\* else gets to the loops' beginnings has left a message, or was there before.
LEMMA OverByRejoining ==
  ASSUME Running, NEW c \in Conns, CommandStep(c) \/ MainStep(c), Over(c)', ~Over(c)
  PROVE  MainRejoin(c)
<1>1. /\ OneReport(c) /\ ~chStop
      /\ cmdPc[c] = "await" <=> mainPc[c] \in ExecutingPcs
  BY SessionFacts DEF Running
<1>2. /\ mainPc \in [Conns -> MainPcs] /\ cmdPc \in [Conns -> CmdPcs]
      /\ quitChannel \in [Conns -> 0..LocalCap]
      /\ quitCommandChannel \in [Conns -> 0..LocalCap]
      /\ workerErrorChannel \in [Conns -> 0..LocalCap]
  BY DEF Running, TypeOK, WorkerTypeOK
<1> USE DEF Over, CommandsEnded, GoTo, Put, Take, mainVars, localVars
<1>3. CASE CommandStep(c)
  <2>1. ~(CommandReadNothing(c) \/ CommandSetDeadline(c) \/ CommandEnterRead(c))
    BY <1>2 DEF CommandReadNothing, CommandSetDeadline, CommandEnterRead
  <2>2. ~(CommandReadRefused(c) \/ CommandRead(c))
    BY <1>2 DEF CommandReadRefused, CommandRead
  <2>3. ~(CommandEnd(c) \/ CommandError(c))
    BY <1>2 DEF CommandEnd, CommandError
  <2>4. ~(CommandQuit(c) \/ CommandFailed(c))
    BY <1>2 DEF CommandQuit, CommandFailed
  <2> QED BY <1>3, <2>1, <2>2, <2>3, <2>4 DEF CommandStep
<1>4. CASE MainStep(c)
  <2>1. ~(WorkStart(c) \/ MainDone(c))
    BY <1>1, <1>2 DEF WorkStart, MainDone, OneReport, ExecutingPcs
  <2>2. ~(MainStop(c) \/ MainQuit(c) \/ MainError(c) \/ MainHangUp(c))
    BY <1>1, <1>2 DEF MainStop, MainQuit, MainError, MainHangUp
  <2>3. ~MainClose(c)
    BY <1>1, <1>2 DEF MainClose, OneReport
  <2>4. ~MainCommand(c)
    <3>1. ASSUME NEW pc \in Outcomes(c, cmdLine[c]) PROVE pc # "select"
      BY <3>1, OutcomeValues
    <3> QED BY <1>2, <3>1 DEF MainCommand
  <2>5. ~(DataSetDeadline(c) \/ DataEnterRead(c) \/ DataReadRefused(c) \/ DataRead(c))
    BY <1>2 DEF DataSetDeadline, DataEnterRead, DataReadRefused, DataRead, AfterDataRead
  <2>6. ~(MainDeliver(c) \/ MainFail(c))
    BY <1>2 DEF MainDeliver, MainFail
  <2>7. ~MainFailDone(c)
    BY <1>1, <1>2 DEF MainFailDone, OneReport, Messages
  <2> QED BY <1>4, <2>1, <2>2, <2>3, <2>4, <2>5, <2>6, <2>7 DEF MainStep
<1> QED BY <1>3, <1>4

\* A step after which the same workers wait, the same sessions have workers and the same
\* sessions are over is none of the allocation's.
LEMMA Unallocated ==
  ASSUME Running, PoliteInv', ~chStop', UNCHANGED <<pool, sessionWorker, crashed>>,
         \A c \in Conns : sessionWorker[c] # NoWorker => (Over(c)' <=> Over(c))
  PROVE  UNCHANGED Allocation!vars
<1>1. ASSUME NEW w \in Workers PROVE Owner(w)' = Owner(w)
  <2>1. ASSUME NEW c \in Conns PROVE Serves(w, c)' <=> Serves(w, c)
    BY ServerPoolAssumption DEF Serves
  <2> QED BY <2>1, OwnerKept DEF Running, PoliteInv
<1>2. [w \in Workers |-> Owner(w)]' = [w \in Workers |-> Owner(w)]
  BY <1>1
<1>3. {c \in Conns : sessionWorker[c] # NoWorker}' = {c \in Conns : sessionWorker[c] # NoWorker}
  OBVIOUS
<1> QED BY <1>2, <1>3 DEF Allocation!vars

\* The two goroutines of a session give its worker back once.
LEMMA SessionGivesBack ==
  ASSUME Running, PoliteInv', ~chStop', ~crashed, UNCHANGED crashed,
         NEW c \in Conns, CommandStep(c) \/ MainStep(c), Progress(c)
  PROVE  [Allocation!Next]_(Allocation!vars)
<1>1. /\ \A d \in Conns \ {c} : Over(d)' <=> Over(d)
      /\ Over(c) => Over(c)'
      /\ sessionWorker' = sessionWorker
      /\ mainPc[c] # "none"
  BY Frame DEF Progress
<1>2. sessionWorker[c] \in Workers
  BY <1>1 DEF Running, Wired, WiredSession, TypeOK, ServerPoolTypeOK
<1>3. CASE MainRejoin(c)
  <2>0. PICK w \in Workers : w = sessionWorker[c]
    BY <1>2
  <2>1. pool' = Append(pool, w) /\ mainPc[c] = "rejoin"
    BY <1>3, <2>0 DEF MainRejoin, JoinQueue, GoTo
  <2>2. pool' # pool
    <3>1. pool \in Seq(Workers)
      BY DEF Running, TypeOK, ServerPoolTypeOK
    <3>2. Len(pool') = Len(pool) + 1 /\ Len(pool) \in Nat
      BY <2>1, <3>1
    <3> QED BY <3>2
  <2>3. Over(c)' /\ ~Over(c)
    BY <2>1, <2>2 DEF Progress, Over
  <2>4. Serves(w, c)
    BY <2>0, <2>3 DEF Serves
  <2>5. \A d \in Conns : Serves(w, d) => d = c
    BY <2>4 DEF Running, PoliteInv, ExclusiveWorkers
  <2>6. \A d \in Conns : ~Serves(w, d)'
    BY <1>1, <2>3, <2>5 DEF Serves
  <2>7. Owner(w) = c /\ Owner(w)' = NoConn /\ Owner(w) # NoConn
    BY <2>4, <2>6, OwnerIs, OwnerIsNext, NetworkAssumption DEF Running, PoliteInv
  <2>8. ASSUME NEW v \in Workers, v # w PROVE Owner(v)' = Owner(v)
    <3>1. ASSUME NEW d \in Conns PROVE Serves(v, d)' <=> Serves(v, d)
      BY <1>1, <2>0, <2>8 DEF Serves
    <3> QED BY <3>1, OwnerKept DEF Running, PoliteInv
  <2>9. [v \in Workers |-> Owner(v)]' = [[v \in Workers |-> Owner(v)] EXCEPT ![w] = NoConn]
    BY <2>7, <2>8
  <2>10. [v \in Workers |-> Owner(v)][w] # NoConn
    BY <2>7
  <2>11. Allocation!GiveBack(w)
    BY <1>1, <2>1, <2>9, <2>10 DEF Allocation!GiveBack
  <2> QED BY <2>11 DEF Allocation!Next
<1>4. CASE ~MainRejoin(c)
  <2>1. Over(c)' <=> Over(c)
    BY <1>1, <1>4, OverByRejoining
  <2>2. UNCHANGED pool
    <3>1. CASE CommandStep(c)
      BY <3>1 DEF CommandStep, CommandQuit, CommandReadNothing, CommandSetDeadline,
         CommandEnterRead, CommandReadRefused, CommandRead, CommandEnd, CommandError,
         CommandFailed, poolVars
    <3>2. CASE MainStep(c)
      BY <1>4, <3>2 DEF MainStep, WorkStart, MainStop, MainQuit, MainError, MainHangUp,
         MainClose, MainCommand, DataSetDeadline, DataEnterRead, DataReadRefused, DataRead,
         MainDeliver, MainDone, MainFail, MainFailDone, SetState, poolVars
    <3> QED BY <3>1, <3>2
  <2> QED BY <1>1, <2>1, <2>2, Unallocated
<1> QED BY <1>3, <1>4

\* New lends the worker that has waited longest.
LEMMA NewLends ==
  ASSUME Running, PoliteInv', ~chStop', ~crashed, UNCHANGED crashed, NewGetsWorker
  PROVE  [Allocation!Next]_(Allocation!vars)
<1>1. /\ newConn \in Conns /\ sessionWorker[newConn] = NoWorker
      /\ pool \in Seq(Workers) /\ pool # <<>>
      /\ sessionWorker \in [Conns -> Workers \cup {NoWorker}]
  BY DEF NewGetsWorker, NextWorker, Running, TypeOK, ManagerTypeOK, ServerPoolTypeOK
<1>2. PICK c \in Conns, w \in Workers : c = newConn /\ w = Head(pool)
  BY <1>1
<1>3. /\ pool' = Tail(pool)
      /\ sessionWorker' = [sessionWorker EXCEPT ![c] = w]
      /\ UNCHANGED <<mainVars, cmdVars, localVars>>
  BY <1>2 DEF NewGetsWorker, NextWorker
<1>4. \A d \in Conns : ~Serves(w, d)
  <2>1. w = pool[1] /\ 1 \in 1..Len(pool)
    BY <1>1, <1>2
  <2> QED BY <2>1 DEF Running, PoliteInv, ExclusiveWorkers
<1>5. \A d \in Conns : Over(d)' <=> Over(d)
  BY <1>3, Frame DEF SessionUnchanged, mainVars, cmdVars, localVars
<1>6. ~Over(c)
  <2>1. mainPc[c] = "none"
    BY <1>2, NetworkAssumption DEF Running, PoliteInv, SessionsInv, OrderlyClose
  <2> QED BY <2>1 DEF Over
<1>7. Serves(w, c)'
  BY <1>1, <1>3, <1>5, <1>6 DEF Serves
<1>8. Owner(w) = NoConn /\ Owner(w)' = c
  BY <1>4, <1>7, OwnerIs, OwnerIsNext DEF Running, PoliteInv
<1>9. ASSUME NEW v \in Workers, v # w PROVE Owner(v)' = Owner(v)
  <2>1. ASSUME NEW d \in Conns PROVE Serves(v, d)' <=> Serves(v, d)
    BY <1>1, <1>2, <1>3, <1>5, <1>9, ServerPoolAssumption DEF Serves
  <2> QED BY <2>1, OwnerKept DEF Running, PoliteInv
<1>10. [v \in Workers |-> Owner(v)]' = [[v \in Workers |-> Owner(v)] EXCEPT ![w] = c]
  BY <1>8, <1>9
<1>11. [v \in Workers |-> Owner(v)][w] = NoConn
  BY <1>8
<1>12. {d \in Conns : sessionWorker[d] # NoWorker}'
         = {d \in Conns : sessionWorker[d] # NoWorker} \cup {c}
  BY <1>1, <1>3, ServerPoolAssumption
<1>13. c \notin {d \in Conns : sessionWorker[d] # NoWorker}
  BY <1>1, <1>2
<1>14. Allocation!Lend(w, c)
  BY <1>1, <1>2, <1>3, <1>10, <1>11, <1>12, <1>13 DEF Allocation!Lend
<1> QED BY <1>14 DEF Allocation!Next

LEMMA StepAllocates ==
  ASSUME Polite, Running, ~chStop', [Next]_vars
  PROVE  [Allocation!Next]_(Allocation!vars)
<1>1. PoliteInv'
  BY StepPolite DEF Running
<1>2. ASSUME UNCHANGED <<pool, sessionWorker, mainVars, cmdVars, localVars, crashed>>
      PROVE  UNCHANGED Allocation!vars
  <2>1. \A c \in Conns : Over(c)' <=> Over(c)
    BY <1>2, Frame DEF SessionUnchanged, mainVars, cmdVars, localVars
  <2> QED BY <1>1, <1>2, <2>1, Unallocated
<1>3. ASSUME NEW c \in Conns, CommandGoroutine(c) \/ MainGoroutine(c)
      PROVE  [Allocation!Next]_(Allocation!vars)
  <2>1. Progress(c)
    BY <1>3, CommandProgress, MainProgress DEF Running, CommandGoroutine, MainGoroutine
  <2> QED
    BY <1>1, <1>3, <2>1, SessionGivesBack DEF CommandGoroutine, MainGoroutine, serverVars
<1>4. CASE AcceptGoroutine
  <2>1. CASE NewGetsWorker
    BY <1>1, <1>4, <2>1, NewLends DEF AcceptGoroutine, serverVars
  <2>2. CASE NewGetsNoWorker
    BY <1>2, <1>4, <2>2 DEF AcceptGoroutine, NewGetsNoWorker, NoWorkerAvailable, poolVars,
                            serverVars
  <2>3. CASE NewTracks
    <3>1. newConn \in Conns /\ mainPc[newConn] = "none" /\ UNCHANGED <<poolVars, cmdVars, localVars, crashed>>
      BY <1>4, <2>3 DEF AcceptGoroutine, NewTracks, GoTo, serverVars, Running, TypeOK,
                        ManagerTypeOK
    <3>2. mainPc' = [mainPc EXCEPT ![newConn] = "start"] /\ mainPc \in [Conns -> MainPcs]
      BY <2>3 DEF NewTracks, GoTo, Running, TypeOK, WorkerTypeOK
    <3>3. ASSUME NEW c \in Conns PROVE Over(c)' <=> Over(c)
      <4>1. CASE c = newConn
        BY <3>1, <3>2, <4>1 DEF Over
      <4>2. CASE c # newConn
        BY <3>1, <3>2, <4>2 DEF Over, CommandsEnded, cmdVars, localVars
      <4> QED BY <4>1, <4>2
    <3> QED BY <1>1, <3>1, <3>3, Unallocated DEF poolVars
  <2> QED BY <1>4, <2>1, <2>2, <2>3 DEF AcceptGoroutine, NewStep
<1>5. ASSUME NEW c \in Conns, Accept(c) \/ ClientStep(c) \/ Timer(c)
      PROVE  UNCHANGED Allocation!vars
  BY <1>2, <1>5 DEF Accept, New, ClientStep, Timer, poolVars, serverVars
<1>6. CASE ManagerGoroutine
  BY <1>2, <1>6 DEF ManagerGoroutine, ManagerStep, ManagerReceive, ManagerClose, ManagerStop,
                    workerVars, poolVars, serverVars
<1>7. CASE Receive \/ ReceiversStop \/ StopService \/ CloseListener \/ UNCHANGED vars
  BY <1>2, <1>7 DEF Receive, ReceiversStop, StopService, CloseListener, vars, workerVars,
                    poolVars, serverVars
<1>8. CASE Crash
  <2>1. UNCHANGED <<pool, sessionWorker, mainVars, cmdVars, localVars>>
    BY <1>8 DEF Crash, workerVars, poolVars
  <2>2. \A c \in Conns : Over(c)' <=> Over(c)
    BY <2>1, Frame DEF SessionUnchanged, mainVars, cmdVars, localVars
  <2>3. ASSUME NEW w \in Workers PROVE Owner(w)' = Owner(w)
    <3>1. \A c \in Conns : Serves(w, c)' <=> Serves(w, c)
      BY <2>1, <2>2 DEF Serves
    <3> QED BY <1>1, <3>1, OwnerKept DEF Running, PoliteInv
  <2>4. /\ [w \in Workers |-> Owner(w)]' = [w \in Workers |-> Owner(w)]
        /\ {c \in Conns : sessionWorker[c] # NoWorker}'
             = {c \in Conns : sessionWorker[c] # NoWorker}
    BY <2>1, <2>3
  <2>5. Allocation!Halt
    BY <1>8, <2>1, <2>4 DEF Crash, Allocation!Halt
  <2> QED BY <2>5 DEF Allocation!Next
<1> QED
  BY <1>3, <1>4, <1>5, <1>6, <1>7, <1>8 DEF Next, SessionStep

\* Taking a worker from the pool, serving a connection with two goroutines and rejoining
\* the pool amount to lending the worker that has been idle longest and getting it back
\* once, whatever polite clients do (serverpool.go NextWorker and JoinQueue, worker.go
\* Work).
THEOREM ServiceAllocates == ASSUME Polite, ~CanStop PROVE Spec => Allocation!Spec
<1>1. Init => Allocation!Init
  <2> SUFFICES ASSUME Init PROVE Allocation!Init
    OBVIOUS
  <2>1. \A c \in Conns : sessionWorker[c] = NoWorker
    BY DEF Init, ServerPoolInit
  <2>2. ASSUME NEW w \in Workers PROVE Owner(w) = NoConn
    BY <2>1, ServerPoolAssumption DEF Owner, Serves
  <2>3. [w \in Workers |-> Owner(w)] = [w \in Workers |-> NoConn]
    BY <2>2
  <2>4. {c \in Conns : sessionWorker[c] # NoWorker} = {}
    BY <2>1
  <2>5. /\ pool \in [1..Cardinality(Workers) -> Workers]
        /\ \A i, j \in 1..Cardinality(Workers) : pool[i] = pool[j] => i = j
        /\ crashed = FALSE
    BY DEF Init, ServerPoolInit
  <2>6. Allocation!Cardinality(Workers) = Cardinality(Workers)
    BY Zenon DEF Allocation!Cardinality, Cardinality
  <2> QED BY <2>3, <2>4, <2>5, <2>6 DEF Allocation!Init
<1>2. /\ TypeOK /\ Wired /\ Handshake /\ PoliteInv /\ ~chStop /\ ~chStop' /\ [Next]_vars
      => [Allocation!Next]_(Allocation!vars)
  BY StepAllocates DEF Running
<1> QED
  BY <1>1, <1>2, CommonInvariant, PoliteInvariant, NeverStopped, PTL
     DEF Spec, Allocation!Spec

-----------------------------------------------------------------------------
(* Room, and no worker lost. *)

\* A pool without the worker w, and without doubles, has a place for it.
LEMMA PlaceLeft ==
  ASSUME NEW w \in Workers, pool \in Seq(Workers),
         \A i, j \in 1..Len(pool) : pool[i] = pool[j] => i = j,
         \A i \in 1..Len(pool) : pool[i] # w
  PROVE  Len(pool) < Cardinality(Workers)
<1> DEFINE n == Len(pool)
           others == Workers \ {w}
<1>1. n \in Nat /\ pool \in [1..n -> others]
  OBVIOUS
<1>2. IsFiniteSet(1..n) /\ Cardinality(1..n) = n
  BY <1>1, FS_Interval
<1>3. /\ IsFiniteSet(others) /\ Cardinality(others) = Cardinality(Workers) - 1
      /\ Cardinality(Workers) \in Nat
  BY ServerPoolAssumption, FS_RemoveElement, FS_CardinalityType
<1>4. ~(Cardinality(others) < n)
  <2> HIDE DEF n, others
  <2> SUFFICES ASSUME Cardinality(others) < n PROVE FALSE
    OBVIOUS
  <2>1. \E i, j \in 1..n : i # j /\ pool[i] = pool[j]
    BY <1>1, <1>2, <1>3, FS_PigeonHole
  <2> QED BY <2>1 DEF n
<1> QED BY <1>1, <1>3, <1>4

\* The main loop of a polite session has no message to itself when it is about to send
\* one, the command goroutine has none left when it sends, and the worker of a session
\* that hangs up is not in the pool (worker.go Work, rejoinWorkerQueue): no bounded channel
\* can make these senders wait.
THEOREM SendersFindRoom == ASSUME Polite PROVE Spec => []RoomToSend
<1>1. TypeOK /\ Wired /\ Handshake /\ PoliteInv => RoomToSend
  <2> SUFFICES ASSUME TypeOK, Wired, Handshake, PoliteInv, ~chStop, NEW c \in Conns
               PROVE  /\ mainPc[c] = "fail" => workerErrorChannel[c] < LocalCap
                      /\ cmdPc[c] = "got" => /\ quitChannel[c] < LocalCap
                                             /\ quitCommandChannel[c] < LocalCap
                                             /\ workerErrorChannel[c] < LocalCap
                      /\ cmdPc[c] = "failed" => quitCommandChannel[c] < LocalCap
                      /\ mainPc[c] = "rejoin" => Len(pool) < Cardinality(Workers)
    BY DEF RoomToSend
  <2>1. OneReport(c) /\ WiredSession(c)
    BY SessionFacts
  <2>2. /\ quitChannel[c] \in Nat /\ workerErrorChannel[c] \in Nat
        /\ quitCommandChannel[c] \in Nat /\ LocalCap \in Nat /\ LocalCap > 0
    BY WorkerAssumption DEF TypeOK, WorkerTypeOK
  <2>3. mainPc[c] = "fail" \/ cmdPc[c] = "got" =>
          quitChannel[c] = 0 /\ workerErrorChannel[c] = 0
    <3> SUFFICES ASSUME mainPc[c] = "fail" \/ cmdPc[c] = "got"
                 PROVE  quitChannel[c] = 0 /\ workerErrorChannel[c] = 0
      OBVIOUS
    <3>1. mainPc[c] # "failDone"
      BY DEF Handshake, ExecutingPcs
    <3>2. Messages(c) = 0
      BY <2>1, <3>1 DEF OneReport, CommandsEnded
    <3> QED BY <2>2, <3>2 DEF Messages
  <2>4. cmdPc[c] \in {"got", "failed"} => quitCommandChannel[c] = 0
    BY <2>1 DEF OneReport
  <2>5. mainPc[c] = "rejoin" => Len(pool) < Cardinality(Workers)
    <3> SUFFICES ASSUME mainPc[c] = "rejoin" PROVE Len(pool) < Cardinality(Workers)
      OBVIOUS
    <3>1. PICK w \in Workers : w = sessionWorker[c]
      BY <2>1 DEF WiredSession, TypeOK, ServerPoolTypeOK
    <3>2. Serves(w, c)
      BY <3>1 DEF Serves, Over
    <3>3. /\ \A i, j \in 1..Len(pool) : pool[i] = pool[j] => i = j
          /\ \A i \in 1..Len(pool) : pool[i] # w
      BY <3>2 DEF PoliteInv, ExclusiveWorkers
    <3> QED BY <3>3, PlaceLeft DEF TypeOK, ServerPoolTypeOK
  <2> QED BY <2>2, <2>3, <2>4, <2>5
<1> QED BY <1>1, CommonInvariant, PoliteInvariant, PTL

\* A worker is in the pool or with a session.
NoWorkerLost ==
  ~chStop =>
    \A w \in Workers : \/ \E i \in 1..Len(pool) : pool[i] = w
                       \/ \E c \in Conns : Serves(w, c)

\* As many places, without doubles, as there are workers: none is missing.
LEMMA FullPool ==
  ASSUME Init, NEW w \in Workers
  PROVE  \E i \in 1..Len(pool) : pool[i] = w
<1> DEFINE n == Cardinality(Workers)
<1>1. n \in Nat
  BY ServerPoolAssumption, FS_CardinalityType
<1>2. /\ pool \in [1..n -> Workers]
      /\ \A i, j \in 1..n : pool[i] = pool[j] => i = j
  BY DEF Init, ServerPoolInit
<1>3. IsFiniteSet(1..n) /\ Cardinality(1..n) = n
  BY <1>1, FS_Interval
<1>4. pool \in Injection(1..n, Workers)
  BY <1>2 DEF Injection, IsInjective
<1>5. pool \in Surjection(1..n, Workers)
  BY <1>3, <1>4, ServerPoolAssumption, FS_Injection
<1>6. \E i \in 1..n : pool[i] = w
  BY <1>5 DEF Surjection
<1>7. Len(pool) = n
  BY <1>1, <1>2
<1> QED BY <1>6, <1>7

\* Lending and giving back, as WorkerAllocation describes them, lose none.
LEMMA AllocationKeeps ==
  ASSUME Running, PoliteInv', ~chStop', TypeOK', NoWorkerLost,
         [Allocation!Next]_(Allocation!vars)
  PROVE  NoWorkerLost'
<1> SUFFICES ASSUME NEW w \in Workers, \A c \in Conns : ~Serves(w, c)'
             PROVE  \E i \in 1..Len(pool') : pool'[i] = w
  BY DEF NoWorkerLost
<1>1. /\ pool \in Seq(Workers) /\ pool' \in Seq(Workers)
  BY DEF Running, TypeOK, ServerPoolTypeOK
<1>2. Owner(w)' = NoConn
  BY OwnerIsNext DEF PoliteInv
<1>3. ASSUME Owner(w) = NoConn PROVE \E i \in 1..Len(pool) : pool[i] = w
  <2>1. ASSUME NEW c \in Conns, Serves(w, c) PROVE FALSE
    BY <1>3, <2>1, OwnerIs, NetworkAssumption DEF Running, PoliteInv
  <2> QED BY <2>1 DEF NoWorkerLost, Running
<1>4. [v \in Workers |-> Owner(v)]'[w] = NoConn /\ [v \in Workers |-> Owner(v)][w] = Owner(w)
  BY <1>2
<1>5. ASSUME NEW v \in Workers, NEW c \in Conns, Allocation!Lend(v, c)
      PROVE  \E i \in 1..Len(pool') : pool'[i] = w
  <2>1. /\ pool # <<>> /\ v = Head(pool) /\ pool' = Tail(pool)
        /\ [u \in Workers |-> Owner(u)]' = [[u \in Workers |-> Owner(u)] EXCEPT ![v] = c]
    BY <1>5 DEF Allocation!Lend
  <2>2. v # w /\ Owner(w) = NoConn
    BY <1>4, <2>1, NetworkAssumption
  <2>3. PICK i \in 1..Len(pool) : pool[i] = w
    BY <1>3, <2>2
  <2>4. i # 1
    BY <1>1, <2>1, <2>2, <2>3
  <2>5. i - 1 \in 1..Len(pool') /\ pool'[i - 1] = pool[i]
    BY <1>1, <2>1, <2>3, <2>4
  <2> QED BY <2>3, <2>5
<1>6. ASSUME NEW v \in Workers, Allocation!GiveBack(v)
      PROVE  \E i \in 1..Len(pool') : pool'[i] = w
  <2>1. /\ pool' = Append(pool, v)
        /\ [u \in Workers |-> Owner(u)]' = [[u \in Workers |-> Owner(u)] EXCEPT ![v] = NoConn]
    BY <1>6 DEF Allocation!GiveBack
  <2>2. /\ Len(pool') = Len(pool) + 1 /\ Len(pool) \in Nat
        /\ \A i \in 1..Len(pool) : pool'[i] = pool[i]
        /\ pool'[Len(pool) + 1] = v
    BY <1>1, <2>1, AppendProperties
  <2>3. CASE v = w
    BY <2>2, <2>3
  <2>4. CASE v # w
    <3>1. Owner(w) = NoConn
      BY <1>4, <2>1, <2>4
    <3> QED BY <1>3, <2>2, <3>1
  <2> QED BY <2>3, <2>4
<1>7. CASE Allocation!Halt \/ UNCHANGED Allocation!vars
  <2>1. pool' = pool /\ [u \in Workers |-> Owner(u)]' = [u \in Workers |-> Owner(u)]
    BY <1>7 DEF Allocation!Halt, Allocation!vars
  <2> QED BY <1>3, <1>4, <2>1
<1> QED BY <1>5, <1>6, <1>7 DEF Allocation!Next

\* While the service runs and clients are polite, every worker is in the pool or serves a
\* connection: none is lost by errors, timeouts, or connections closed by the manager
\* (worker.go Work, serverpool.go).
THEOREM WorkersAreKept == ASSUME Polite PROVE Spec => []NoWorkerLost
<1>1. Init => NoWorkerLost
  BY FullPool DEF NoWorkerLost
<1>2. /\ TypeOK /\ TypeOK' /\ Wired /\ Handshake /\ PoliteInv /\ PoliteInv' /\ NoWorkerLost
      /\ [Next]_vars
      => NoWorkerLost'
  <2> SUFFICES ASSUME TypeOK, TypeOK', Wired, Handshake, PoliteInv, PoliteInv', NoWorkerLost,
                      [Next]_vars, ~chStop'
               PROVE  NoWorkerLost'
    BY DEF NoWorkerLost
  <2>1. ~chStop
    BY StopChannel DEF StopService
  <2> QED BY <2>1, StepAllocates, AllocationKeeps DEF Running
<1> QED BY <1>1, <1>2, CommonInvariant, PoliteInvariant, PTL DEF Spec
==============================================================================
