----------------------------- MODULE ServerPool ------------------------------
(***************************************************************************)
(* The pool of SMTP workers (internal/smtp/serverpool.go): a buffered      *)
(* channel that holds the idle workers, and the fields of a worker that    *)
(* Prepare overwrites each time the worker is given to a connection.       *)
(* Reader, Writer and Connection are always set together and are one field *)
(* here.                                                                   *)
(***************************************************************************)
EXTENDS Network, Sequences, FiniteSets

CONSTANTS
  Workers,     \* the MaxWorkers workers of the pool
  NoWorker     \* "no worker"

ASSUME ServerPoolAssumption ==
  /\ IsFiniteSet(Workers)
  /\ NoWorker \notin Workers

VARIABLES
  pool,          \* the channel of idle workers, first to leave first
  workerConn,    \* workerConn[w]: w.Connection, w.Reader and w.Writer
  workerState,   \* workerState[w]: w.State
  sessionWorker  \* sessionWorker[c]: the worker NextWorker returned for c

poolVars == <<pool, workerConn, workerState, sessionWorker>>

WorkerStates == {"IDLE", "WORKING", "DONE", "ERROR"}

ServerPoolTypeOK ==
  /\ pool \in Seq(Workers)
  /\ workerConn \in [Workers -> Conns \cup {NoConn}]
  /\ workerState \in [Workers -> WorkerStates]
  /\ sessionWorker \in [Conns -> Workers \cup {NoWorker}]

\* NewServerPool fills the channel; which worker comes first is immaterial.
ServerPoolInit ==
  /\ pool \in [1..Cardinality(Workers) -> Workers]
  /\ \A i, j \in 1..Cardinality(Workers) : pool[i] = pool[j] => i = j
  /\ workerConn = [w \in Workers |-> NoConn]
  /\ workerState = [w \in Workers |-> "IDLE"]
  /\ sessionWorker = [c \in Conns |-> NoWorker]

\* Mutant of JoinQueue: the last worker back is the next to leave.
JoinQueueFront(w) ==
  /\ Len(pool) < Cardinality(Workers)
  /\ pool' = <<w>> \o pool
  /\ UNCHANGED <<workerConn, workerState, sessionWorker>>

\* The channel's capacity is the number of workers: JoinQueue waits for room.
JoinQueue(w) ==
  /\ Len(pool) < Cardinality(Workers)
  /\ pool' = Append(pool, w)
  /\ UNCHANGED <<workerConn, workerState, sessionWorker>>

\* Mutant of Prepare: the connection is not set.
PrepareStateOnly(w, c) ==
  /\ workerState' = [workerState EXCEPT ![w] = "WORKING"]
  /\ UNCHANGED workerConn

Prepare(w, c) ==
  /\ workerState' = [workerState EXCEPT ![w] = "WORKING"]
  /\ workerConn' = [workerConn EXCEPT ![w] = c]

\* NextWorker takes the longest idle worker and prepares it for c.
NextWorker(w, c) ==
  /\ pool # <<>>
  /\ w = Head(pool)
  /\ pool' = Tail(pool)
  /\ Prepare(w, c)
  /\ sessionWorker' = [sessionWorker EXCEPT ![c] = w]

\* NextWorker gives up after two seconds without a worker.
NoWorkerAvailable == pool = <<>> /\ UNCHANGED poolVars

\* The connection that the worker of session c is prepared for right now: not
\* c itself once the worker has been handed on.
CurrentConn(c) == workerConn[sessionWorker[c]]

SetState(w, state) ==
  /\ workerState' = [workerState EXCEPT ![w] = state]
  /\ UNCHANGED <<pool, workerConn, sessionWorker>>

=============================================================================
