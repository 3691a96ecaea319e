---------------------------- MODULE MailPipeline -----------------------------
(***************************************************************************)
(* A mail's way from DATA to the database: sessions (MailTransaction) send  *)
(* it over a channel to the listener's receiver goroutine, which starts a   *)
(* goroutine for each mail that stores it (startReceivers, Receive,         *)
(* StoreMail).  The listener (Listener) starts the receivers, lets sessions *)
(* begin, and its end is the receivers' end, whatever is in the channel.    *)
(***************************************************************************)
EXTENDS Listener, MailTransaction

CONSTANTS
  MailCap,      \* capacity of the mail channel (1000 in the code)
  StoreFails    \* whether the database may fail

ASSUME MailPipelineAssumption == MailCap \in Nat \ {0} /\ StoreFails \in BOOLEAN

VARIABLES
  chMail,       \* the channel
  receiving,    \* the receiver goroutine: not started, running, or returned
  taken,        \* mails in the goroutines that store them
  stored,       \* the database
  failed        \* mails whose storing failed, which is only logged

pipelineVars == <<chMail, receiving, taken, stored, failed>>
vars == <<listenerVars, transactionVars, pipelineVars>>

TypeOK ==
  /\ ListenerTypeOK
  /\ TransactionTypeOK
  /\ chMail \in Seq(Mails)
  /\ Len(chMail) <= MailCap
  /\ receiving \in {"none", "running", "returned"}
  /\ taken \subseteq Mails /\ stored \subseteq Mails /\ failed \subseteq Mails

Init ==
  /\ ListenerInit
  /\ TransactionInit
  /\ chMail = <<>> /\ receiving = "none"
  /\ taken = {} /\ stored = {} /\ failed = {}

-----------------------------------------------------------------------------
\* ListenAndServe starts the receivers once the socket is open.
StartListener ==
  /\ StartStep
  /\ receiving' = IF OpenListener THEN "running" ELSE receiving
  /\ UNCHANGED <<transactionVars, chMail, taken, stored, failed>>

\* A connection accepted begins a session, or is refused by the connection manager.
Connect ==
  /\ AcceptConnection
  /\ UNCHANGED pipelineVars
  /\ UNCHANGED transactionVars \/ \E s \in Sessions : BeginSession(s)

AcceptLoop ==
  /\ AcceptOther
  /\ UNCHANGED <<transactionVars, pipelineVars>>

Stop(k) ==
  /\ CallClose(k) \/ CloserStep(k)
  /\ UNCHANGED <<transactionVars, pipelineVars>>

Command(s) ==
  /\ ~panicked
  /\ ClientCommand(s)
  /\ UNCHANGED <<listenerVars, pipelineVars>>

\* Mutant: a mail that finds the channel full is dropped.
HandOverOrDrop(s) ==
  /\ ~panicked
  /\ HandedOver(s)
  /\ chMail' = IF Len(chMail) < MailCap THEN Append(chMail, Copy(s)) ELSE chMail
  /\ UNCHANGED <<listenerVars, receiving, taken, stored, failed>>

\* Mutant: a mail is sent without waiting for room.
HandOverAtOnce(s) ==
  /\ ~panicked
  /\ HandedOver(s)
  /\ chMail' = Append(chMail, Copy(s))
  /\ UNCHANGED <<listenerVars, receiving, taken, stored, failed>>

\* w.Receiver <- copy, which waits while the channel is full.
HandOver(s) ==
  /\ ~panicked
  /\ Handing(s)
  /\ Len(chMail) < MailCap
  /\ chMail' = Append(chMail, Copy(s))
  /\ HandedOver(s)
  /\ UNCHANGED <<listenerVars, receiving, taken, stored, failed>>

\* startReceivers takes a mail and starts a goroutine that stores it.
TakeMail ==
  /\ ~panicked
  /\ receiving = "running"
  /\ chMail # <<>>
  /\ taken' = taken \cup {Head(chMail)}
  /\ chMail' = Tail(chMail)
  /\ UNCHANGED <<listenerVars, transactionVars, receiving, stored, failed>>

\* It returns when chClose is closed; with mails waiting too, select may choose either.
ReceiversReturn ==
  /\ ~panicked
  /\ receiving = "running"
  /\ chClosed
  /\ receiving' = "returned"
  /\ UNCHANGED <<listenerVars, transactionVars, chMail, taken, stored, failed>>

\* Mutant: a goroutine may start again on a mail it has stored.
StoreMailKeeps(m) ==
  /\ ~panicked
  /\ m \in taken
  /\ m.from # NoSender
  /\ stored' = stored \cup {m}
  /\ UNCHANGED <<listenerVars, transactionVars, chMail, receiving, taken, failed>>

\* StoreMail validates and creates.  MailItem.Validate wants a sender.
StoreMail(m) ==
  /\ ~panicked
  /\ m \in taken
  /\ m.from # NoSender
  /\ taken' = taken \ {m}
  /\ stored' = stored \cup {m}
  /\ UNCHANGED <<listenerVars, transactionVars, chMail, receiving, failed>>

\* Receive logs the error, and the mail is gone.
StoreMailFails(m) ==
  /\ ~panicked
  /\ m \in taken
  /\ StoreFails \/ m.from = NoSender
  /\ taken' = taken \ {m}
  /\ failed' = failed \cup {m}
  /\ UNCHANGED <<listenerVars, transactionVars, chMail, receiving, stored>>

-----------------------------------------------------------------------------
Storing == \E m \in taken : StoreMail(m) \/ StoreMailFails(m)

Next ==
  \/ StartListener \/ Connect \/ AcceptLoop
  \/ \E k \in Closers : Stop(k)
  \/ \E s \in Sessions : Command(s) \/ HandOver(s)
  \/ TakeMail \/ ReceiversReturn
  \/ Storing

Spec == Init /\ [][Next]_vars

\* Goroutines run on, and the receivers' goroutine takes a mail that waits while chClose
\* stays open.  Connections need not come, an open socket need not fail, and clients
\* and those who stop the service do what they like.
Fairness ==
  /\ WF_vars(StartListener)
  /\ WF_vars(AcceptMust /\ AcceptLoop)
  /\ \A k \in Closers : WF_vars(CloserStep(k) /\ Stop(k))
  /\ \A s \in Sessions : WF_vars(HandOver(s))
  /\ WF_vars(TakeMail \/ ReceiversReturn)
  /\ WF_vars(Storing)

FairSpec == Spec /\ Fairness

-----------------------------------------------------------------------------
(* Properties. *)

\* The mails a worker is about to send, which their clients believe delivered.
BeingHanded == {Copy(s) : s \in {t \in Sessions : Handing(t)}}

Queued == {chMail[i] : i \in DOMAIN chMail}

\* Every mail acknowledged is somewhere, and nothing is anywhere that was not
\* acknowledged just so: sender and recipients are those of its own transaction,
\* across messages of a session, RSET, and sessions that share channel and database.
MailsAreOwn == acked = BeingHanded \cup Queued \cup taken \cup stored \cup failed

\* And it is there once: a mail that is stored is in nobody's hands any more.
InOnePlace ==
  /\ \A i, j \in DOMAIN chMail : chMail[i].id = chMail[j].id => i = j
  /\ \A m \in taken : m \notin stored \cup failed
  /\ \A m \in Queued : m \notin taken \cup stored \cup failed
  /\ \A m \in BeingHanded : m \notin Queued \cup taken \cup stored \cup failed
  /\ stored \cap failed = {}

\* When accepting fails, the accept loop ends the receivers too, and Start returns; but
\* for a stop at that moment, with which it may close chClose twice.
FailureEndsAll ==
  acceptPc = "closing" ~> (startPc = "returned" /\ receiving = "returned") \/ panicked

\* An acknowledged mail reaches the goroutines that store it, which then store it or
\* log an error, unless the service is stopped in the meantime: what waits in the
\* channel then is lost, and only then.
DeliversUnlessStopped ==
  \A id \in 1..MaxMails :
    (\E m \in acked : m.id = id) ~> (chClosed \/ \E m \in stored \cup failed : m.id = id)

\* What is acknowledged is stored, or dropped because storing fails, whole and once.
\* A stop may leave it waiting for ever, so only the safe part is promised.
Delivery == INSTANCE MailDelivery WITH dropped <- failed

ImplementsSafeDelivery == Delivery!SafeSpec
==============================================================================
