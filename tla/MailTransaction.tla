--------------------------- MODULE MailTransaction ---------------------------
(***************************************************************************)
(* The mail under construction: what MAIL, RCPT, DATA and RSET do to the    *)
(* mailItem of a session (internal/smtp/*command.go, reset.go), and what    *)
(* Worker.Work does with it after DATA.                                    *)
(*                                                                         *)
(* asked is what the client has asked for in its transaction, which MAIL    *)
(* begins and DATA and RSET end; the server keeps one mailItem and clears   *)
(* it at some of these points.                                             *)
(***************************************************************************)
EXTENDS Integers, Sequences

CONSTANTS
  Sessions,    \* sessions, one per connection
  Senders, Rcpts,
  NoSender,    \* the empty FromAddress of a new mail item
  MaxMails,    \* bound: messages sent in a behaviour
  MaxRcpts,    \* bound: recipients in a mail item
  Orderly      \* whether clients begin a transaction only when none is open, and
               \* send RCPT and DATA only inside one

ASSUME TransactionAssumption ==
  /\ NoSender \notin Senders
  /\ MaxMails \in Nat /\ MaxRcpts \in Nat
  /\ Orderly \in BOOLEAN

VARIABLES
  session,     \* where a session is
  message,     \* the message it is handing over, or 0
  mailItem,    \* the mail item of its worker
  asked,       \* what its client has asked for
  acked        \* mails whose DATA was answered with 250, as their clients asked for them

transactionVars == <<session, message, mailItem, asked, acked>>

RcptLists == UNION {[1..n -> Rcpts] : n \in 0..MaxRcpts}
Envelopes == [from : Senders \cup {NoSender}, to : RcptLists]
Mails == [id : 1..MaxMails, from : Senders \cup {NoSender}, to : RcptLists]

NoEnvelope == [from |-> NoSender, to |-> <<>>]

\* A message with its envelope.
MailOf(id, envelope) == [id |-> id, from |-> envelope.from, to |-> envelope.to]

TransactionTypeOK ==
  /\ session \in [Sessions -> {"none", "commands", "handing", "ended"}]
  /\ message \in [Sessions -> 0..MaxMails]
  /\ mailItem \in [Sessions -> Envelopes]
  /\ asked \in [Sessions -> Envelopes]
  /\ acked \subseteq Mails

TransactionInit ==
  /\ session = [s \in Sessions |-> "none"]
  /\ message = [s \in Sessions |-> 0]
  /\ mailItem = [s \in Sessions |-> NoEnvelope]
  /\ asked = [s \in Sessions |-> NoEnvelope]
  /\ acked = {}

FreshIds == 1..MaxMails \ {m.id : m \in acked}

-----------------------------------------------------------------------------
\* Worker.Work begins with an empty mail item.
BeginSession(s) ==
  /\ session[s] = "none"
  /\ session' = [session EXCEPT ![s] = "commands"]
  /\ UNCHANGED <<message, mailItem, asked, acked>>

\* QUIT, a timeout, a command that is refused, or the service's stop.
EndSession(s) ==
  /\ session[s] = "commands"
  /\ session' = [session EXCEPT ![s] = "ended"]
  /\ UNCHANGED <<message, mailItem, asked, acked>>

\* MailCommandExecutor.Process overwrites the sender and leaves the recipients.
Mail(s, from) ==
  /\ session[s] = "commands"
  /\ Orderly => asked[s] = NoEnvelope
  /\ mailItem' = [mailItem EXCEPT ![s].from = from]
  /\ asked' = [asked EXCEPT ![s] = [from |-> from, to |-> <<>>]]
  /\ UNCHANGED <<session, message, acked>>

\* RcptCommandExecutor.Process appends, whether or not there was a MAIL.
Rcpt(s, to) ==
  /\ session[s] = "commands"
  /\ Len(mailItem[s].to) < MaxRcpts
  /\ Orderly => asked[s].from # NoSender
  /\ mailItem' = [mailItem EXCEPT ![s].to = Append(@, to)]
  /\ asked' = [asked EXCEPT ![s].to = Append(@, to)]
  /\ UNCHANGED <<session, message, acked>>

\* Mutant: RSET forgets the recipients.
ResetSender(s) ==
  /\ session[s] = "commands"
  /\ mailItem' = [mailItem EXCEPT ![s].from = NoSender]
  /\ asked' = [asked EXCEPT ![s] = NoEnvelope]
  /\ UNCHANGED <<session, message, acked>>

\* ResetCommandExecutor.Process: a new mail item.
Reset(s) ==
  /\ session[s] = "commands"
  /\ mailItem' = [mailItem EXCEPT ![s] = NoEnvelope]
  /\ asked' = [asked EXCEPT ![s] = NoEnvelope]
  /\ UNCHANGED <<session, message, acked>>

\* DataCommandExecutor.Process for a message that parses: the client is told 250, and
\* only then does the main loop turn to the channel.
Data(s, id) ==
  /\ session[s] = "commands"
  /\ id \in FreshIds
  /\ Orderly => asked[s].from # NoSender
  /\ acked' = acked \cup {MailOf(id, asked[s])}
  /\ asked' = [asked EXCEPT ![s] = NoEnvelope]
  /\ session' = [session EXCEPT ![s] = "handing"]
  /\ message' = [message EXCEPT ![s] = id]
  /\ UNCHANGED mailItem

Handing(s) == session[s] = "handing"

\* The copy that is sent over the channel.
Copy(s) == MailOf(message[s], mailItem[s])

\* Mutant: the mail item is kept for the next message.
HandedOverKeeps(s) ==
  /\ Handing(s)
  /\ session' = [session EXCEPT ![s] = "commands"]
  /\ message' = [message EXCEPT ![s] = 0]
  /\ UNCHANGED <<mailItem, asked, acked>>

\* Once it is sent: a new mail item, and the next command.
HandedOver(s) ==
  /\ Handing(s)
  /\ mailItem' = [mailItem EXCEPT ![s] = NoEnvelope]
  /\ session' = [session EXCEPT ![s] = "commands"]
  /\ message' = [message EXCEPT ![s] = 0]
  /\ UNCHANGED <<asked, acked>>

\* A client's command.
ClientCommand(s) ==
  \/ EndSession(s) \/ Reset(s)
  \/ \E from \in Senders : Mail(s, from)
  \/ \E to \in Rcpts : Rcpt(s, to)
  \/ \E id \in 1..MaxMails : Data(s, id)
==============================================================================
