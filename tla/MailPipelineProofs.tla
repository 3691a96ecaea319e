------------------------- MODULE MailPipelineProofs --------------------------
(***************************************************************************)
(* Proofs about the mail pipeline, for any number of sessions, mails and    *)
(* recipients and any capacity of the channel: types; that what is stored,  *)
(* waits or is lost is exactly what was acknowledged, as it was asked for;  *)
(* that the pipeline implements the safe part of MailDelivery; and that the *)
(* accept loop takes no stop for a failure.                                *)
(***************************************************************************)
EXTENDS MailPipeline, SequenceTheorems, TLAPS

-----------------------------------------------------------------------------
(* Lists of recipients. *)

\* RcptLists is the lists of at most MaxRcpts recipients.
LEMMA RcptListsAre ==
  \A q : q \in RcptLists <=> q \in Seq(Rcpts) /\ Len(q) <= MaxRcpts
<1>1. ASSUME NEW q \in RcptLists PROVE q \in Seq(Rcpts) /\ Len(q) <= MaxRcpts
  <2>1. PICK n \in 0..MaxRcpts : q \in [1..n -> Rcpts]
    BY <1>1 DEF RcptLists
  <2>2. n \in Nat /\ n <= MaxRcpts
    BY TransactionAssumption
  <2>3. q \in Seq(Rcpts)
    BY <2>1, <2>2, IsASeq
  <2>4. Len(q) = n
    BY <2>1, <2>2, <2>3, LenProperties
  <2> QED BY <2>2, <2>3, <2>4
<1>2. ASSUME NEW q \in Seq(Rcpts), Len(q) <= MaxRcpts PROVE q \in RcptLists
  <2>1. q \in [1..Len(q) -> Rcpts] /\ Len(q) \in Nat
    BY LenProperties
  <2>2. Len(q) \in 0..MaxRcpts
    BY <1>2, <2>1, TransactionAssumption
  <2> QED BY <2>1, <2>2 DEF RcptLists
<1> QED BY <1>1, <1>2

\* A shorter list of recipients takes one more.
LEMMA RcptAppended ==
  ASSUME NEW q \in RcptLists, Len(q) < MaxRcpts, NEW to \in Rcpts
  PROVE  Append(q, to) \in RcptLists /\ Len(Append(q, to)) = Len(q) + 1
<1>1. q \in Seq(Rcpts)
  BY RcptListsAre
<1>2. Append(q, to) \in Seq(Rcpts) /\ Len(Append(q, to)) = Len(q) + 1
  BY <1>1
<1>3. Len(q) \in Nat
  BY <1>1
<1>4. Len(Append(q, to)) <= MaxRcpts
  BY <1>2, <1>3, TransactionAssumption
<1>5. ASSUME NEW r \in Seq(Rcpts), Len(r) <= MaxRcpts PROVE r \in RcptLists
  BY <1>5, RcptListsAre
<1>6. Append(q, to) \in RcptLists
  BY <1>2, <1>4, <1>5
<1> QED BY <1>2, <1>6

LEMMA NoRcpts == << >> \in RcptLists /\ Len(<< >>) = 0
<1>1. << >> \in Seq(Rcpts) /\ Len(<< >>) = 0
  OBVIOUS
<1>2. ASSUME NEW r \in Seq(Rcpts), Len(r) <= MaxRcpts PROVE r \in RcptLists
  BY <1>2, RcptListsAre
<1>3. Len(<< >>) <= MaxRcpts
  BY <1>1, TransactionAssumption
<1> QED BY <1>1, <1>2, <1>3

LEMMA NoEnvelopeIsOne == NoEnvelope \in Envelopes /\ Len(NoEnvelope.to) = 0
BY NoRcpts DEF NoEnvelope, Envelopes

LEMMA MailOfIsOne ==
  ASSUME NEW id \in 1..MaxMails, NEW e \in Envelopes
  PROVE  MailOf(id, e) \in Mails /\ MailOf(id, e).id = id
BY DEF MailOf, Envelopes, Mails

-----------------------------------------------------------------------------
(* Channels: sequences of mails with different ids. *)

Elements(q) == {q[i] : i \in DOMAIN q}

IdsDiffer(q) == \A i, j \in DOMAIN q : q[i].id = q[j].id => i = j

LEMMA ElementsAppended ==
  ASSUME NEW S, NEW q \in Seq(S), NEW e \in S, \A m \in Elements(q) : m.id # e.id, IdsDiffer(q)
  PROVE  Elements(Append(q, e)) = Elements(q) \cup {e} /\ IdsDiffer(Append(q, e))
<1> DEFINE r == Append(q, e)
           n == Len(q)
<1>1. /\ n \in Nat /\ DOMAIN q = 1..n /\ DOMAIN r = 1..(n + 1)
      /\ \A i \in 1..n : r[i] = q[i]
      /\ r[n + 1] = e
  OBVIOUS
<1> HIDE DEF r, n
<1>2. ASSUME NEW i \in 1..(n + 1) PROVE i \in 1..n \/ i = n + 1
  BY <1>1
<1>3. 1..n \subseteq 1..(n + 1) /\ n + 1 \in 1..(n + 1) /\ n + 1 \notin 1..n
  BY <1>1
<1>4. ASSUME NEW m \in Elements(r) PROVE m \in Elements(q) \cup {e}
  <2>1. PICK i \in 1..(n + 1) : m = r[i]
    BY <1>1, <1>4 DEF Elements
  <2> QED BY <1>1, <1>2, <2>1 DEF Elements
<1>5. ASSUME NEW m \in Elements(q) \cup {e} PROVE m \in Elements(r)
  <2>1. CASE m \in Elements(q)
    <3>1. PICK i \in 1..n : m = q[i]
      BY <1>1, <2>1 DEF Elements
    <3>2. m = r[i] /\ i \in DOMAIN r
      BY <1>1, <1>3, <3>1
    <3> QED BY <3>2 DEF Elements
  <2>2. CASE m = e
    <3>1. m = r[n + 1] /\ n + 1 \in DOMAIN r
      BY <1>1, <1>3, <2>2
    <3> QED BY <3>1 DEF Elements
  <2> QED BY <2>1, <2>2
<1>6. \A i \in 1..n : q[i].id # e.id
  BY <1>1 DEF Elements
<1>7. \A i, j \in 1..n : q[i].id = q[j].id => i = j
  BY <1>1 DEF IdsDiffer
<1>8. ASSUME NEW i \in 1..(n + 1), NEW j \in 1..(n + 1), r[i].id = r[j].id PROVE i = j
  <2>1. CASE i \in 1..n /\ j \in 1..n
    BY <1>1, <1>7, <1>8, <2>1
  <2>2. CASE i = n + 1 \/ j = n + 1
    BY <1>1, <1>2, <1>6, <1>8, <2>2
  <2> QED BY <1>2, <2>1, <2>2
<1>9. IdsDiffer(r)
  BY <1>1, <1>8 DEF IdsDiffer
<1> QED BY <1>4, <1>5, <1>9 DEF r

LEMMA ElementsOfTail ==
  ASSUME NEW S, NEW q \in Seq(S), q # << >>, IdsDiffer(q)
  PROVE  /\ Elements(q) = Elements(Tail(q)) \cup {Head(q)} /\ IdsDiffer(Tail(q))
         /\ Head(q) \notin Elements(Tail(q))
<1> DEFINE r == Tail(q)
           n == Len(q)
<1>1. n \in Nat \ {0} /\ DOMAIN q = 1..n /\ Head(q) = q[1]
  OBVIOUS
<1>2. r \in Seq(S) /\ Len(r) = n - 1 /\ \A i \in 1..(n - 1) : r[i] = q[i + 1]
  OBVIOUS
<1>3. DOMAIN r = 1..(n - 1)
  BY <1>2
<1> HIDE DEF r, n
<1>4. 1 \in 1..n /\ \A i \in 1..(n - 1) : i + 1 \in 1..n /\ i + 1 # 1
  BY <1>1
<1>5. \A i \in 1..n : i # 1 => i - 1 \in 1..(n - 1) /\ (i - 1) + 1 = i
  BY <1>1
<1>6. \A i, j \in 1..n : q[i].id = q[j].id => i = j
  BY <1>1 DEF IdsDiffer
<1>7. ASSUME NEW m \in Elements(r) PROVE m \in Elements(q) /\ m # Head(q)
  <2>1. PICK i \in 1..(n - 1) : m = r[i]
    BY <1>3, <1>7 DEF Elements
  <2>2. m = q[i + 1] /\ i + 1 \in 1..n /\ i + 1 # 1
    BY <1>2, <1>4, <2>1
  <2>3. m # q[1]
    BY <1>4, <1>6, <2>2
  <2> QED BY <1>1, <2>2, <2>3 DEF Elements
<1>8. ASSUME NEW m \in Elements(q) PROVE m \in Elements(r) \cup {Head(q)}
  <2>1. PICK i \in 1..n : m = q[i]
    BY <1>1, <1>8 DEF Elements
  <2>2. CASE i = 1
    BY <1>1, <2>1, <2>2
  <2>3. CASE i # 1
    <3>1. i - 1 \in 1..(n - 1) /\ (i - 1) + 1 = i
      BY <1>5, <2>3
    <3>2. m = r[i - 1]
      BY <1>2, <2>1, <3>1
    <3> QED BY <1>3, <3>1, <3>2 DEF Elements
  <2> QED BY <2>2, <2>3
<1>9. Head(q) \in Elements(q)
  BY <1>1, <1>4 DEF Elements
<1>10. ASSUME NEW i \in 1..(n - 1), NEW j \in 1..(n - 1), r[i].id = r[j].id PROVE i = j
  <2>1. q[i + 1].id = q[j + 1].id /\ i + 1 \in 1..n /\ j + 1 \in 1..n
    BY <1>2, <1>4, <1>10
  <2>2. i + 1 = j + 1
    BY <1>6, <2>1
  <2> QED BY <2>2
<1>11. IdsDiffer(r)
  BY <1>3, <1>10 DEF IdsDiffer
<1> QED BY <1>7, <1>8, <1>9, <1>11 DEF r

-----------------------------------------------------------------------------
(* Types. *)

\* No client asks for more recipients than its mail item has, and while a mail is
\* handed over nothing is asked for.
AskedFits ==
  \A s \in Sessions :
    /\ Len(asked[s].to) <= Len(mailItem[s].to)
    /\ Handing(s) => asked[s] = NoEnvelope /\ message[s] \in 1..MaxMails

TypeInv == TypeOK /\ AskedFits

LEMMA InitTypes == Init => TypeInv
<1> SUFFICES ASSUME Init PROVE TypeInv
  OBVIOUS
<1> USE DEF Init, ListenerInit, TransactionInit
<1>1. ListenerTypeOK
  BY DEF ListenerTypeOK
<1>2. TransactionTypeOK
  BY NoEnvelopeIsOne, TransactionAssumption DEF TransactionTypeOK
<1>3. AskedFits
  BY NoEnvelopeIsOne DEF AskedFits, Handing
<1>4. chMail \in Seq(Mails) /\ Len(chMail) = 0
  OBVIOUS
<1> QED BY <1>1, <1>2, <1>3, <1>4, MailPipelineAssumption DEF TypeInv, TypeOK

LEMMA ListenerTypes ==
  ASSUME ListenerTypeOK,
         \/ StartStep \/ AcceptConnection \/ AcceptOther
         \/ \E k \in Closers : CallClose(k) \/ CloserStep(k)
         \/ UNCHANGED listenerVars
  PROVE  ListenerTypeOK'
<1> USE DEF ListenerTypeOK
<1>1. CASE StartStep
  BY <1>1 DEF StartStep, StartAt, MakeListener, ListenAndServe, OpenListener, OpenFails,
              ServeReturns
<1>2. CASE AcceptConnection \/ AcceptOther
  BY <1>2 DEF AcceptOther, AcceptConnection, AcceptAt, SelectClose, AcceptFails,
              AskRunning, LoopCloses, LoopStores
<1>3. ASSUME NEW k \in Closers, CallClose(k) \/ CloserStep(k)
      PROVE  ListenerTypeOK'
  BY <1>3 DEF CallClose, CloserStep, CloserAt, CloseStop, CloseListener, StoreRunning,
              CloseSocket
<1>4. CASE UNCHANGED listenerVars
  BY <1>4 DEF listenerVars
<1> QED BY <1>1, <1>2, <1>3, <1>4

\* A client's command, and the start of its session.
LEMMA CommandTypes ==
  ASSUME TransactionTypeOK, AskedFits, NEW s \in Sessions,
         BeginSession(s) \/ ClientCommand(s)
  PROVE  TransactionTypeOK' /\ AskedFits'
<1> USE DEF TransactionTypeOK
<1>0. /\ mailItem[s] \in Envelopes /\ asked[s] \in Envelopes
      /\ mailItem[s].to \in RcptLists /\ asked[s].to \in RcptLists
      /\ Len(mailItem[s].to) \in Nat /\ Len(asked[s].to) \in Nat
      /\ Len(asked[s].to) <= Len(mailItem[s].to)
  BY RcptListsAre DEF Envelopes, AskedFits
<1>1. CASE BeginSession(s)
  BY <1>1 DEF BeginSession, AskedFits, Handing
<1>2. CASE EndSession(s)
  BY <1>2 DEF EndSession, AskedFits, Handing
<1>3. CASE Reset(s)
  BY <1>3, NoEnvelopeIsOne DEF Reset, AskedFits, Handing
<1>4. ASSUME NEW from \in Senders, Mail(s, from)
      PROVE  TransactionTypeOK' /\ AskedFits'
  <2> USE <1>4 DEF Mail
  <2>1. << >> \in RcptLists /\ Len(<< >>) = 0
    BY NoRcpts
  <2>2. [mailItem[s] EXCEPT !.from = from] \in Envelopes
    BY <1>0 DEF Envelopes
  <2>3. [from |-> from, to |-> << >>] \in Envelopes
    BY <2>1 DEF Envelopes
  <2>4. TransactionTypeOK'
    BY <2>2, <2>3
  <2>5. mailItem'[s].to = mailItem[s].to
    BY <1>0 DEF Envelopes
  <2>6. AskedFits'
    BY <1>0, <2>1, <2>5 DEF AskedFits, Handing
  <2> QED BY <2>4, <2>6
<1>5. ASSUME NEW to \in Rcpts, Rcpt(s, to)
      PROVE  TransactionTypeOK' /\ AskedFits'
  <2> USE <1>5 DEF Rcpt
  <2>1. /\ Append(mailItem[s].to, to) \in RcptLists
        /\ Len(Append(mailItem[s].to, to)) = Len(mailItem[s].to) + 1
    BY <1>0, RcptAppended
  <2>2. Len(asked[s].to) < MaxRcpts
    BY <1>0, TransactionAssumption
  <2>3. /\ Append(asked[s].to, to) \in RcptLists
        /\ Len(Append(asked[s].to, to)) = Len(asked[s].to) + 1
    BY <1>0, <2>2, RcptAppended
  <2>4. /\ [mailItem[s] EXCEPT !.to = Append(mailItem[s].to, to)] \in Envelopes
        /\ [asked[s] EXCEPT !.to = Append(asked[s].to, to)] \in Envelopes
    BY <1>0, <2>1, <2>3 DEF Envelopes
  <2>5. TransactionTypeOK'
    BY <2>4
  <2>6. /\ mailItem'[s].to = Append(mailItem[s].to, to)
        /\ asked'[s].to = Append(asked[s].to, to)
    BY <1>0 DEF Envelopes
  <2>7. AskedFits'
    BY <1>0, <2>1, <2>3, <2>6 DEF AskedFits, Handing
  <2> QED BY <2>5, <2>7
<1>6. ASSUME NEW id \in 1..MaxMails, Data(s, id)
      PROVE  TransactionTypeOK' /\ AskedFits'
  <2> USE <1>6 DEF Data
  <2>1. MailOf(id, asked[s]) \in Mails
    BY <1>0, MailOfIsOne
  <2>2. id \in 0..MaxMails
    BY TransactionAssumption
  <2>3. TransactionTypeOK'
    BY <2>1, <2>2, NoEnvelopeIsOne
  <2>4. AskedFits'
    BY <1>0, NoEnvelopeIsOne DEF AskedFits, Handing
  <2> QED BY <2>3, <2>4
<1> QED BY <1>1, <1>2, <1>3, <1>4, <1>5, <1>6 DEF ClientCommand

LEMMA HandOverTypes ==
  ASSUME TransactionTypeOK, AskedFits, NEW s \in Sessions, Handing(s), HandedOver(s)
  PROVE  TransactionTypeOK' /\ AskedFits' /\ Copy(s) \in Mails
<1> USE DEF TransactionTypeOK, HandedOver
<1>1. mailItem[s] \in Envelopes /\ message[s] \in 1..MaxMails
  BY DEF AskedFits
<1>2. Copy(s) \in Mails
  BY <1>1, MailOfIsOne DEF Copy
<1>3. TransactionTypeOK'
  BY NoEnvelopeIsOne, TransactionAssumption
<1>4. AskedFits'
  BY NoEnvelopeIsOne DEF AskedFits, Handing
<1> QED BY <1>2, <1>3, <1>4

\* The first mail of the channel, and the channel without it.
LEMMA ChannelHead ==
  ASSUME chMail \in Seq(Mails), chMail # << >>
  PROVE  /\ Head(chMail) \in Mails /\ Tail(chMail) \in Seq(Mails)
         /\ Len(Tail(chMail)) = Len(chMail) - 1
         /\ Len(chMail) \in Nat \ {0} /\ Head(chMail) = chMail[1]
         /\ \A i \in 1..Len(Tail(chMail)) : Tail(chMail)[i] = chMail[i + 1]
OBVIOUS

LEMMA StepTypes == TypeInv /\ [Next]_vars => TypeInv'
<1> SUFFICES ASSUME TypeInv, [Next]_vars PROVE TypeInv'
  OBVIOUS
<1> USE DEF TypeInv, TypeOK, pipelineVars
<1>1. ASSUME UNCHANGED transactionVars PROVE TransactionTypeOK' /\ AskedFits'
  BY <1>1 DEF transactionVars, TransactionTypeOK, AskedFits, Handing
<1>2. ASSUME UNCHANGED listenerVars PROVE ListenerTypeOK'
  BY <1>2, ListenerTypes
<1>3. CASE StartListener
  BY <1>3, <1>1, ListenerTypes DEF StartListener
<1>4. CASE Connect
  BY <1>4, <1>1, ListenerTypes, CommandTypes DEF Connect
<1>5. CASE AcceptLoop
  BY <1>5, <1>1, ListenerTypes DEF AcceptLoop
<1>6. ASSUME NEW k \in Closers, Stop(k) PROVE TypeInv'
  BY <1>6, <1>1, ListenerTypes DEF Stop
<1>7. ASSUME NEW s \in Sessions, Command(s) PROVE TypeInv'
  BY <1>7, <1>2, CommandTypes DEF Command
<1>8. ASSUME NEW s \in Sessions, HandOver(s) PROVE TypeInv'
  <2>1. TransactionTypeOK' /\ AskedFits' /\ Copy(s) \in Mails
    BY <1>8, HandOverTypes DEF HandOver
  <2>2. chMail' \in Seq(Mails) /\ Len(chMail') <= MailCap
    BY <1>8, <2>1, MailPipelineAssumption DEF HandOver
  <2> QED BY <1>8, <1>2, <2>1, <2>2 DEF HandOver
<1>9. CASE TakeMail
  <2>1. chMail' \in Seq(Mails) /\ Len(chMail') <= MailCap /\ taken' \subseteq Mails
    BY <1>9, ChannelHead, MailPipelineAssumption DEF TakeMail
  <2> QED BY <1>9, <1>1, <1>2, <2>1 DEF TakeMail
<1>10. CASE ReceiversReturn
  BY <1>10, <1>1, <1>2 DEF ReceiversReturn
<1>11. CASE Storing
  BY <1>11, <1>1, <1>2 DEF Storing, StoreMail, StoreMailFails
<1>12. CASE UNCHANGED vars
  BY <1>12, <1>1, <1>2 DEF vars
<1> QED BY <1>3, <1>4, <1>5, <1>6, <1>7, <1>8, <1>9, <1>10, <1>11, <1>12 DEF Next

\* The variables keep their types, and the channel its capacity.
THEOREM PipelineTypeCorrect == Spec => []TypeOK
<1>1. TypeInv => TypeOK
  BY DEF TypeInv
<1> QED BY <1>1, InitTypes, StepTypes, PTL DEF Spec

-----------------------------------------------------------------------------
(* Every mail is its client's own, and in one place. *)

\* Between messages the mail item is what the client has asked for.
AskedIsKept == \A s \in Sessions : ~Handing(s) => asked[s] = mailItem[s]

IdsUnique == \A m, n \in acked : m.id = n.id => m = n

HandedApart ==
  \A s, t \in Sessions : Handing(s) /\ Handing(t) /\ message[s] = message[t] => s = t

OwnInv ==
  TypeInv /\ AskedIsKept /\ IdsUnique /\ HandedApart /\ MailsAreOwn /\ InOnePlace

LEMMA InitOwn == Init => OwnInv
<1> SUFFICES ASSUME Init PROVE OwnInv
  OBVIOUS
<1>1. TypeInv
  BY InitTypes
<1>2. BeingHanded = {} /\ Queued = {}
  BY DEF Init, TransactionInit, BeingHanded, Handing, Queued
<1>3. AskedIsKept /\ IdsUnique /\ HandedApart
  BY DEF Init, TransactionInit, AskedIsKept, IdsUnique, HandedApart, Handing
<1>4. MailsAreOwn /\ InOnePlace
  BY <1>2 DEF Init, TransactionInit, MailsAreOwn, InOnePlace
<1> QED BY <1>1, <1>3, <1>4 DEF OwnInv

\* The invariant only looks at these.
LEMMA OwnKept ==
  ASSUME OwnInv, TypeInv', AskedIsKept', BeingHanded' = BeingHanded, HandedApart',
         UNCHANGED <<acked, chMail, taken, stored, failed>>
  PROVE  OwnInv'
<1>1. Queued' = Queued
  BY DEF Queued
<1>2. IdsUnique' /\ MailsAreOwn' /\ InOnePlace'
  BY <1>1 DEF OwnInv, IdsUnique, MailsAreOwn, InOnePlace
<1> QED BY <1>2 DEF OwnInv

LEMMA TransactionKept ==
  ASSUME OwnInv, TypeInv', UNCHANGED transactionVars,
         UNCHANGED <<chMail, taken, stored, failed>>
  PROVE  OwnInv'
<1>1. BeingHanded' = BeingHanded
  BY DEF transactionVars, BeingHanded, Copy, Handing
<1>2. AskedIsKept' /\ HandedApart'
  BY DEF transactionVars, OwnInv, AskedIsKept, HandedApart, Handing
<1> QED BY <1>1, <1>2, OwnKept DEF transactionVars

\* A command that does not finish a message leaves what is handed over alone.
LEMMA CommandKept ==
  ASSUME Orderly, OwnInv, TypeInv', NEW s \in Sessions,
         \/ BeginSession(s) \/ EndSession(s) \/ Reset(s)
         \/ \E from \in Senders : Mail(s, from)
         \/ \E to \in Rcpts : Rcpt(s, to),
         UNCHANGED <<chMail, taken, stored, failed>>
  PROVE  OwnInv'
<1> USE DEF OwnInv, TypeInv, TypeOK, TransactionTypeOK
<1>1. ~Handing(s) /\ asked[s] = mailItem[s]
  BY DEF BeginSession, EndSession, Reset, Mail, Rcpt, Handing, AskedIsKept
<1>2. ~Handing(s)' /\ UNCHANGED <<message, acked>>
  BY DEF BeginSession, EndSession, Reset, Mail, Rcpt, Handing
<1>3. \A t \in Sessions : t # s =>
        /\ session'[t] = session[t]
        /\ mailItem'[t] = mailItem[t] /\ asked'[t] = asked[t]
  BY DEF BeginSession, EndSession, Reset, Mail, Rcpt
<1>4. \A t \in Sessions : (Handing(t)' <=> Handing(t)) /\ (Handing(t) => Copy(t)' = Copy(t))
  BY <1>1, <1>2, <1>3 DEF Handing, Copy
<1>5. BeingHanded' = BeingHanded
  BY <1>4 DEF BeingHanded
<1>6. HandedApart'
  BY <1>2, <1>4 DEF HandedApart
<1>7. asked'[s] = mailItem'[s]
  <2>1. CASE BeginSession(s) \/ EndSession(s)
    BY <1>1, <2>1 DEF BeginSession, EndSession
  <2>2. CASE Reset(s)
    BY <2>2 DEF Reset
  <2>3. ASSUME NEW from \in Senders, Mail(s, from) PROVE asked'[s] = mailItem'[s]
    BY <1>1, <2>3 DEF Mail, NoEnvelope
  <2>4. ASSUME NEW to \in Rcpts, Rcpt(s, to) PROVE asked'[s] = mailItem'[s]
    BY <1>1, <2>4 DEF Rcpt
  <2> QED BY <2>1, <2>2, <2>3, <2>4
<1>8. AskedIsKept'
  BY <1>3, <1>4, <1>7 DEF AskedIsKept
<1> QED BY <1>2, <1>5, <1>6, <1>8, OwnKept

\* DATA: a new mail, acknowledged and handed over.
LEMMA DataOwn ==
  ASSUME OwnInv, TypeInv', NEW s \in Sessions, NEW id \in 1..MaxMails, Data(s, id),
         UNCHANGED <<chMail, taken, stored, failed>>
  PROVE  /\ OwnInv' /\ MailOf(id, asked[s]) \in Mails \ acked
         /\ acked' = acked \cup {MailOf(id, asked[s])}
<1> USE DEF OwnInv, TypeInv, TypeOK, TransactionTypeOK
<1> DEFINE new == MailOf(id, asked[s])
<1>1. ~Handing(s) /\ asked[s] = mailItem[s]
  BY DEF Data, Handing, AskedIsKept
<1>2. new \in Mails /\ new.id = id
  BY MailOfIsOne
<1>3. \A m \in acked : m.id # id
  BY DEF Data, FreshIds
<1>4. acked' = acked \cup {new} /\ new \notin acked
  BY <1>2, <1>3 DEF Data
<1>5. Handing(s)' /\ Copy(s)' = new
  BY <1>1 DEF Data, Handing, Copy
<1>6. \A t \in Sessions : t # s =>
        (Handing(t)' <=> Handing(t)) /\ message'[t] = message[t] /\ Copy(t)' = Copy(t)
  BY DEF Data, Handing, Copy
<1>7. BeingHanded' = BeingHanded \cup {new}
  <2>1. ASSUME NEW t \in Sessions, Handing(t) PROVE Copy(t) \in BeingHanded'
    BY <1>1, <1>6, <2>1 DEF BeingHanded
  <2>2. ASSUME NEW t \in Sessions, Handing(t)' PROVE Copy(t)' \in BeingHanded \cup {new}
    BY <1>5, <1>6, <2>2 DEF BeingHanded
  <2>3. new \in BeingHanded'
    BY <1>5 DEF BeingHanded
  <2> QED BY <2>1, <2>2, <2>3 DEF BeingHanded
<1>8. Queued' = Queued
  BY DEF Queued
<1>9. MailsAreOwn'
  BY <1>4, <1>7, <1>8 DEF MailsAreOwn
<1>10. IdsUnique'
  BY <1>2, <1>3, <1>4 DEF IdsUnique
<1>11. \A t \in Sessions : Handing(t) => message[t] # id
  <2> SUFFICES ASSUME NEW t \in Sessions, Handing(t) PROVE message[t] # id
    OBVIOUS
  <2>1. Copy(t) \in BeingHanded
    BY DEF BeingHanded
  <2>2. Copy(t) \in acked
    BY <2>1 DEF MailsAreOwn
  <2>3. Copy(t).id = message[t]
    BY DEF Copy, MailOf
  <2> QED BY <1>3, <2>2, <2>3
<1>12. HandedApart'
  BY <1>5, <1>6, <1>11 DEF HandedApart, Data
<1>13. AskedIsKept'
  BY <1>5, <1>6 DEF AskedIsKept, Data
<1>14. new \notin BeingHanded \cup Queued \cup taken \cup stored \cup failed
  BY <1>4 DEF MailsAreOwn
<1>15. InOnePlace'
  BY <1>7, <1>8, <1>14 DEF InOnePlace
<1> QED BY <1>2, <1>4, <1>9, <1>10, <1>12, <1>13, <1>15

\* The channel takes a mail.
LEMMA HandOverOwn ==
  ASSUME OwnInv, TypeInv', NEW s \in Sessions, HandOver(s)
  PROVE  OwnInv'
<1> USE DEF OwnInv, TypeInv, TypeOK, TransactionTypeOK
<1>1. Handing(s) /\ HandedOver(s) /\ ~Handing(s)'
  BY DEF HandOver, HandedOver, Handing
<1>2. Copy(s) \in Mails
  BY <1>1, HandOverTypes
<1>3. \A t \in Sessions : t # s =>
        (Handing(t)' <=> Handing(t)) /\ message'[t] = message[t] /\ Copy(t)' = Copy(t)
  BY <1>1 DEF HandedOver, Handing, Copy
<1>4. \A t \in Sessions : t # s /\ Handing(t) => Copy(t) # Copy(s)
  BY <1>1 DEF HandedApart, Copy, MailOf
<1>5. BeingHanded = BeingHanded' \cup {Copy(s)} /\ Copy(s) \notin BeingHanded'
  <2>1. ASSUME NEW t \in Sessions, Handing(t), t # s PROVE Copy(t) \in BeingHanded'
    BY <1>3, <2>1 DEF BeingHanded
  <2>2. ASSUME NEW t \in Sessions, Handing(t)'
        PROVE  Copy(t)' \in BeingHanded /\ Copy(t)' # Copy(s)
    BY <1>1, <1>3, <1>4, <2>2 DEF BeingHanded
  <2>3. Copy(s) \in BeingHanded
    BY <1>1 DEF BeingHanded
  <2> QED BY <2>1, <2>2, <2>3 DEF BeingHanded
<1>6. Queued = Elements(chMail) /\ Queued' = Elements(chMail') /\ IdsDiffer(chMail)
  BY DEF Queued, Elements, InOnePlace, IdsDiffer
<1>10. \A m \in Queued : m.id # Copy(s).id
  BY <1>5 DEF MailsAreOwn, IdsUnique, InOnePlace
<1>7. Queued' = Queued \cup {Copy(s)} /\ IdsDiffer(chMail')
  BY <1>2, <1>6, <1>10, ElementsAppended DEF HandOver
<1>8. UNCHANGED <<acked, taken, stored, failed>>
  BY DEF HandOver, HandedOver
<1>9. MailsAreOwn'
  BY <1>5, <1>7, <1>8 DEF MailsAreOwn
<1>12. InOnePlace'
  BY <1>5, <1>7, <1>8 DEF InOnePlace, IdsDiffer
<1>13. IdsUnique'
  BY <1>8 DEF IdsUnique
<1>14. HandedApart'
  BY <1>1, <1>3 DEF HandedApart
<1>15. AskedIsKept'
  <2>1. asked'[s] = NoEnvelope /\ mailItem'[s] = NoEnvelope
    BY <1>1 DEF HandedOver, AskedFits
  <2> QED BY <1>1, <1>3, <2>1 DEF AskedIsKept, HandedOver
<1> QED BY <1>9, <1>12, <1>13, <1>14, <1>15

\* The receivers take one.
LEMMA TakeMailOwn ==
  ASSUME OwnInv, TypeInv', TakeMail
  PROVE  OwnInv'
<1> USE DEF OwnInv, TypeInv, TypeOK, TransactionTypeOK, TakeMail
<1> DEFINE first == Head(chMail)
<1>1. Queued = Elements(chMail) /\ Queued' = Elements(chMail') /\ IdsDiffer(chMail)
  BY DEF Queued, Elements, InOnePlace, IdsDiffer
<1>3. Queued = Queued' \cup {first} /\ first \notin Queued' /\ IdsDiffer(chMail')
  BY <1>1, ElementsOfTail
<1>4. BeingHanded' = BeingHanded
  BY DEF transactionVars, BeingHanded, Copy, Handing
<1>5. MailsAreOwn'
  BY <1>3, <1>4 DEF MailsAreOwn, transactionVars
<1>7. InOnePlace'
  BY <1>3, <1>4 DEF InOnePlace, IdsDiffer
<1>8. AskedIsKept' /\ IdsUnique' /\ HandedApart'
  BY DEF AskedIsKept, IdsUnique, HandedApart, Handing, transactionVars
<1> QED BY <1>5, <1>7, <1>8

\* One is stored, or dropped.
LEMMA StoringOwn ==
  ASSUME OwnInv, TypeInv', NEW m \in taken, StoreMail(m) \/ StoreMailFails(m)
  PROVE  OwnInv'
<1> USE DEF StoreMail, StoreMailFails
<1>1. BeingHanded' = BeingHanded /\ Queued' = Queued
  BY DEF transactionVars, BeingHanded, Copy, Handing, Queued
<1>2. /\ taken' = taken \ {m} /\ acked' = acked /\ chMail' = chMail
      /\ \/ stored' = stored \cup {m} /\ failed' = failed
         \/ failed' = failed \cup {m} /\ stored' = stored
  BY DEF transactionVars
<1>3. m \in taken /\ m \notin stored \cup failed
  BY DEF OwnInv, InOnePlace
<1>4. MailsAreOwn'
  BY <1>1, <1>2 DEF OwnInv, MailsAreOwn
<1>5. InOnePlace'
  BY <1>1, <1>2, <1>3 DEF OwnInv, InOnePlace
<1>6. AskedIsKept' /\ IdsUnique' /\ HandedApart'
  BY DEF OwnInv, AskedIsKept, IdsUnique, HandedApart, Handing, transactionVars
<1> QED BY <1>4, <1>5, <1>6 DEF OwnInv

\* Steps that leave mails where they are.
Elsewhere ==
  \/ StartListener \/ AcceptLoop \/ ReceiversReturn
  \/ \E k \in Closers : Stop(k)
  \/ UNCHANGED vars

LEMMA ElsewhereKept ==
  ASSUME Elsewhere
  PROVE  UNCHANGED transactionVars /\ UNCHANGED <<chMail, taken, stored, failed>>
BY DEF Elsewhere, StartListener, AcceptLoop, ReceiversReturn, Stop, vars, pipelineVars

LEMMA StepOwn == ASSUME Orderly, OwnInv, [Next]_vars PROVE OwnInv'
<1>0. TypeInv'
  BY StepTypes DEF OwnInv
<1>1. CASE Elsewhere
  BY <1>0, <1>1, ElsewhereKept, TransactionKept
<1>2. CASE Connect
  BY <1>0, <1>2, CommandKept, TransactionKept DEF Connect, pipelineVars
<1>3. ASSUME NEW s \in Sessions, Command(s) PROVE OwnInv'
  <2>1. UNCHANGED <<chMail, taken, stored, failed>>
    BY <1>3 DEF Command, pipelineVars
  <2>2. ASSUME NEW id \in 1..MaxMails, Data(s, id) PROVE OwnInv'
    BY <1>0, <2>1, <2>2, DataOwn
  <2> QED BY <1>0, <1>3, <2>1, <2>2, CommandKept DEF Command, ClientCommand
<1>4. ASSUME NEW s \in Sessions, HandOver(s) PROVE OwnInv'
  BY <1>0, <1>4, HandOverOwn
<1>5. CASE TakeMail
  BY <1>0, <1>5, TakeMailOwn
<1>6. CASE Storing
  BY <1>0, <1>6, StoringOwn DEF Storing
<1> QED BY <1>1, <1>2, <1>3, <1>4, <1>5, <1>6 DEF Next, Elsewhere

LEMMA OwnInvariant == ASSUME Orderly PROVE Spec => []OwnInv
<1>1. OwnInv /\ [Next]_vars => OwnInv'
  BY StepOwn
<1> QED BY <1>1, InitOwn, PTL DEF Spec

\* With clients that keep to the order of commands, what is waiting, stored or lost is
\* what was acknowledged, sender and recipients as asked for, for any number of sessions
\* that share the channel.
THEOREM MailsStayTheirOwn == ASSUME Orderly PROVE Spec => []MailsAreOwn
<1>1. OwnInv => MailsAreOwn
  BY DEF OwnInv
<1> QED BY <1>1, OwnInvariant, PTL

\* And no mail is in two of the places between session and database, nor twice in the
\* channel (DataExecutor's hand-over, the receivers' loop and StoreMail).
THEOREM MailsInOnePlace == ASSUME Orderly PROVE Spec => []InOnePlace
<1>1. OwnInv => InOnePlace
  BY DEF OwnInv
<1> QED BY <1>1, OwnInvariant, PTL

-----------------------------------------------------------------------------
(* The pipeline implements the promise of MailDelivery. *)

LEMMA StepDelivers ==
  ASSUME Orderly, OwnInv, [Next]_vars
  PROVE  [Delivery!Next]_(Delivery!deliveryVars)
<1> USE DEF Delivery!deliveryVars
<1>1. CASE UNCHANGED <<acked, stored, failed>>
  BY <1>1
<1>2. CASE Elsewhere
  BY <1>2, ElsewhereKept, <1>1 DEF transactionVars
<1>3. CASE Connect
  BY <1>1, <1>3 DEF Connect, pipelineVars, transactionVars, BeginSession
<1>4. ASSUME NEW s \in Sessions, Command(s) PROVE [Delivery!Next]_(Delivery!deliveryVars)
  <2>1. ASSUME NEW id \in 1..MaxMails, Data(s, id)
        PROVE  [Delivery!Next]_(Delivery!deliveryVars)
    <3>1. UNCHANGED <<chMail, taken, stored, failed>>
      BY <1>4 DEF Command, pipelineVars
    <3>2. /\ MailOf(id, asked[s]) \in Mails \ acked
          /\ acked' = acked \cup {MailOf(id, asked[s])}
      BY <2>1, <3>1, StepTypes, DataOwn DEF OwnInv
    <3>3. Delivery!Acknowledge(MailOf(id, asked[s]))
      BY <3>1, <3>2 DEF Delivery!Acknowledge
    <3> QED BY <3>2, <3>3 DEF Delivery!Next
  <2>2. CASE UNCHANGED acked
    BY <1>1, <1>4, <2>2 DEF Command, pipelineVars
  <2> QED BY <1>4, <2>1, <2>2
          DEF Command, ClientCommand, EndSession, Reset, Mail, Rcpt
<1>5. ASSUME NEW s \in Sessions, HandOver(s) PROVE UNCHANGED <<acked, stored, failed>>
  BY <1>5 DEF HandOver, HandedOver
<1>6. CASE TakeMail
  BY <1>1, <1>6 DEF TakeMail, transactionVars
<1>7. ASSUME NEW m \in taken, StoreMail(m) \/ StoreMailFails(m)
      PROVE  [Delivery!Next]_(Delivery!deliveryVars)
  <2>1. m \in Mails /\ m \in acked \ (stored \cup failed)
    BY DEF OwnInv, TypeInv, TypeOK, MailsAreOwn, InOnePlace
  <2>2. CASE StoreMail(m)
    <3>1. Delivery!Store(m)
      BY <2>1, <2>2 DEF StoreMail, Delivery!Store, transactionVars
    <3> QED BY <2>1, <3>1 DEF Delivery!Next
  <2>3. CASE StoreMailFails(m)
    <3>1. Delivery!Drop(m)
      BY <2>1, <2>3 DEF StoreMailFails, Delivery!Drop, transactionVars
    <3> QED BY <2>1, <3>1 DEF Delivery!Next
  <2> QED BY <1>7, <2>2, <2>3
<1> QED BY <1>1, <1>2, <1>3, <1>4, <1>5, <1>6, <1>7 DEF Next, Elsewhere, Storing

\* With orderly clients an acknowledged mail is stored once, as it was asked for, or
\* dropped by the database, and nothing else is ever stored.
THEOREM PipelineDelivers ==
  ASSUME Orderly PROVE Spec => ImplementsSafeDelivery
<1>1. Init => Delivery!Init
  BY DEF Init, TransactionInit, Delivery!Init
<1>2. OwnInv /\ [Next]_vars => [Delivery!Next]_(Delivery!deliveryVars)
  BY StepDelivers
<1> QED BY <1>1, <1>2, OwnInvariant, PTL DEF Spec, ImplementsSafeDelivery, Delivery!SafeSpec

-----------------------------------------------------------------------------
(* A stop is not taken for a failure. *)

\* How far those who stop the service are, once there is a listener, and what the accept
\* loop sees of it: running is cleared before the socket is closed, and never set again.
StopInv ==
  /\ startPc \in {"new", "made", "opening"} => acceptPc = "none" /\ socket = "none"
  /\ socket = "none" => \A k \in Closers : closerPc[k] = "idle"
  /\ \A k \in Closers : closerPc[k] \in {"socket", "done"} => ~running
  /\ socket = "closed" => ~running
  /\ acceptPc # "none" => socket # "none"

ListenerInv == ListenerTypeOK /\ StopInv

LEMMA InitListener == Init => ListenerInv
BY DEF Init, ListenerInit, ListenerInv, ListenerTypeOK, StopInv

\* Every step of the pipeline is one of the listener, or leaves it alone.
LEMMA ListenerSteps ==
  ASSUME [Next]_vars
  PROVE  \/ StartStep \/ AcceptConnection \/ AcceptOther
         \/ \E k \in Closers : CallClose(k) \/ CloserStep(k)
         \/ UNCHANGED listenerVars
BY DEF Next, StartListener, Connect, AcceptLoop, Stop, Command, HandOver, TakeMail,
   ReceiversReturn, Storing, StoreMail, StoreMailFails, vars

LEMMA StepListener ==
  ASSUME ~EarlyClose, ListenerInv, [Next]_vars
  PROVE  ListenerInv'
<1> USE DEF ListenerInv
<1>1. ListenerTypeOK'
  BY ListenerTypes, ListenerSteps
<1>2. ASSUME StartStep PROVE StopInv'
  BY <1>2 DEF StartStep, StartAt, MakeListener, ListenAndServe, OpenListener, OpenFails,
     ServeReturns, StopInv, ListenerTypeOK
<1>3. ASSUME AcceptConnection \/ AcceptOther PROVE StopInv'
  BY <1>3 DEF AcceptConnection, AcceptOther, AcceptAt, SelectClose, AcceptFails,
     AskRunning, LoopCloses, LoopStores, StopInv, ListenerTypeOK
<1>4. ASSUME NEW k \in Closers, CallClose(k) \/ CloserStep(k) PROVE StopInv'
  BY <1>4 DEF CallClose, CloserStep, CloseStop, CloseListener, StoreRunning, CloseSocket,
     CloserAt, StopInv, ListenerTypeOK
<1>5. ASSUME UNCHANGED listenerVars PROVE StopInv'
  BY <1>5 DEF listenerVars, StopInv
<1> QED BY <1>1, <1>2, <1>3, <1>4, <1>5, ListenerSteps

LEMMA ListenerInvariant ==
  ASSUME ~EarlyClose PROVE Spec => []ListenerInv
<1>1. ListenerInv /\ [Next]_vars => ListenerInv'
  BY StepListener
<1> QED BY <1>1, InitListener, PTL DEF Spec

\* Whoever stops the service once its listener is open, however often, and whether or not
\* accepting fails by itself: the accept loop closes chClose only for an error of a
\* socket that is still open, never because a stop has closed it.
THEOREM StopsAreNoFailures ==
  ASSUME ~EarlyClose PROVE Spec => StopIsNoFailure
<1>1. ASSUME ListenerInv, [Next]_vars
      PROVE  [acceptPc = "failed" /\ acceptPc' = "closing" => socket = "open"]_listenerVars
  <2> SUFFICES ASSUME acceptPc = "failed", acceptPc' = "closing" PROVE socket = "open"
    OBVIOUS
  <2>1. running
    BY <1>1, ListenerSteps
       DEF StartStep, StartAt, MakeListener, ListenAndServe, OpenListener, OpenFails,
           ServeReturns, AcceptConnection, AcceptOther, AcceptAt, SelectClose, AcceptFails,
           AskRunning, LoopCloses, LoopStores, CallClose, CloserStep, CloseStop,
           CloseListener, StoreRunning, CloseSocket, CloserAt, listenerVars
  <2> QED BY <1>1, <2>1 DEF ListenerInv, StopInv, ListenerTypeOK
<1> QED BY <1>1, ListenerInvariant, PTL DEF Spec, StopIsNoFailure
==============================================================================
