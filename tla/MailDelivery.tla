---------------------------- MODULE MailDelivery -----------------------------
(***************************************************************************)
(* What the mail server promises of a message: once acknowledged it is      *)
(* stored, once, with the envelope its client gave it; or, if storing       *)
(* fails, it is dropped.                                                   *)
(***************************************************************************)
CONSTANT Mails

VARIABLES acked, stored, dropped

deliveryVars == <<acked, stored, dropped>>

Init == acked = {} /\ stored = {} /\ dropped = {}

Acknowledge(m) ==
  /\ m \notin acked
  /\ acked' = acked \cup {m}
  /\ UNCHANGED <<stored, dropped>>

Store(m) ==
  /\ m \in acked \ (stored \cup dropped)
  /\ stored' = stored \cup {m}
  /\ UNCHANGED <<acked, dropped>>

Drop(m) ==
  /\ m \in acked \ (stored \cup dropped)
  /\ dropped' = dropped \cup {m}
  /\ UNCHANGED <<acked, stored>>

Next == \E m \in Mails : Acknowledge(m) \/ Store(m) \/ Drop(m)

SafeSpec == Init /\ [][Next]_deliveryVars
==============================================================================
