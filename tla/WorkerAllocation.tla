-------------------------- MODULE WorkerAllocation ---------------------------
(***************************************************************************)
(* What the worker pool promises its users: a fixed set of workers is lent *)
(* out, the one that has been idle longest first, each to one connection   *)
(* at a time; a connection gets one worker at most, and every worker is    *)
(* given back in the end.  SmtpServer implements this specification as     *)
(* long as its clients are polite and it is not shut down.                 *)
(***************************************************************************)
EXTENDS Naturals, Sequences, FiniteSets

CONSTANTS Workers, Conns, NoConn

VARIABLES
  idle,      \* the idle workers, longest idle first
  owner,     \* owner[w]: the connection w is lent to, or NoConn
  served,    \* connections that have been lent a worker
  halted     \* the program has been stopped from outside

vars == <<idle, owner, served, halted>>

Init ==
  /\ idle \in [1..Cardinality(Workers) -> Workers]
  /\ \A i, j \in 1..Cardinality(Workers) : idle[i] = idle[j] => i = j
  /\ owner = [w \in Workers |-> NoConn]
  /\ served = {}
  /\ halted = FALSE

Lend(w, c) ==
  /\ ~halted
  /\ idle # <<>>
  /\ w = Head(idle)
  /\ owner[w] = NoConn
  /\ c \notin served
  /\ idle' = Tail(idle)
  /\ owner' = [owner EXCEPT ![w] = c]
  /\ served' = served \cup {c}
  /\ UNCHANGED halted

GiveBack(w) ==
  /\ ~halted
  /\ owner[w] # NoConn
  /\ idle' = Append(idle, w)
  /\ owner' = [owner EXCEPT ![w] = NoConn]
  /\ UNCHANGED <<served, halted>>

Halt ==
  /\ ~halted
  /\ halted' = TRUE
  /\ UNCHANGED <<idle, owner, served>>

Next ==
  \/ \E w \in Workers, c \in Conns : Lend(w, c)
  \/ \E w \in Workers : GiveBack(w)
  \/ Halt

Spec == Init /\ [][Next]_vars
FairSpec == Spec /\ \A w \in Workers : WF_vars(GiveBack(w))
=============================================================================
