---------------------------- MODULE MCSmtpServer -----------------------------
(* Instances of SmtpServer for TLC. *)
EXTENDS SmtpServer

\* Every connection comes from an address of its own.
OwnAddress == [c \in Conns |-> c]
=============================================================================
