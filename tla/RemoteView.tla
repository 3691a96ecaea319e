----------------------------- MODULE RemoteView ------------------------------
(***************************************************************************)
(* What the home page promises of its list: it asks the server one question *)
(* at a time, and shows the answer to the last question answered, whole.    *)
(* While a question is pending nothing else is asked, so that an answer     *)
(* never meets a state other than the one it was asked in.                  *)
(***************************************************************************)
CONSTANTS
  Queries,    \* the questions that can be asked
  NoQuery     \* none of them

VARIABLES
  pending,    \* the question on its way, or NoQuery
  shown       \* the question whose answer is shown, or NoQuery

viewVars == <<pending, shown>>

Init == pending = NoQuery /\ shown = NoQuery

Ask ==
  /\ pending = NoQuery
  /\ pending' \in Queries
  /\ UNCHANGED shown

Show ==
  /\ pending # NoQuery
  /\ shown' = pending
  /\ pending' = NoQuery

Fail ==
  /\ pending # NoQuery
  /\ pending' = NoQuery
  /\ UNCHANGED shown

Next == Ask \/ Show \/ Fail

SafeSpec == Init /\ [][Next]_viewVars

Spec == SafeSpec /\ WF_viewVars(Show \/ Fail)
==============================================================================
