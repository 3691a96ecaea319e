----------------------------- MODULE ApiAccess -------------------------------
(***************************************************************************)
(* Requests of the API on their way through JWTAuth                        *)
(* (handlers/middleware/jwt.go) to their handlers: APIRouter in            *)
(* internal/app/router.go puts it before every one of them.                *)
(*                                                                         *)
(* What a call is answered is a sequence, since what is written to a       *)
(* response twice is sent twice.                                           *)
(***************************************************************************)
EXTENDS Integers, Sequences

CONSTANTS
  Tokens,       \* what tokens issued in former times say
  NoToken,
  MaxCalls,     \* bound: calls at a time
  MayRestart    \* whether the server may stop and start with other settings

ASSUME ApiAccessAssumption == MaxCalls \in Nat \ {0} /\ MayRestart \in BOOLEAN

VARIABLES
  scheme,   \* config.AuthenticationScheme
  good,     \* tokens signed with the secret, not expired, of a known user
  calls     \* calls, with the token each bears, the runs of its handler, its answer

apiVars == <<scheme, good, calls>>

\* A token as CreateToken signs it, and as it is handed out, encrypted by EncryptToken.
Signed(t) == [form |-> "signed", token |-> t]
Sealed(t) == [form |-> "sealed", token |-> t]

Schemes == {"none", "basic"}
Bearers == {Sealed(t) : t \in Tokens} \cup {NoToken}
Answers == UNION {[1..n -> {"value", "refused"}] : n \in 0..2}
Calls ==
  [id : 1..MaxCalls, token : Bearers, at : {"sent", "opened", "done", "lost"},
   ran : 0..2, answer : Answers]

ASSUME NoTokenAssumption == \A t \in Tokens : NoToken # Sealed(t)

ApiTypeOK ==
  /\ scheme \in Schemes /\ good \subseteq Tokens
  /\ calls \subseteq Calls
  /\ \A c, d \in calls : c.id = d.id => c = d

Call(id, token) == [id |-> id, token |-> token, at |-> "sent", ran |-> 0, answer |-> <<>>]

Advance(c, at, ran, answer) ==
  calls' = (calls \ {c}) \cup {[c EXCEPT !.at = at, !.ran = ran, !.answer = answer]}

-----------------------------------------------------------------------------
\* JWTService.Parse decrypts the token of the header, and compares that very header with
\* the decrypted token signed again.
Parses(bearer) == \E t \in good : bearer = Sealed(t) /\ Signed(t) = bearer

\* Without authentication the handler runs for no user in particular, and the function
\* goes on.
PassOpen(c) ==
  /\ c \in calls /\ c.at = "sent" /\ scheme = "none"
  /\ Advance(c, "opened", c.ran + 1, Append(c.answer, "value"))
  /\ UNCHANGED <<scheme, good>>

AtToken(c) == c.at = "opened" \/ (c.at = "sent" /\ scheme = "basic")

\* The token of the header: 401 if there is none or Parse returns an error, and the
\* handler otherwise.
CheckToken(c) ==
  /\ c \in calls /\ AtToken(c)
  /\ IF Parses(c.token)
     THEN Advance(c, "done", c.ran + 1, Append(c.answer, "value"))
     ELSE Advance(c, "done", c.ran, Append(c.answer, "refused"))
  /\ UNCHANGED <<scheme, good>>

Expire(t) ==
  /\ t \in good /\ good' = good \ {t}
  /\ UNCHANGED <<scheme, calls>>

\* Another scheme, secret or set of users.  Connections break.
RestartApi ==
  /\ MayRestart
  /\ scheme' \in Schemes /\ good' \in SUBSET Tokens
  /\ calls' = {[c EXCEPT !.at = "lost", !.ran = 0, !.answer = <<>>] : c \in calls}

ApiStep(c) == PassOpen(c) \/ CheckToken(c)
==============================================================================
