------------------------ MODULE ClientSessionProofs --------------------------
(***************************************************************************)
(* Proofs about ClientSession, for any tokens, calls, browsers, and restarts *)
(* with other settings: with any scheme the variables keep their types, so   *)
(* a call is answered at most twice.                                        *)
(***************************************************************************)
EXTENDS ClientSession, SequenceTheorems, TLAPS

Untouched(c) == c.ran = 0 /\ c.answer = <<>>

\* A call that waits for the check of its token has been answered by the branch before
\* it or by nobody.
Placed(c) ==
  /\ c \in Calls
  /\ c.at = "sent" => Untouched(c)
  /\ c.at = "opened" => c.ran = 1 /\ c.answer = <<"value">>

CallsTyped ==
  /\ \A c \in calls : Placed(c)
  /\ \A c, d \in calls : c.id = d.id => c = d

\* Answers have two parts at most.
LEMMA AnswerLengths ==
  /\ <<>> \in Answers
  /\ \A a, b \in {"value", "refused"} : <<a>> \in Answers /\ <<a, b>> \in Answers
<1>1. \A f : f \in [1..0 -> {"value", "refused"}] \/ f \in [1..1 -> {"value", "refused"}]
             \/ f \in [1..2 -> {"value", "refused"}] => f \in Answers
  BY DEF Answers
<1>2. <<>> \in [1..0 -> {"value", "refused"}]
  OBVIOUS
<1>3. \A a, b \in {"value", "refused"} :
        <<a>> \in [1..1 -> {"value", "refused"}] /\ <<a, b>> \in [1..2 -> {"value", "refused"}]
  OBVIOUS
<1> QED BY <1>1, <1>2, <1>3

\* A sequence of one element and a second one.
LEMMA TwoAppended ==
  ASSUME NEW V, NEW s \in Seq(V), NEW a \in V, Len(s) = 1
  PROVE  Append(s, a) \in [1..2 -> V]
<1>1. Append(s, a) \in Seq(V) /\ Len(Append(s, a)) = Len(s) + 1
  OBVIOUS
<1>2. \A t \in Seq(V) : t \in [1..Len(t) -> V]
  BY LenProperties
<1>3. Len(s) + 1 = 2
  OBVIOUS
<1> DEFINE t == Append(s, a)
<1> HIDE DEF t
<1>4. t \in Seq(V) /\ Len(t) = 2
  BY <1>1, <1>3 DEF t
<1>5. t \in [1..2 -> V]
  BY <1>2, <1>4
<1> QED BY <1>5 DEF t

\* Answers grow by parts.
LEMMA OneAppended ==
  ASSUME NEW a \in {"value", "refused"}
  PROVE  Append(<<>>, a) = <<a>> /\ Append(<<"value">>, a) \in Answers
<1>1. Append(<<>>, a) = <<a>>
  OBVIOUS
<1> DEFINE s == <<"value">>
           V == {"value", "refused"}
<1>2. s \in Seq(V) /\ Len(s) = 1 /\ a \in V
  OBVIOUS
<1>3. \A t : t \in [1..2 -> V] => t \in Answers
  BY DEF Answers
<1> HIDE DEF s, V
<1>4. Append(s, a) \in [1..2 -> V]
  BY <1>2, TwoAppended
<1>5. Append(s, a) \in Answers
  BY <1>3, <1>4
<1> QED BY <1>1, <1>5 DEF s

\* A step of one call.
LEMMA AdvanceTypes ==
  ASSUME CallsTyped, NEW c \in calls, NEW at \in {"opened", "done"}, NEW ran \in 0..2,
         NEW answer \in Answers, Advance(c, at, ran, answer),
         at = "opened" => ran = 1 /\ answer = <<"value">>
  PROVE  CallsTyped'
<1> DEFINE d == [c EXCEPT !.at = at, !.ran = ran, !.answer = answer]
<1>0. c \in Calls /\ at \in {"sent", "opened", "done", "lost"}
  BY DEF CallsTyped, Placed
<1>1. d \in Calls /\ d.id = c.id /\ d.at = at /\ d.ran = ran /\ d.answer = answer
  <2>1. /\ [c EXCEPT !.at = at, !.ran = ran, !.answer = answer] \in Calls
        /\ [c EXCEPT !.at = at, !.ran = ran, !.answer = answer].id = c.id
        /\ [c EXCEPT !.at = at, !.ran = ran, !.answer = answer].at = at
        /\ [c EXCEPT !.at = at, !.ran = ran, !.answer = answer].ran = ran
        /\ [c EXCEPT !.at = at, !.ran = ran, !.answer = answer].answer = answer
    BY <1>0 DEF Calls
  <2> QED BY <2>1
<1>2. calls' = (calls \ {c}) \cup {d}
  BY DEF Advance
<1> HIDE DEF d
<1>3. Placed(d)
  BY <1>1 DEF Placed
<1>4. \A e \in calls' : Placed(e)
  BY <1>2, <1>3 DEF CallsTyped
<1>5. \A e, f \in calls' : e.id = f.id => e = f
  <2>1. \A e, f \in calls : e.id = f.id => e = f
    BY DEF CallsTyped
  <2> QED BY <1>1, <1>2, <2>1
<1> QED BY <1>4, <1>5 DEF CallsTyped

LEMMA ApiStepTypes ==
  ASSUME CallsTyped, NEW c \in calls, ApiStep(c)
  PROVE  CallsTyped'
<1>1. Placed(c)
  BY DEF CallsTyped
<1>2. CASE PassOpen(c)
  <2>1. c.at = "sent" /\ Advance(c, "opened", c.ran + 1, Append(c.answer, "value"))
    BY <1>2 DEF PassOpen
  <2>2. c.ran = 0 /\ c.answer = <<>>
    BY <1>1, <2>1 DEF Placed, Untouched
  <2>3. 0 + 1 = 1 /\ Append(<<>>, "value") = <<"value">>
    BY OneAppended
  <2>4. Advance(c, "opened", 1, <<"value">>)
    BY <2>1, <2>2, <2>3
  <2>5. <<"value">> \in Answers /\ 1 \in 0..2
    BY AnswerLengths
  <2> QED BY <2>4, <2>5, AdvanceTypes
<1>3. CASE CheckToken(c)
  <2>1. c.at = "sent" \/ c.at = "opened"
    BY <1>3 DEF CheckToken, AtToken
  <2>2. \/ Advance(c, "done", c.ran + 1, Append(c.answer, "value"))
        \/ Advance(c, "done", c.ran, Append(c.answer, "refused"))
    BY <1>3 DEF CheckToken
  <2>3. /\ c.ran \in {0, 1}
        /\ c.answer = <<>> \/ c.answer = <<"value">>
    BY <1>1, <2>1 DEF Placed, Untouched
  <2>4. \A a \in {"value", "refused"} : Append(c.answer, a) \in Answers
    <3> QED BY <2>3, OneAppended, AnswerLengths
  <2>5. c.ran \in 0..2 /\ c.ran + 1 \in 0..2
    BY <2>3
  <2> QED BY <2>2, <2>4, <2>5, AdvanceTypes
<1> QED BY <1>2, <1>3 DEF ApiStep

LEMMA RestartTypes ==
  ASSUME CallsTyped, RestartApi
  PROVE  CallsTyped'
<1> DEFINE lost(c) == [c EXCEPT !.at = "lost", !.ran = 0, !.answer = <<>>]
<1>1. calls' = {lost(c) : c \in calls}
  BY DEF RestartApi
<1>2. ASSUME NEW c \in calls PROVE lost(c) \in Calls /\ lost(c).id = c.id /\ lost(c).at = "lost"
  <2>1. c \in Calls /\ 0 \in 0..2 /\ <<>> \in Answers
    BY AnswerLengths DEF CallsTyped, Placed
  <2>2. "lost" \in {"sent", "opened", "done", "lost"}
    OBVIOUS
  <2> QED BY <2>1, <2>2 DEF Calls
<1> HIDE DEF lost
<1>3. \A d \in calls' : Placed(d)
  BY <1>1, <1>2 DEF Placed
<1>4. \A d, e \in calls' : d.id = e.id => d = e
  <2> SUFFICES ASSUME NEW c \in calls, NEW b \in calls, lost(c).id = lost(b).id
               PROVE  lost(c) = lost(b)
    BY <1>1
  <2> QED BY <1>2 DEF CallsTyped
<1> QED BY <1>3, <1>4 DEF CallsTyped

\* What a browser does to the calls: one more, or one less.
LEMMA BrowserTypes ==
  ASSUME CallsTyped, jwt \in Bearers, Browser
  PROVE  CallsTyped'
<1>1. CASE calls' \subseteq calls
  BY <1>1 DEF CallsTyped
<1>2. CASE OpenHome
  <2>1. ASSUME NEW id \in 1..MaxCalls, \A c \in calls : c.id # id, calls' = calls \cup {Call(id, jwt)}
        PROVE  CallsTyped'
    <3>1. /\ Call(id, jwt) \in Calls /\ Call(id, jwt).id = id
          /\ Call(id, jwt).at = "sent" /\ Untouched(Call(id, jwt))
      BY AnswerLengths DEF Call, Calls, Untouched
    <3>2. Placed(Call(id, jwt))
      BY <3>1 DEF Placed
    <3> QED BY <2>1, <3>1, <3>2 DEF CallsTyped
  <2>2. CASE UNCHANGED calls
    BY <1>1, <2>2
  <2> QED BY <1>2, <2>1, <2>2 DEF OpenHome
<1>3. CASE ~OpenHome
  <2>1. calls' \subseteq calls
    BY <1>3 DEF Browser, ServeSettings, SettingsCome, SettingsFail, CallEnds, CallForgotten,
                Answer, apiVars
  <2> QED BY <1>1, <2>1
<1> QED BY <1>2, <1>3

\* With any scheme, changed by restarts as one likes, a call is answered twice at most
\* and its handler runs twice at most (JWTAuth in handlers/middleware/jwt.go), and a
\* browser has one call of its own.
THEOREM VisitTypeCorrect == Spec => []TypeOK
<1> DEFINE Rest == /\ scheme \in Schemes /\ good \subseteq Tokens
                   /\ place \in Places
                   /\ settings \in {"absent"} \cup Schemes
                   /\ jwt \in Bearers
                   /\ asking \in {"no", "sent", "failed"} \cup Schemes
                   /\ script \in {"none", "running", "shown", "threw"}
                   /\ mine \in 0..MaxCalls
                   /\ told \in BOOLEAN
<1>1. Init => CallsTyped /\ Rest
  <2> SUFFICES ASSUME Init PROVE CallsTyped /\ Rest
    OBVIOUS
  <2>1. CallsTyped
    BY DEF Init, CallsTyped
  <2>2. 0 \in 0..MaxCalls
    BY ApiAccessAssumption
  <2>3. Rest
    BY <2>2 DEF Init, Places
  <2> QED BY <2>1, <2>3
<1>2. CallsTyped /\ Rest /\ [Next]_vars => CallsTyped'
  <2> SUFFICES ASSUME CallsTyped, Rest, [Next]_vars PROVE CallsTyped'
    OBVIOUS
  <2>1. CASE Server
    <3>1. ASSUME UNCHANGED calls PROVE CallsTyped'
      BY <3>1 DEF CallsTyped
    <3> QED BY <2>1, <3>1, ApiStepTypes, RestartTypes DEF Server, Expire
  <2>2. CASE UNCHANGED vars
    BY <2>2 DEF vars, apiVars, CallsTyped
  <2> QED BY <2>1, <2>2, BrowserTypes DEF Next
<1>3. Rest /\ [Next]_vars => Rest'
  <2> SUFFICES ASSUME Rest, [Next]_vars PROVE Rest'
    OBVIOUS
  <2>1. CASE Server /\ UNCHANGED browserVars
    BY <2>1 DEF Server, ApiStep, PassOpen, CheckToken, Expire, RestartApi, browserVars
  <2>2. CASE OpenHome
    <3>1. IndexPage \in Places
      BY DEF IndexPage, Places
    <3>2. mine' \in 0..MaxCalls
      <4>1. 0 \in 0..MaxCalls /\ 1..MaxCalls \subseteq 0..MaxCalls
        BY ApiAccessAssumption
      <4>2. mine' = 0 \/ \E id \in 1..MaxCalls : mine' = id
        BY <2>2 DEF OpenHome
      <4> QED BY <4>1, <4>2
    <3>3. asking' \in {"no", "sent", "failed"} \cup Schemes
      BY <2>2 DEF OpenHome
    <3>4. script' \in {"none", "running", "shown", "threw"}
      BY <2>2 DEF OpenHome
    <3>5. place' \in Places /\ told' = FALSE /\ UNCHANGED <<scheme, good, settings, jwt>>
      BY <2>2, <3>1 DEF OpenHome
    <3>6. jwt' \in Bearers
      BY <3>5 DEF Bearers
    <3> QED BY <3>2, <3>3, <3>4, <3>5, <3>6
  <2>3. CASE ServeSettings \/ SettingsFail
    BY <2>3 DEF ServeSettings, SettingsFail, apiVars
  <2>4. CASE SettingsCome
    <3>1. LoginPage \in Places /\ 0 \in 0..MaxCalls
      BY ApiAccessAssumption DEF LoginPage, Places
    <3> QED BY <2>4, <3>1 DEF SettingsCome, apiVars
  <2>5. ASSUME NEW c \in calls, CallEnds(c) \/ CallForgotten(c) PROVE Rest'
    <3>1. 0 \in 0..MaxCalls
      BY ApiAccessAssumption
    <3>2. CASE CallEnds(c)
      BY <3>1, <3>2 DEF CallEnds
    <3>3. CASE CallForgotten(c)
      BY <3>3 DEF CallForgotten, browserVars
    <3> QED BY <2>5, <3>2, <3>3
  <2>6. CASE UNCHANGED vars
    BY <2>6 DEF vars, apiVars, browserVars
  <2> QED BY <2>1, <2>2, <2>3, <2>4, <2>5, <2>6 DEF Next, Browser
<1>4. CallsTyped /\ Rest => TypeOK
  BY DEF CallsTyped, Placed, TypeOK, ApiTypeOK
<1> QED BY <1>1, <1>2, <1>3, <1>4, PTL DEF Spec
==============================================================================
