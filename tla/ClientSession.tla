--------------------------- MODULE ClientSession -----------------------------
(***************************************************************************)
(* A browser that visits the home page: what the page is answered           *)
(* (handlers/pages.go, internal/ui), what app.js and HomeController.js do   *)
(* with localStorage before anything is shown, and the first call of the    *)
(* API, which is answered by ApiAccess.                                    *)
(*                                                                         *)
(* localStorage outlives the visits, and server and browser are restarted   *)
(* independently of each other.                                            *)
(***************************************************************************)
EXTENDS ApiAccess

CONSTANTS
  UserAttached,   \* whether something gives page requests a user; Router does not
  Impatient       \* whether users load the page again while it waits for an answer

ASSUME ClientSessionAssumption == UserAttached \in BOOLEAN /\ Impatient \in BOOLEAN

VARIABLES
  place,      \* what the browser shows: nothing yet, a page, or a blank or refused one
  settings,   \* localStorage["serviceSettings"]: the scheme in it
  jwt,        \* localStorage["jwt"]
  asking,     \* app.js's GET /servicesettings
  script,     \* HomeController's constructor
  mine,       \* the call of this visit
  told        \* an error has been reported

browserVars == <<place, settings, jwt, asking, script, mine, told>>
vars == <<apiVars, browserVars>>

Places == {"nothing", "home", "refused", "login", "blank"}

TypeOK ==
  /\ ApiTypeOK
  /\ place \in Places
  /\ settings \in {"absent"} \cup Schemes
  /\ jwt \in Bearers
  /\ asking \in {"no", "sent", "failed"} \cup Schemes
  /\ script \in {"none", "running", "shown", "threw"}
  /\ mine \in 0..MaxCalls
  /\ told \in BOOLEAN

Init ==
  /\ scheme \in Schemes /\ good \in SUBSET Tokens /\ calls = {}
  /\ place = "nothing" /\ settings = "absent" /\ jwt \in Bearers
  /\ asking = "no" /\ script = "none" /\ mine = 0 /\ told = FALSE

-----------------------------------------------------------------------------
(* Pages. *)

\* The names LoadTemplates gives the templates, and those the handlers ask for.
TemplateNames ==
  {"mainLayout:admin", "mainLayout:index", "mainLayout:manageSavedSearches",
   "loginLayout:login"}
NameOf == [index |-> "mainLayout:index", login |-> "mainLayout:login"]

\* PageIndex, which asks for a user first.
IndexPage == IF UserAttached /\ NameOf["index"] \in TemplateNames THEN "home" ELSE "refused"

\* PageLogin; the renderer's error leaves an empty answer.
LoginPage == IF NameOf["login"] \in TemplateNames THEN "login" ELSE "blank"

\* A visit of "/".  The constructor runs first: without settings getServiceURL throws, and
\* nothing is asked of the API.  app.js then asks for the settings, if there are none.
OpenHome ==
  /\ Impatient \/ (mine = 0 /\ asking = "no")
  /\ place' = IndexPage
  /\ told' = FALSE
  /\ IF IndexPage # "home" \/ settings = "absent"
     THEN mine' = 0 /\ UNCHANGED calls
     ELSE \E id \in 1..MaxCalls :
            /\ \A c \in calls : c.id # id
            /\ mine' = id
            /\ calls' = calls \cup {Call(id, jwt)}
  /\ script' = CASE IndexPage # "home" -> "none"
                 [] settings = "absent" -> "threw"
                 [] OTHER -> "running"
  /\ asking' = IF IndexPage = "home" /\ settings = "absent" THEN "sent" ELSE "no"
  /\ UNCHANGED <<scheme, good, settings, jwt>>

-----------------------------------------------------------------------------
(* app.js. *)

\* GetServiceSettings, which asks for a user too; the network may fail.
ServeSettings ==
  /\ asking = "sent"
  /\ \/ UserAttached /\ asking' = scheme
     \/ asking' = "failed"
  /\ UNCHANGED <<apiVars, place, settings, jwt, script, mine, told>>

\* The settings are stored, and a browser without a token goes to the login page.
SettingsCome ==
  /\ asking \in Schemes
  /\ settings' = asking /\ asking' = "no"
  /\ IF asking = "basic" /\ jwt = NoToken
     THEN place' = LoginPage /\ script' = "none" /\ mine' = 0
     ELSE UNCHANGED <<place, script, mine>>
  /\ UNCHANGED <<apiVars, jwt, told>>

SettingsFail ==
  /\ asking = "failed"
  /\ asking' = "no" /\ told' = TRUE
  /\ UNCHANGED <<apiVars, place, settings, jwt, script, mine>>

-----------------------------------------------------------------------------
(* The call. *)

Answer(c) == c \in calls /\ c.at \in {"done", "lost"} /\ calls' = calls \ {c}

\* Mutant: only a refusal is reported.
CallEndsQuietly(c) ==
  /\ Answer(c) /\ c.id = mine
  /\ mine' = 0
  /\ script' = IF c.answer = <<"value">> THEN "shown" ELSE script
  /\ told' = (told \/ c.answer = <<"refused">>)
  /\ UNCHANGED <<scheme, good, place, settings, jwt, asking>>

\* A list is shown; anything else, an answer that cannot be parsed included, is reported.
\* A 401 is "Unauthorized" to jQuery, which isUnauthorized does not look for.
CallEnds(c) ==
  /\ Answer(c) /\ c.id = mine
  /\ mine' = 0
  /\ script' = IF c.answer = <<"value">> THEN "shown" ELSE script
  /\ told' = (told \/ c.answer # <<"value">>)
  /\ UNCHANGED <<scheme, good, place, settings, jwt, asking>>

\* The call of a page that has been left.
CallForgotten(c) ==
  /\ Answer(c) /\ c.id # mine
  /\ UNCHANGED <<scheme, good, browserVars>>

-----------------------------------------------------------------------------
Server ==
  \/ \E c \in calls : ApiStep(c)
  \/ \E t \in Tokens : Expire(t)
  \/ RestartApi

Browser ==
  \/ OpenHome \/ ServeSettings \/ SettingsCome \/ SettingsFail
  \/ \E c \in calls : CallEnds(c) \/ CallForgotten(c)

Next == (Server /\ UNCHANGED browserVars) \/ Browser

Spec == Init /\ [][Next]_vars

\* Requests are served and answers arrive.
FairSpec ==
  /\ Spec
  /\ WF_vars(ServeSettings) /\ WF_vars(SettingsCome) /\ WF_vars(SettingsFail)
  /\ \A id \in 1..MaxCalls :
       /\ WF_vars(\E c \in calls : c.id = id /\ ApiStep(c) /\ UNCHANGED browserVars)
       /\ WF_vars(\E c \in calls : c.id = id /\ (CallEnds(c) \/ CallForgotten(c)))

-----------------------------------------------------------------------------
(* Properties. *)

Deciding == place = "home" /\ script \in {"running", "threw"}

\* The list is shown, the user is told, or the browser is sent to the login page, or has
\* learned the settings it lacked.
Decided ==
  \/ script = "shown" \/ told
  \/ place = "blank" \/ place = "login"
  \/ script = "threw" /\ settings # "absent"

\* A visit does not stay undecided, once its user stops loading the page anew: calls of
\* pages that have been left do not stand in the way of the last one's, and tokens that
\* expire or a server that restarts end it like any other error.
VisitEnds == <>[][~OpenHome]_vars => (Deciding ~> Decided)
==============================================================================
