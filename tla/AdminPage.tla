------------------------------ MODULE AdminPage ------------------------------
(***************************************************************************)
(* The administration page: AdminController.js with the requests of         *)
(* SeedService.js, MailService.js, SettingsService.js and VersionService.js *)
(* it makes, the blocked page (PageBlock) and the server (AdminServer).     *)
(*                                                                         *)
(* Templates and data are loaded side by side, panels are drawn by whoever  *)
(* comes last, handlers are put on buttons whenever a panel is drawn, and   *)
(* every message, of whatever request, unblocks the page.                  *)
(***************************************************************************)
EXTENDS AdminServer, PageBlock

CONSTANTS
  MaxInFlight,    \* bound: requests of the page at a time
  MaxHandlers,    \* bound: handlers on the Save button
  Saves,          \* whether users save settings
  Failures        \* how requests may fail; "Forbidden" is told apart

ASSUME AdminPageAssumption ==
  /\ MaxInFlight \in Nat \ {0} /\ MaxInFlight = MaxDeleting
  /\ MaxHandlers \in Nat \ {0}
  /\ Saves \in BOOLEAN

VARIABLES
  templates,      \* templates that have been compiled
  panels,         \* panels in the document
  onRemove,       \* click handlers on #btnRemove
  onSave,         \* click handlers on #btnSaveSettings
  confirming,     \* the dialog that asks whether to prune
  requests,       \* requests on their way
  stored,         \* localStorage["settings"].theme
  currentTheme,   \* the controller's
  away            \* the browser has gone to the login page

drawnVars == <<panels, onRemove, onSave>>
pageVars == <<templates, drawnVars, confirming, requests, stored, currentTheme, away>>
vars == <<serverVars, blockVars, pageVars>>

Ids == 1..MaxInFlight
Templates == {"adminPrune", "adminSettings"}

\* A request, what it carries (a prune code or theme), and how far it is; the numbers it
\* is answered with only end up in a message and a label.
Requests ==
  [id : Ids, kind : {"options", "count", "recount", "prune", "save", "version"},
   what : Codes \cup Themes \cup {"nothing"},
   at : {"sent", "ok"} \cup Failures]

TypeOK ==
  /\ ServerTypeOK /\ PageBlockTypeOK
  /\ templates \subseteq Templates /\ panels \subseteq Templates
  /\ onRemove \in 0..1 /\ onSave \in 0..MaxHandlers
  /\ confirming \in BOOLEAN
  /\ requests \subseteq Requests
  /\ stored \in Themes /\ currentTheme \in Themes \cup {"nothing"}
  /\ away \in BOOLEAN

Request(id, kind, what) ==
  [id |-> id, kind |-> kind, what |-> what, at |-> "sent"]

FreeIds == Ids \ ({r.id : r \in requests} \cup {d.id : d \in deleting})

\* The page as it is loaded: getPruneOptions is on its way, the templates are too.
Loaded(id) ==
  /\ templates' = {} /\ panels' = {}
  /\ onRemove' = 0 /\ onSave' = 0 /\ confirming' = FALSE
  /\ requests' = {Request(id, "options", "nothing")}
  /\ currentTheme' = "nothing"
  /\ isBlocked' = FALSE /\ layers' = {}

Init ==
  /\ ServerInit /\ PageBlockInit
  /\ templates = {} /\ panels = {}
  /\ onRemove = 0 /\ onSave = 0 /\ confirming = FALSE
  /\ requests = {Request(1, "options", "nothing")}
  /\ stored = FirstTheme /\ currentTheme = "nothing"
  /\ away = FALSE

-----------------------------------------------------------------------------
(* The server works on a request. *)

Served(r, at) == requests' = (requests \ {r}) \cup {[r EXCEPT !.at = at]}

\* Options, counts and the version.
ServeRead(r) ==
  /\ r \in requests /\ r.at = "sent" /\ r.kind \in {"options", "count", "recount", "version"}
  /\ \E at \in {"ok"} \cup Failures : Served(r, at)
  /\ UNCHANGED <<serverVars, blockVars, templates, drawnVars, confirming,
                 stored, currentTheme, away>>

\* POST /theme.
ServeSave(r) ==
  /\ r \in requests /\ r.at = "sent" /\ r.kind = "save"
  /\ \/ ApplyTheme(r.what, TRUE) /\ Served(r, "ok")
     \/ \E f \in Failures : ApplyTheme(r.what, FALSE) /\ Served(r, f)
     \/ \E f \in Failures : UNCHANGED serverVars /\ Served(r, f)
  /\ UNCHANGED <<blockVars, templates, drawnVars, confirming, stored,
                 currentTheme, away>>

\* The two statements of DELETE /mail.
ServePrune ==
  /\ \E d \in deleting : DeleteAttachments(d) \/ DeleteMails(d)
  /\ UNCHANGED <<blockVars, pageVars>>

\* Its answer leaves the server, or is lost; nobody waits for it if the page has been
\* left.
AnswerPrune(d) ==
  /\ d \in deleting /\ d.at \in {"done", "failed"}
  /\ deleting' = deleting \ {d}
  /\ LET r == {q \in requests : q.id = d.id}
     IN \/ r = {} /\ requests' = requests
        \/ \E q \in r :
             \/ d.at = "done" /\ Served(q, "ok")
             \/ \E f \in Failures : Served(q, f)
  /\ UNCHANGED <<mails, attachments, known, theme, file, blockVars, templates, drawnVars,
                 confirming, stored, currentTheme, away>>

\* Mails come in.
Receive ==
  /\ \E id \in MailIds, day \in Days : StoreMail(id, day)
  /\ UNCHANGED <<blockVars, pageVars>>

\* The server restarts, and what was on its way fails.
ServerRestart ==
  /\ Restart
  /\ \E f \in Failures :
       requests' = {IF r.at = "sent" THEN [r EXCEPT !.at = f] ELSE r : r \in requests}
  /\ UNCHANGED <<blockVars, templates, drawnVars, confirming, stored,
                 currentTheme, away>>

-----------------------------------------------------------------------------
(* Loading and drawing. *)

LoadTemplate(t) ==
  /\ ~away /\ t \notin templates
  /\ templates' = templates \cup {t}
  /\ UNCHANGED <<serverVars, blockVars, drawnVars, confirming, requests, stored,
                 currentTheme, away>>

Answered(r, kind, at) == ~away /\ r \in requests /\ r.kind = kind /\ r.at = at

\* The next request of a chain takes the place of the one answered.
Follow(r, kind) == requests' = (requests \ {r}) \cup {Request(r.id, kind, "nothing")}

OptionsCome(r) ==
  /\ Answered(r, "options", "ok")
  /\ Follow(r, "count")
  /\ UNCHANGED <<serverVars, blockVars, templates, drawnVars, confirming, stored,
                 currentTheme, away>>

\* renderPruneTemplate, renderSettingsTemplate, initialize with checkVersion, unblock;
\* a template that is not there yet ends it with a TypeError and a message.
CountComes(r) ==
  /\ Answered(r, "count", "ok")
  /\ currentTheme' = stored
  /\ panels' = CASE "adminPrune" \notin templates -> {}
                 [] templates = {"adminPrune"} -> {"adminPrune"}
                 [] OTHER -> Templates
  /\ IF panels' = Templates
     THEN onRemove' = 1 /\ onSave' = 1 /\ Unblock /\ Follow(r, "version")
     ELSE Alert /\ requests' = requests \ {r} /\ UNCHANGED <<onRemove, onSave>>
  /\ UNCHANGED <<serverVars, templates, confirming, stored, away>>

\* After a prune only the prune panel is drawn anew, but initialize sees to both buttons.
RecountComes(r) ==
  /\ Answered(r, "recount", "ok")
  /\ onRemove' = 1 /\ onSave' = onSave + 1
  /\ Follow(r, "version")
  /\ Alert
  /\ UNCHANGED <<serverVars, templates, panels, confirming, stored,
                 currentTheme, away>>

\* checkVersion shows its banner for an older version only, and the server answers the
\* same version to both requests; that the second fails nobody notices.
VersionComes(r) ==
  /\ \E at \in {"ok"} \cup Failures : Answered(r, "version", at)
  /\ requests' = requests \ {r}
  /\ UNCHANGED <<serverVars, blockVars, templates, drawnVars, confirming, stored,
                 currentTheme, away>>

\* Mutant: a failed prune is passed over in silence.
RequestFailsSilent(r) ==
  /\ ~away /\ r \in requests /\ r.at \in Failures
  /\ requests' = requests \ {r}
  /\ IF r.kind = "prune" THEN UNCHANGED blockVars ELSE Alert
  /\ away' = (r.at = "Forbidden")
  /\ UNCHANGED <<serverVars, templates, drawnVars, confirming, stored, currentTheme>>

\* Every catch: to the login page, if that is the reason, and a message.
RequestFails(r) ==
  /\ ~away /\ r \in requests /\ r.at \in Failures
  /\ requests' = requests \ {r}
  /\ Alert
  /\ away' = (r.at = "Forbidden")
  /\ UNCHANGED <<serverVars, templates, drawnVars, confirming, stored, currentTheme>>

-----------------------------------------------------------------------------
(* The user. *)

Reachable == ~away /\ (KeysReach \/ MouseReaches)

PressRemove ==
  /\ Reachable /\ ~confirming
  /\ "adminPrune" \in panels /\ onRemove > 0
  /\ confirming' = TRUE
  /\ UNCHANGED <<serverVars, blockVars, templates, drawnVars, requests, stored,
                 currentTheme, away>>

Decline ==
  /\ Reachable /\ confirming
  /\ confirming' = FALSE
  /\ UNCHANGED <<serverVars, blockVars, templates, drawnVars, requests, stored,
                 currentTheme, away>>

\* Bound: every prune puts another handler on the Save button.
HandlersBounded ==
  onSave + Cardinality({r \in requests : r.kind \in {"prune", "recount"}}) < MaxHandlers

\* The confirmed prune: block("Pruning..."), and DELETE /mail with the code selected.
Confirm(code) ==
  /\ Reachable /\ confirming
  /\ HandlersBounded
  /\ confirming' = FALSE
  /\ Block
  /\ \E id \in FreeIds :
       /\ requests' = requests \cup {Request(id, "prune", code)}
       /\ deleting' = deleting \cup {[id |-> id, code |-> code, at |-> "sent"]}
  /\ UNCHANGED <<mails, attachments, known, theme, file, templates, drawnVars, stored,
                 currentTheme, away>>

\* Its answer: the mails are counted again.
PruneDone(r) ==
  /\ Answered(r, "prune", "ok")
  /\ Follow(r, "recount")
  /\ UNCHANGED <<serverVars, blockVars, templates, drawnVars, confirming, stored,
                 currentTheme, away>>

\* Save: each handler stores the settings and posts the theme.
PressSave(t) ==
  /\ Saves
  /\ Reachable /\ ~confirming
  /\ "adminSettings" \in panels
  /\ onSave \in 1..Cardinality(FreeIds)
  /\ stored' = t
  /\ \E ids \in SUBSET FreeIds :
       /\ Cardinality(ids) = onSave
       /\ requests' = requests \cup {Request(id, "save", t) : id \in ids}
  /\ UNCHANGED <<serverVars, blockVars, templates, drawnVars, confirming,
                 currentTheme, away>>

\* The theme has been applied: another theme loads the page anew, the same is reported.
\* A new page does not wait for what the old one asked for.
SaveDone(r) ==
  /\ Answered(r, "save", "ok")
  /\ IF r.what # currentTheme
     THEN \E id \in Ids \ {d.id : d \in deleting} : Loaded(id)
     ELSE /\ requests' = requests \ {r}
          /\ Alert
          /\ UNCHANGED <<templates, drawnVars, confirming, currentTheme>>
  /\ UNCHANGED <<serverVars, stored, away>>

Fade == FadeDone /\ UNCHANGED <<serverVars, pageVars>>

-----------------------------------------------------------------------------
Serve ==
  \/ \E r \in requests : ServeRead(r) \/ ServeSave(r)
  \/ ServePrune
  \/ \E d \in deleting : AnswerPrune(d)

Come ==
  \/ \E t \in Templates : LoadTemplate(t)
  \/ \E r \in requests :
       \/ OptionsCome(r) \/ CountComes(r) \/ RecountComes(r) \/ VersionComes(r)
       \/ PruneDone(r) \/ SaveDone(r) \/ RequestFails(r)

User ==
  \/ PressRemove \/ Decline
  \/ \E code \in Codes : Confirm(code)
  \/ \E t \in Themes : PressSave(t)

Next == Serve \/ Come \/ User \/ Receive \/ ServerRestart \/ Fade

Spec == Init /\ [][Next]_vars

\* The server answers, answers arrive, timers fire.  Users and senders of mails do what
\* they like.
FairSpec ==
  /\ Spec
  /\ WF_vars(ServePrune) /\ WF_vars(Fade)
  /\ \A id \in Ids :
       /\ WF_vars(\E d \in deleting : d.id = id /\ AnswerPrune(d))
       /\ WF_vars(\E r \in requests : r.id = id /\ (ServeRead(r) \/ ServeSave(r)))
       /\ WF_vars(\E r \in requests : r.id = id /\
            (\/ OptionsCome(r) \/ CountComes(r) \/ RecountComes(r) \/ VersionComes(r)
             \/ PruneDone(r) \/ SaveDone(r) \/ RequestFails(r)))
  /\ \A t \in Templates : WF_vars(LoadTemplate(t))

-----------------------------------------------------------------------------
(* Properties. *)

\* A blocked page comes back.
PageComesBack == isBlocked ~> (~isBlocked \/ away)
==============================================================================
