-------------------------- MODULE AdminPageProofs ----------------------------
(***************************************************************************)
(* Pruning takes what it was asked for and nothing else, attachments go     *)
(* with their mails, the overlay stands while the page is blocked, and      *)
(* every variable keeps its type: for any mails, days, prunes and users.    *)
(***************************************************************************)
EXTENDS AdminPage, FiniteSetTheorems, TLAPS

\* What is kept in the tables: a mail is there once, and has been stored.
MailsDistinct ==
  /\ \A m \in mails : m.id \in known
  /\ \A m, n \in mails : m.id = n.id => m = n

StoreInv == MailsDistinct /\ NoOrphans

-----------------------------------------------------------------------------
(* The steps that change the tables. *)

LEMMA StoreMailKeeps ==
  ASSUME StoreInv, NEW id, NEW day, StoreMail(id, day)
  PROVE  StoreInv' /\ mails \subseteq mails' /\ attachments \subseteq attachments'
<1> DEFINE new == [id |-> id, day |-> day]
<1>1. /\ id \notin known /\ known' = known \cup {id}
      /\ mails' = mails \cup {new}
      /\ attachments' \in {attachments, attachments \cup {id}}
  BY DEF StoreMail
<1>2. new.id = id
  OBVIOUS
<1>3. MailsDistinct'
  BY <1>1, <1>2 DEF StoreInv, MailsDistinct
<1>4. NoOrphans'
  <2> SUFFICES ASSUME NEW a \in attachments' PROVE \E m \in mails' : a = m.id
    BY DEF NoOrphans
  <2>1. CASE a = id
    BY <2>1, <1>1, <1>2
  <2>2. CASE a # id
    <3>1. a \in attachments
      BY <2>2, <1>1
    <3>2. PICK m \in mails : a = m.id
      BY <3>1 DEF StoreInv, NoOrphans
    <3> QED BY <3>2, <1>1
  <2> QED BY <2>1, <2>2
<1> QED BY <1>1, <1>3, <1>4 DEF StoreInv

\* Both statements leave alone what is not selected.
LEMMA StatementKeeps ==
  ASSUME StoreInv, NEW d \in deleting, DeleteAttachments(d) \/ DeleteMails(d)
  PROVE  /\ StoreInv'
         /\ \A m \in mails : ~Selected(d.code, m.day) =>
              m \in mails' /\ (m.id \in attachments => m.id \in attachments')
<1> DEFINE gone == {m \in mails : Selected(d.code, m.day)}
           goneIds == {m.id : m \in gone}
<1>1. known' = known
  BY DEF DeleteAttachments, DeleteMails
<1>2. \A m \in mails : m.id \in goneIds => m \in gone
  <2> SUFFICES ASSUME NEW m \in mails, m.id \in goneIds PROVE m \in gone
    OBVIOUS
  <2>1. PICK n \in gone : m.id = n.id
    OBVIOUS
  <2>2. m = n
    BY <2>1 DEF StoreInv, MailsDistinct
  <2> QED BY <2>1, <2>2
<1>3. CASE DeleteAttachments(d)
  <2>1. mails' = mails /\ (attachments' = attachments \ goneIds \/ attachments' = attachments)
    BY <1>3 DEF DeleteAttachments
  <2>2. StoreInv'
    BY <2>1, <1>1 DEF StoreInv, MailsDistinct, NoOrphans
  <2> QED BY <2>1, <2>2, <1>2
<1>4. CASE DeleteMails(d)
  <2>1. \/ mails' = mails \ gone /\ attachments' = attachments \ goneIds
        \/ mails' = mails /\ attachments' = attachments
    BY <1>4 DEF DeleteMails
  <2>2. MailsDistinct'
    BY <2>1, <1>1 DEF StoreInv, MailsDistinct
  <2>3. NoOrphans'
    <3>1. CASE mails' = mails /\ attachments' = attachments
      BY <3>1 DEF StoreInv, NoOrphans
    <3>2. CASE mails' = mails \ gone /\ attachments' = attachments \ goneIds
      <4> SUFFICES ASSUME NEW a \in attachments' PROVE \E m \in mails' : a = m.id
        BY DEF NoOrphans
      <4>1. a \in attachments /\ a \notin goneIds
        BY <3>2
      <4>2. PICK m \in mails : a = m.id
        BY <4>1 DEF StoreInv, NoOrphans
      <4>3. m \notin gone
        BY <4>1, <4>2
      <4> QED BY <4>2, <4>3, <3>2
    <3> QED BY <2>1, <3>1, <3>2
  <2> QED BY <2>1, <2>2, <2>3, <1>2 DEF StoreInv
<1> QED BY <1>3, <1>4

-----------------------------------------------------------------------------
(* All steps. *)

\* The steps of the page leave the tables alone.
LEMMA TablesChange ==
  ASSUME Next
  PROVE  \/ \E id \in MailIds, day \in Days : StoreMail(id, day)
         \/ \E d \in deleting : DeleteAttachments(d) \/ DeleteMails(d)
         \/ UNCHANGED <<mails, attachments, known>>
<1>1. CASE Serve
  BY <1>1 DEF Serve, ServeRead, ServeSave, ServePrune, AnswerPrune, ApplyTheme, serverVars
<1>2. CASE Come
  BY <1>2 DEF Come, LoadTemplate, OptionsCome, CountComes, RecountComes, VersionComes,
              PruneDone, SaveDone, RequestFails, serverVars
<1>3. CASE User
  BY <1>3 DEF User, PressRemove, Decline, Confirm, PressSave, serverVars
<1>4. CASE Receive
  BY <1>4 DEF Receive
<1>5. CASE ServerRestart
  BY <1>5 DEF ServerRestart, Restart
<1>6. CASE Fade
  BY <1>6 DEF Fade, serverVars
<1> QED BY <1>1, <1>2, <1>3, <1>4, <1>5, <1>6 DEF Next

LEMMA StoreInvStep ==
  ASSUME StoreInv, [Next]_vars
  PROVE  StoreInv'
<1>1. CASE UNCHANGED <<mails, attachments, known>>
  BY <1>1 DEF StoreInv, MailsDistinct, NoOrphans
<1>2. CASE Next
  BY <1>1, <1>2, TablesChange, StoreMailKeeps, StatementKeeps
<1>3. CASE UNCHANGED vars
  BY <1>1, <1>3 DEF vars, serverVars
<1> QED BY <1>2, <1>3

LEMMA StoreInvInit ==
  ASSUME Init
  PROVE  StoreInv
<1>1. mails = [id : Old, day : {1}] /\ attachments = Old /\ known = Old
  BY DEF Init, ServerInit
<1>2. \A m \in mails : m.id \in Old /\ m = [id |-> m.id, day |-> 1]
  BY <1>1
<1>3. MailsDistinct
  <2>1. \A m, n \in mails : m.id = n.id => m = n
    BY <1>2, Zenon
  <2> QED BY <2>1, <1>1, <1>2 DEF MailsDistinct
<1>4. \A a \in Old : [id |-> a, day |-> 1] \in mails /\ [id |-> a, day |-> 1].id = a
  BY <1>1
<1>5. NoOrphans
  BY <1>1, <1>4 DEF NoOrphans
<1> QED BY <1>3, <1>5 DEF StoreInv

THEOREM StoreInvariant == Spec => []StoreInv
<1>1. Init => StoreInv
  BY StoreInvInit
<1>2. StoreInv /\ [Next]_vars => StoreInv'
  BY StoreInvStep
<1> QED BY <1>1, <1>2, PTL DEF Spec

\* No attachment is ever without its mail (DeleteMailsAfterDate deletes attachments in a
\* statement of its own, and receivers store mails between the two).
THEOREM AttachmentsHaveMails == Spec => []NoOrphans
<1>1. StoreInv => NoOrphans
  BY DEF StoreInv
<1> QED BY <1>1, StoreInvariant, PTL

-----------------------------------------------------------------------------
\* A step takes no mail, and no attachment, that no prune under way was asked to delete
\* (DeleteMailsAfterDate with its two statements, prunes side by side).
THEOREM PrunesKeepOthers == Spec => OthersKept
<1> DEFINE Kept == \A m \in mails : ~Asked(m) =>
                     m \in mails' /\ (m.id \in attachments => m.id \in attachments')
<1>1. StoreInv /\ [Next]_vars => [Kept]_serverVars
  <2> SUFFICES ASSUME StoreInv, [Next]_vars PROVE [Kept]_serverVars
    OBVIOUS
  <2>1. CASE UNCHANGED <<mails, attachments, known>>
    BY <2>1
  <2>2. ASSUME NEW d \in deleting, DeleteAttachments(d) \/ DeleteMails(d) PROVE Kept
    <3>1. \A m \in mails : ~Asked(m) => ~Selected(d.code, m.day)
      BY DEF Asked, Selected
    <3> QED BY <3>1, <2>2, StatementKeeps
  <2>3. ASSUME NEW id \in MailIds, NEW day \in Days, StoreMail(id, day) PROVE Kept
    BY <2>3, StoreMailKeeps
  <2>4. CASE Next
    BY <2>1, <2>2, <2>3, <2>4, TablesChange
  <2>5. CASE UNCHANGED vars
    BY <2>5 DEF vars
  <2> QED BY <2>4, <2>5
<1> QED BY <1>1, StoreInvariant, PTL DEF Spec, OthersKept

-----------------------------------------------------------------------------
(* The blocked page. *)

\* What a step of the page may do to its block: loading it anew takes every layer away.
LEMMA StepBlocks ==
  ASSUME [Next]_vars
  PROVE  \/ Block \/ Unblock \/ FadeDone \/ UNCHANGED blockVars
         \/ isBlocked' = FALSE /\ layers' = {}
<1>1. CASE Serve
  BY <1>1 DEF Serve, ServeRead, ServeSave, ServePrune, AnswerPrune
<1>2. ASSUME NEW t \in Templates, LoadTemplate(t) PROVE UNCHANGED blockVars
  BY <1>2 DEF LoadTemplate
<1>3. ASSUME NEW r \in requests, CountComes(r) PROVE Unblock
  BY <1>3 DEF CountComes, Alert
<1>4. ASSUME NEW r \in requests, RecountComes(r) \/ RequestFails(r) PROVE Unblock
  BY <1>4 DEF RecountComes, RequestFails, Alert
<1>5. ASSUME NEW r \in requests, OptionsCome(r) \/ VersionComes(r) \/ PruneDone(r)
      PROVE  UNCHANGED blockVars
  BY <1>5 DEF OptionsCome, VersionComes, PruneDone
<1>6. ASSUME NEW r \in requests, SaveDone(r)
      PROVE  Unblock \/ (isBlocked' = FALSE /\ layers' = {})
  <2>1. CASE r.what # currentTheme
    <3>1. PICK id \in Ids \ {d.id : d \in deleting} : Loaded(id)
      BY <1>6, <2>1 DEF SaveDone
    <3> QED
      BY <3>1 DEF Loaded
  <2>2. CASE r.what = currentTheme
    BY <1>6, <2>2 DEF SaveDone, Alert
  <2> QED
    BY <2>1, <2>2
<1>7. CASE User
  <2>1. ASSUME PressRemove \/ Decline PROVE UNCHANGED blockVars
    BY <2>1 DEF PressRemove, Decline
  <2>2. ASSUME NEW code \in Codes, Confirm(code) PROVE Block
    BY <2>2 DEF Confirm
  <2>3. ASSUME NEW t \in Themes, PressSave(t) PROVE UNCHANGED blockVars
    BY <2>3 DEF PressSave
  <2> QED
    BY <1>7, <2>1, <2>2, <2>3 DEF User
<1>8. CASE Receive \/ ServerRestart \/ Fade \/ UNCHANGED vars
  BY <1>8 DEF Receive, ServerRestart, Fade, vars
<1> QED
  BY <1>1, <1>2, <1>3, <1>4, <1>5, <1>6, <1>7, <1>8 DEF Next, Come

\* The overlay lies over the page exactly while it is blocked, although every message, of
\* whatever request, ends the block of a prune (AlertService.js, jquery.blockUI.js).
THEOREM AdminOverlayAgrees == Spec => []OverlayAgrees
<1>1. Init => OverlayAgrees
  BY DEF Init, PageBlockInit, OverlayAgrees
<1>2. OverlayAgrees /\ [Next]_vars => OverlayAgrees'
  <2> SUFFICES ASSUME OverlayAgrees, [Next]_vars PROVE OverlayAgrees'
    OBVIOUS
  <2>1. CASE Block
    BY <2>1 DEF Block, OverlayAgrees
  <2>2. CASE Unblock
    BY <2>2 DEF Unblock, OverlayAgrees
  <2>3. CASE FadeDone
    BY <2>3 DEF FadeDone, OverlayAgrees
  <2>4. CASE UNCHANGED blockVars \/ (isBlocked' = FALSE /\ layers' = {})
    BY <2>4 DEF blockVars, OverlayAgrees
  <2> QED
    BY <2>1, <2>2, <2>3, <2>4, StepBlocks
<1> QED
  BY <1>1, <1>2, PTL DEF Spec

-----------------------------------------------------------------------------
(* Types. *)

\* What is on its way: only a save carries a theme.
Carried == \A r \in requests : r \in Requests /\ (r.kind = "save" => r.what \in Themes)

LEMMA StatementTypes ==
  ASSUME ServerTypeOK, NEW d \in deleting, DeleteAttachments(d) \/ DeleteMails(d)
  PROVE  ServerTypeOK'
<1>1. /\ mails' \subseteq mails /\ attachments' \subseteq attachments
      /\ UNCHANGED <<known, theme, file>>
  BY DEF DeleteAttachments, DeleteMails
<1>2. \E at \in {"cut", "done", "failed"} : PruneAt(d, at)
  BY DEF DeleteAttachments, DeleteMails
<1>3. deleting' \subseteq Prunes
  <2>1. PICK at \in {"cut", "done", "failed"} : PruneAt(d, at)
    BY <1>2
  <2>2. d \in Prunes
    BY DEF ServerTypeOK
  <2>3. [d EXCEPT !.at = at] \in Prunes
    BY <2>2 DEF Prunes
  <2> QED BY <2>1, <2>3 DEF PruneAt, ServerTypeOK
<1> QED BY <1>1, <1>3 DEF ServerTypeOK

LEMMA ServerTypes ==
  ASSUME ServerTypeOK, Carried, [Next]_vars
  PROVE  ServerTypeOK'
<1>1. CASE UNCHANGED serverVars
  BY <1>1 DEF serverVars, ServerTypeOK
<1>2. CASE Serve
  <2>1. ASSUME NEW r \in requests, ServeRead(r) PROVE UNCHANGED serverVars
    BY <2>1 DEF ServeRead
  <2>2. ASSUME NEW r \in requests, ServeSave(r) PROVE ServerTypeOK'
    <3>1. CASE UNCHANGED serverVars
      BY <1>1, <3>1
    <3>2. CASE \E ok \in BOOLEAN : ApplyTheme(r.what, ok)
      <4>1. r.what \in Themes
        BY <2>2 DEF ServeSave, Carried
      <4> QED BY <3>2, <4>1 DEF ApplyTheme, ServerTypeOK
    <3> QED BY <2>2, <3>1, <3>2 DEF ServeSave
  <2>3. ASSUME ServePrune PROVE ServerTypeOK'
    BY <2>3, StatementTypes DEF ServePrune
  <2>4. ASSUME NEW d \in deleting, AnswerPrune(d) PROVE ServerTypeOK'
    BY <2>4 DEF AnswerPrune, ServerTypeOK
  <2> QED BY <1>1, <1>2, <2>1, <2>2, <2>3, <2>4 DEF Serve
<1>3. CASE Come
  BY <1>1, <1>3 DEF Come, LoadTemplate, OptionsCome, CountComes, RecountComes, VersionComes,
                    PruneDone, SaveDone, RequestFails
<1>4. CASE User
  <2>1. ASSUME NEW code \in Codes, Confirm(code) PROVE ServerTypeOK'
    <3>1. PICK id \in FreeIds : deleting' = deleting \cup {[id |-> id, code |-> code, at |-> "sent"]}
      BY <2>1 DEF Confirm
    <3>2. id \in PruneIds
      BY AdminPageAssumption DEF FreeIds, Ids, PruneIds
    <3>3. [id |-> id, code |-> code, at |-> "sent"] \in Prunes
      BY <3>2 DEF Prunes
    <3> QED BY <2>1, <3>1, <3>3 DEF Confirm, ServerTypeOK
  <2> QED BY <1>1, <1>4, <2>1 DEF User, PressRemove, Decline, PressSave
<1>5. CASE Receive
  <2>1. PICK id \in MailIds, day \in Days : StoreMail(id, day)
    BY <1>5 DEF Receive
  <2>2. [id |-> id, day |-> day] \in [id : MailIds, day : Days]
    OBVIOUS
  <2> QED BY <2>1, <2>2 DEF StoreMail, ServerTypeOK
<1>6. CASE ServerRestart
  BY <1>6 DEF ServerRestart, Restart, ServerTypeOK
<1>7. CASE Fade \/ UNCHANGED vars
  BY <1>1, <1>7 DEF Fade, vars
<1> QED BY <1>2, <1>3, <1>4, <1>5, <1>6, <1>7 DEF Next

\* What a step may do to the requests on their way and to the handlers of the buttons.
HandlersKept == UNCHANGED <<onRemove, onSave>>

Moved(r) ==
  /\ HandlersKept
  /\ \/ \E at \in {"ok"} \cup Failures : Served(r, at)
     \/ r.kind = "options" /\ Follow(r, "count")
     \/ r.kind = "prune" /\ Follow(r, "recount")
     \/ requests' = requests \ {r}

Drawn(r) ==
  /\ r.kind = "count"
  /\ requests' = requests \ {r} \/ Follow(r, "version")
  /\ \/ HandlersKept
     \/ onSave' = 1 /\ onRemove' = 1

DrawnAnew(r) ==
  r.kind = "recount" /\ Follow(r, "version") /\ onRemove' = 1 /\ onSave' = onSave + 1

PruneAsked ==
  /\ HandlersKept /\ HandlersBounded
  /\ onRemove > 0
  /\ \E id \in Ids, code \in Codes : requests' = requests \cup {Request(id, "prune", code)}

SavesAsked ==
  /\ HandlersKept
  /\ onSave > 0
  /\ \E ids \in SUBSET Ids, t \in Themes :
       requests' = requests \cup {Request(id, "save", t) : id \in ids}

AllFail ==
  /\ HandlersKept
  /\ \E f \in Failures :
       requests' = {IF r.at = "sent" THEN [r EXCEPT !.at = f] ELSE r : r \in requests}

LEMMA RequestsChange ==
  ASSUME onSave \in Nat, onRemove \in 0..1, confirming => onRemove > 0, [Next]_vars
  PROVE  \/ UNCHANGED requests /\ HandlersKept
         \/ \E r \in requests : Moved(r) \/ Drawn(r) \/ DrawnAnew(r)
         \/ PruneAsked \/ SavesAsked \/ AllFail
         \/ \E id \in Ids : Loaded(id)
<1> USE DEF HandlersKept
<1>1. CASE Serve
  <2>1. ASSUME NEW r \in requests, ServeRead(r) PROVE Moved(r)
    BY <2>1 DEF ServeRead, Moved, drawnVars
  <2>2. ASSUME NEW r \in requests, ServeSave(r) PROVE Moved(r)
    BY <2>2 DEF ServeSave, Moved, drawnVars
  <2>3. ASSUME ServePrune PROVE UNCHANGED requests /\ HandlersKept
    BY <2>3 DEF ServePrune, pageVars, drawnVars
  <2>4. ASSUME NEW d \in deleting, AnswerPrune(d)
        PROVE  (UNCHANGED requests /\ HandlersKept) \/ \E r \in requests : Moved(r)
    BY <2>4 DEF AnswerPrune, Moved, drawnVars
  <2> QED BY <1>1, <2>1, <2>2, <2>3, <2>4 DEF Serve
<1>2. CASE Come
  <2>1. ASSUME NEW t \in Templates, LoadTemplate(t) PROVE UNCHANGED requests /\ HandlersKept
    BY <2>1 DEF LoadTemplate, drawnVars
  <2>2. ASSUME NEW r \in requests, OptionsCome(r) \/ VersionComes(r) \/ PruneDone(r)
        PROVE  Moved(r)
    BY <2>2 DEF OptionsCome, VersionComes, PruneDone, Answered, Moved, drawnVars
  <2>3. ASSUME NEW r \in requests, RequestFails(r) PROVE Moved(r)
    BY <2>3 DEF RequestFails, Moved, drawnVars
  <2>4. ASSUME NEW r \in requests, CountComes(r) PROVE Drawn(r)
    <3>1. r.kind = "count"
      BY <2>4 DEF CountComes, Answered
    <3>2. CASE panels' = Templates
      BY <2>4, <3>1, <3>2 DEF CountComes, Drawn
    <3>3. CASE panels' # Templates
      <4>1. requests' = requests \ {r}
        BY <2>4, <3>3 DEF CountComes
      <4>2. onRemove' = onRemove /\ onSave' = onSave
        BY <2>4, <3>3 DEF CountComes
      <4>3. HandlersKept
        BY <4>2
      <4> HIDE DEF HandlersKept
      <4> QED BY <3>1, <4>1, <4>3 DEF Drawn
    <3> QED BY <3>2, <3>3
  <2>5. ASSUME NEW r \in requests, RecountComes(r) PROVE DrawnAnew(r)
    BY <2>5 DEF RecountComes, Answered, DrawnAnew
  <2>6. ASSUME NEW r \in requests, SaveDone(r) PROVE Moved(r) \/ \E id \in Ids : Loaded(id)
    BY <2>6 DEF SaveDone, Moved, drawnVars
  <2> QED BY <1>2, <2>1, <2>2, <2>3, <2>4, <2>5, <2>6 DEF Come
<1>3. CASE User
  <2>1. ASSUME PressRemove \/ Decline PROVE UNCHANGED requests /\ HandlersKept
    BY <2>1 DEF PressRemove, Decline, drawnVars
  <2>2. ASSUME NEW code \in Codes, Confirm(code) PROVE PruneAsked
    BY <2>2 DEF Confirm, PruneAsked, drawnVars, FreeIds
  <2>3. ASSUME NEW t \in Themes, PressSave(t) PROVE SavesAsked
    <3>1. onSave > 0 /\ HandlersKept
      BY <2>3 DEF PressSave, drawnVars
    <3>2. SUBSET FreeIds \subseteq SUBSET Ids
      BY DEF FreeIds
    <3> QED BY <2>3, <3>1, <3>2 DEF PressSave, SavesAsked
  <2> QED BY <1>3, <2>1, <2>2, <2>3 DEF User
<1>4. CASE ServerRestart
  BY <1>4 DEF ServerRestart, AllFail, drawnVars
<1>5. CASE Receive \/ Fade \/ UNCHANGED vars
  BY <1>5 DEF Receive, Fade, vars, pageVars, drawnVars
<1> QED BY <1>1, <1>2, <1>3, <1>4, <1>5 DEF Next

\* Requests keep what they carry.
LEMMA CarriedStep ==
  ASSUME Carried, onSave \in Nat, onRemove \in 0..1, confirming => onRemove > 0, [Next]_vars
  PROVE  Carried'
<1> DEFINE Good(r) == r \in Requests /\ (r.kind = "save" => r.what \in Themes)
<1>0. \A r \in requests : Good(r)
  BY DEF Carried
<1>1. ASSUME NEW r \in requests, NEW at \in {"sent", "ok"} \cup Failures
      PROVE  Good([r EXCEPT !.at = at])
  <2>1. r \in Requests
    BY <1>0
  <2>2. /\ [r EXCEPT !.at = at] \in Requests
        /\ [r EXCEPT !.at = at].kind = r.kind /\ [r EXCEPT !.at = at].what = r.what
    BY <2>1 DEF Requests
  <2> QED BY <1>0, <2>2
<1>2. ASSUME NEW id \in Ids, NEW kind \in {"options", "count", "recount", "version"}
      PROVE  Good(Request(id, kind, "nothing"))
  BY DEF Request, Requests
<1>3. ASSUME NEW id \in Ids, NEW code \in Codes
      PROVE  Good(Request(id, "prune", code))
  BY DEF Request, Requests
<1>4. ASSUME NEW id \in Ids, NEW t \in Themes
      PROVE  Good(Request(id, "save", t))
  BY DEF Request, Requests
<1>5. \A r \in requests : r.id \in Ids
  BY DEF Carried, Requests
<1> SUFFICES \A r \in requests' : Good(r)
  BY DEF Carried
<1> HIDE DEF Good
<1>6. ASSUME NEW r \in requests, Moved(r) PROVE \A q \in requests' : Good(q)
  BY <1>0, <1>1, <1>2, <1>5, <1>6 DEF Moved, Served, Follow
<1>7. ASSUME NEW r \in requests, Drawn(r) \/ DrawnAnew(r) PROVE \A q \in requests' : Good(q)
  BY <1>0, <1>2, <1>5, <1>7 DEF Drawn, DrawnAnew, Follow
<1>8. ASSUME PruneAsked \/ SavesAsked PROVE \A q \in requests' : Good(q)
  BY <1>0, <1>3, <1>4, <1>8 DEF PruneAsked, SavesAsked
<1>9. ASSUME AllFail PROVE \A q \in requests' : Good(q)
  BY <1>0, <1>1, <1>9 DEF AllFail
<1>10. ASSUME NEW id \in Ids, Loaded(id) PROVE \A q \in requests' : Good(q)
  BY <1>2, <1>10 DEF Loaded
<1> QED BY <1>0, <1>6, <1>7, <1>8, <1>9, <1>10, RequestsChange

\* The page that is being loaded asks for one thing at a time, and has no handlers.
Loading(r) == r.kind \in {"options", "count"}
LoadsAlone == \A r \in requests : Loading(r) => requests = {r} /\ onRemove = 0 /\ onSave = 0

\* Each prune that has not been drawn will put one handler more on the Save button.
Pending == {r \in requests : r.kind \in {"prune", "recount"}}
Counted == IsFiniteSet(Pending) /\ onSave \in Nat /\ onSave + Cardinality(Pending) <= MaxHandlers

ConfirmsDrawn == onRemove \in 0..1 /\ (confirming => onRemove > 0)

LEMMA LoadsAloneStep ==
  ASSUME Carried, LoadsAlone, Counted, ConfirmsDrawn, [Next]_vars
  PROVE  LoadsAlone'
<1>1. ASSUME NEW r \in requests, NEW at
      PROVE  Loading([r EXCEPT !.at = at]) <=> Loading(r)
  <2>1. r \in Requests
    BY DEF Carried
  <2> QED BY <2>1 DEF Loading, Requests
<1>2. \A id, what : /\ ~Loading(Request(id, "prune", what)) /\ ~Loading(Request(id, "recount", what))
                    /\ ~Loading(Request(id, "save", what)) /\ ~Loading(Request(id, "version", what))
  BY DEF Loading, Request
<1>3. ASSUME NEW r \in requests, Moved(r) PROVE LoadsAlone'
  <2>1. CASE Loading(r)
    <3>1. requests = {r} /\ onRemove' = 0 /\ onSave' = 0
      BY <1>3, <2>1 DEF LoadsAlone, Moved, HandlersKept
    <3>2. requests' = {} \/ \E q : requests' = {q}
      BY <1>3, <3>1 DEF Moved, Served, Follow
    <3> QED BY <3>1, <3>2 DEF LoadsAlone
  <2>2. CASE ~Loading(r)
    <3>1. \A q \in requests : ~Loading(q)
      BY <2>2 DEF LoadsAlone
    <3>2. r.kind # "options"
      BY <2>2 DEF Loading
    <3>3. \A q \in requests' : ~Loading(q)
      BY <1>1, <1>2, <1>3, <3>1, <3>2 DEF Moved, Served, Follow
    <3> QED BY <3>3 DEF LoadsAlone
  <2> QED BY <2>1, <2>2
<1>4. ASSUME NEW r \in requests, Drawn(r) PROVE LoadsAlone'
  <2>1. requests = {r}
    BY <1>4 DEF Drawn, LoadsAlone, Loading
  <2>2. \A q \in requests' : ~Loading(q)
    BY <1>2, <1>4, <2>1 DEF Drawn, Follow
  <2> QED BY <2>2 DEF LoadsAlone
<1>5. ASSUME NEW r \in requests, DrawnAnew(r) PROVE LoadsAlone'
  <2>1. \A q \in requests : ~Loading(q)
    BY <1>5 DEF DrawnAnew, LoadsAlone, Loading
  <2>2. \A q \in requests' : ~Loading(q)
    BY <1>2, <1>5, <2>1 DEF DrawnAnew, Follow
  <2> QED BY <2>2 DEF LoadsAlone
<1>6. ASSUME PruneAsked \/ SavesAsked PROVE LoadsAlone'
  <2>1. onRemove > 0 \/ onSave > 0
    BY <1>6 DEF PruneAsked, SavesAsked
  <2>2. \A q \in requests : ~Loading(q)
    BY <2>1 DEF LoadsAlone
  <2>3. \A q \in requests' : ~Loading(q)
    BY <1>2, <1>6, <2>2 DEF PruneAsked, SavesAsked
  <2> QED BY <2>3 DEF LoadsAlone
<1>7. ASSUME AllFail PROVE LoadsAlone'
  <2>1. PICK f \in Failures :
          requests' = {IF r.at = "sent" THEN [r EXCEPT !.at = f] ELSE r : r \in requests}
    BY <1>7 DEF AllFail
  <2>2. CASE \A r \in requests : ~Loading(r)
    <3>1. \A q \in requests' : ~Loading(q)
      BY <1>1, <2>1, <2>2
    <3> QED BY <3>1 DEF LoadsAlone
  <2>3. ASSUME NEW r \in requests, Loading(r) PROVE LoadsAlone'
    <3>1. requests = {r} /\ onRemove' = 0 /\ onSave' = 0
      BY <1>7, <2>3 DEF LoadsAlone, AllFail, HandlersKept
    <3> DEFINE q == IF r.at = "sent" THEN [r EXCEPT !.at = f] ELSE r
    <3>2. requests' = {q}
      BY <2>1, <3>1
    <3> HIDE DEF q
    <3> QED BY <3>1, <3>2 DEF LoadsAlone
  <2> QED BY <2>2, <2>3
<1>8. ASSUME NEW id \in Ids, Loaded(id) PROVE LoadsAlone'
  BY <1>8 DEF Loaded, LoadsAlone
<1>9. ASSUME UNCHANGED requests, HandlersKept PROVE LoadsAlone'
  BY <1>9 DEF LoadsAlone, HandlersKept
<1>10. onSave \in Nat /\ onRemove \in 0..1 /\ (confirming => onRemove > 0)
  BY DEF Counted, ConfirmsDrawn
<1>11. \/ UNCHANGED requests /\ HandlersKept
       \/ \E r \in requests : Moved(r) \/ Drawn(r) \/ DrawnAnew(r)
       \/ PruneAsked \/ SavesAsked \/ AllFail
       \/ \E id \in Ids : Loaded(id)
  BY <1>10, RequestsChange
<1> QED BY <1>3, <1>4, <1>5, <1>6, <1>7, <1>8, <1>9, <1>11

LEMMA ConfirmsDrawnStep ==
  ASSUME ConfirmsDrawn, [Next]_vars
  PROVE  ConfirmsDrawn'
<1> USE DEF ConfirmsDrawn
<1>1. CASE Serve
  <2>1. UNCHANGED <<onRemove, confirming>>
    BY <1>1 DEF Serve, ServeRead, ServeSave, ServePrune, AnswerPrune, pageVars, drawnVars
  <2> QED BY <2>1
<1>2. CASE Come
  <2>1. ASSUME NEW t \in Templates, LoadTemplate(t) PROVE ConfirmsDrawn'
    BY <2>1 DEF LoadTemplate, drawnVars
  <2>2. ASSUME NEW r \in requests,
               OptionsCome(r) \/ VersionComes(r) \/ PruneDone(r) \/ RequestFails(r)
        PROVE  ConfirmsDrawn'
    BY <2>2 DEF OptionsCome, VersionComes, PruneDone, RequestFails, drawnVars
  <2>3. ASSUME NEW r \in requests, CountComes(r) PROVE ConfirmsDrawn'
    <3>1. confirming' = confirming
      BY <2>3 DEF CountComes
    <3>2. onRemove' = 1 \/ onRemove' = onRemove
      BY <2>3 DEF CountComes
    <3> QED BY <3>1, <3>2
  <2>4. ASSUME NEW r \in requests, RecountComes(r) PROVE ConfirmsDrawn'
    BY <2>4 DEF RecountComes
  <2>5. ASSUME NEW r \in requests, SaveDone(r) PROVE ConfirmsDrawn'
    <3>1. CASE r.what # currentTheme
      <4>1. onRemove' = 0 /\ confirming' = FALSE
        BY <2>5, <3>1 DEF SaveDone, Loaded
      <4> QED BY <4>1
    <3>2. CASE r.what = currentTheme
      BY <2>5, <3>2 DEF SaveDone, drawnVars
    <3> QED BY <3>1, <3>2
  <2> QED BY <1>2, <2>1, <2>2, <2>3, <2>4, <2>5 DEF Come
<1>3. CASE User
  BY <1>3 DEF User, PressRemove, Decline, Confirm, PressSave, drawnVars
<1>4. CASE Receive \/ ServerRestart \/ Fade \/ UNCHANGED vars
  BY <1>4 DEF Receive, ServerRestart, Fade, vars, pageVars, drawnVars
<1> QED BY <1>1, <1>2, <1>3, <1>4 DEF Next

\* A set with one element exchanged, and an image, are no larger.
LEMMA Exchanged ==
  ASSUME NEW S, IsFiniteSet(S), NEW x \in S, NEW y, NEW T, T \subseteq (S \ {x}) \cup {y}
  PROVE  IsFiniteSet(T) /\ Cardinality(T) <= Cardinality(S) /\ Cardinality(T) \in Nat
<1> DEFINE R == S \ {x}
<1>1. IsFiniteSet(R) /\ Cardinality(R) = Cardinality(S) - 1 /\ Cardinality(S) \in Nat
  BY FS_RemoveElement, FS_CardinalityType
<1> HIDE DEF R
<1> DEFINE U == R \cup {y}
<1>2. IsFiniteSet(U) /\ Cardinality(U) <= Cardinality(R) + 1
  <2>1. /\ IsFiniteSet(U)
        /\ Cardinality(U) = IF y \in R THEN Cardinality(R) ELSE Cardinality(R) + 1
    BY <1>1, FS_AddElement
  <2>2. Cardinality(R) \in Nat
    BY <1>1, FS_CardinalityType
  <2> HIDE DEF U
  <2> QED BY <2>1, <2>2
<1>3. T \subseteq U
  BY DEF R
<1> HIDE DEF U
<1>4. IsFiniteSet(T) /\ Cardinality(T) <= Cardinality(U)
  BY <1>2, <1>3, FS_Subset
<1>5. Cardinality(T) \in Nat /\ Cardinality(U) \in Nat /\ Cardinality(R) \in Nat
  BY <1>1, <1>2, <1>4, FS_CardinalityType
<1> QED BY <1>1, <1>2, <1>4, <1>5

LEMMA ImageNoLarger ==
  ASSUME NEW S, IsFiniteSet(S), NEW f, DOMAIN f = S, f = [x \in S |-> f[x]],
         NEW T, T = {f[x] : x \in S}
  PROVE  IsFiniteSet(T) /\ Cardinality(T) <= Cardinality(S) /\ Cardinality(T) \in Nat
<1>1. f \in Surjection(S, T)
  BY DEF Surjection
<1>2. IsFiniteSet(T) /\ Cardinality(T) <= Cardinality(S)
  BY <1>1, FS_Surjection
<1> QED BY <1>2, FS_CardinalityType

LEMMA CountedStep ==
  ASSUME Carried, LoadsAlone, Counted, ConfirmsDrawn, [Next]_vars
  PROVE  Counted'
<1>1. /\ IsFiniteSet(Pending) /\ Cardinality(Pending) \in Nat /\ onSave \in Nat
      /\ onSave + Cardinality(Pending) <= MaxHandlers /\ MaxHandlers \in Nat \ {0}
  BY FS_CardinalityType, AdminPageAssumption DEF Counted
<1>2. ASSUME IsFiniteSet(Pending'), Cardinality(Pending') \in Nat, onSave' \in Nat,
             onSave' + Cardinality(Pending') <= MaxHandlers
      PROVE  Counted'
  BY <1>2 DEF Counted
<1>3. ASSUME Pending' \subseteq Pending, onSave' = onSave PROVE Counted'
  <2>1. /\ IsFiniteSet(Pending') /\ Cardinality(Pending') <= Cardinality(Pending)
        /\ Cardinality(Pending') \in Nat
    BY <1>1, <1>3, FS_Subset, FS_CardinalityType
  <2> QED BY <1>1, <1>2, <1>3, <2>1
<1>4. ASSUME Pending' = {}, onSave' \in {0, 1} PROVE Counted'
  <2>1. IsFiniteSet({}) /\ Cardinality({}) = 0
    BY FS_EmptySet
  <2> QED BY <1>1, <1>4, <2>1 DEF Counted
<1>5. ASSUME NEW r \in requests, NEW at
      PROVE  [r EXCEPT !.at = at].kind = r.kind
  BY DEF Carried, Requests
<1>6. \A id, kind, what : Request(id, kind, what).kind = kind
  BY DEF Request
<1>7. ASSUME NEW r \in requests, Moved(r) PROVE Counted'
  <2>1. onSave' = onSave
    BY <1>7 DEF Moved, HandlersKept
  <2>2. CASE r \in Pending
    <3>1. \E y : Pending' \subseteq (Pending \ {r}) \cup {y}
      <4>1. \E y : requests' \subseteq (requests \ {r}) \cup {y}
        BY <1>7 DEF Moved, Served, Follow
      <4> QED BY <4>1 DEF Pending
    <3>2. /\ IsFiniteSet(Pending') /\ Cardinality(Pending') <= Cardinality(Pending)
          /\ Cardinality(Pending') \in Nat
      BY <1>1, <2>2, <3>1, Exchanged
    <3> QED BY <1>1, <1>2, <2>1, <3>2
  <2>3. CASE r \notin Pending
    <3>1. r.kind \notin {"prune", "recount"}
      BY <2>3 DEF Pending
    <3>2. Pending' \subseteq Pending
      <4>1. \E x : /\ x.kind \notin {"prune", "recount"}
                   /\ requests' \subseteq (requests \ {r}) \cup {x}
        <5>1. CASE \E at : Served(r, at)
          BY <1>5, <3>1, <5>1 DEF Served
        <5>2. CASE Follow(r, "count")
          BY <1>6, <5>2 DEF Follow
        <5>3. CASE requests' = requests \ {r}
          BY <3>1, <5>3
        <5> QED BY <1>7, <3>1, <5>1, <5>2, <5>3 DEF Moved
      <4> QED BY <4>1 DEF Pending
    <3> QED BY <1>3, <2>1, <3>2
  <2> QED BY <2>2, <2>3
<1>8. ASSUME NEW r \in requests, Drawn(r) PROVE Counted'
  <2>1. requests = {r} /\ onSave = 0
    BY <1>8 DEF Drawn, LoadsAlone, Loading
  <2>2. onSave' \in {0, 1}
    BY <1>8, <2>1 DEF Drawn, HandlersKept
  <2>3. Pending' = {}
    BY <1>6, <1>8, <2>1 DEF Drawn, Follow, Pending
  <2> QED BY <1>4, <2>2, <2>3
<1>9. ASSUME NEW r \in requests, DrawnAnew(r) PROVE Counted'
  <2>1. r \in Pending /\ onSave' = onSave + 1
    BY <1>9 DEF DrawnAnew, Pending
  <2>2. Pending' \subseteq Pending \ {r}
    BY <1>6, <1>9 DEF DrawnAnew, Follow, Pending
  <2>3. IsFiniteSet(Pending \ {r}) /\ Cardinality(Pending \ {r}) = Cardinality(Pending) - 1
    BY <1>1, <2>1, FS_RemoveElement
  <2>4. /\ IsFiniteSet(Pending') /\ Cardinality(Pending') <= Cardinality(Pending) - 1
        /\ Cardinality(Pending') \in Nat
    BY <2>2, <2>3, FS_Subset, FS_CardinalityType
  <2> QED BY <1>1, <1>2, <2>1, <2>4
<1>10. ASSUME PruneAsked PROVE Counted'
  <2>1. onSave' = onSave /\ onSave + Cardinality(Pending) < MaxHandlers
    BY <1>10 DEF PruneAsked, HandlersKept, HandlersBounded, Pending
  <2>2. PICK x : requests' = requests \cup {x}
    BY <1>10 DEF PruneAsked
  <2>3. Pending' \subseteq Pending \cup {x}
    BY <2>2 DEF Pending
  <2>4. /\ IsFiniteSet(Pending \cup {x})
        /\ Cardinality(Pending \cup {x}) = IF x \in Pending THEN Cardinality(Pending)
                                                           ELSE Cardinality(Pending) + 1
    BY <1>1, FS_AddElement
  <2>5. /\ IsFiniteSet(Pending') /\ Cardinality(Pending') <= Cardinality(Pending \cup {x})
        /\ Cardinality(Pending') \in Nat
    BY <2>3, <2>4, FS_Subset, FS_CardinalityType
  <2>6. Cardinality(Pending') <= Cardinality(Pending) + 1
    BY <1>1, <2>4, <2>5
  <2> QED BY <1>1, <1>2, <2>1, <2>5, <2>6
<1>11. ASSUME SavesAsked PROVE Counted'
  <2>1. Pending' \subseteq Pending
    BY <1>6, <1>11 DEF SavesAsked, Pending
  <2> QED BY <1>3, <1>11, <2>1 DEF SavesAsked, HandlersKept
<1>12. ASSUME AllFail PROVE Counted'
  <2>1. PICK f \in Failures :
          requests' = {IF r.at = "sent" THEN [r EXCEPT !.at = f] ELSE r : r \in requests}
    BY <1>12 DEF AllFail
  <2> DEFINE g == [r \in Pending |-> IF r.at = "sent" THEN [r EXCEPT !.at = f] ELSE r]
  <2>2. Pending' = {g[r] : r \in Pending}
    <3>1. \A r \in requests :
            (IF r.at = "sent" THEN [r EXCEPT !.at = f] ELSE r).kind = r.kind
      BY <1>5
    <3>2. Pending' = {IF r.at = "sent" THEN [r EXCEPT !.at = f] ELSE r : r \in Pending}
      BY <2>1, <3>1 DEF Pending
    <3> QED BY <3>2
  <2>3. DOMAIN g = Pending /\ g = [r \in Pending |-> g[r]]
    OBVIOUS
  <2> HIDE DEF g
  <2>4. /\ IsFiniteSet(Pending') /\ Cardinality(Pending') <= Cardinality(Pending)
        /\ Cardinality(Pending') \in Nat
    BY <1>1, <2>2, <2>3, ImageNoLarger
  <2> QED BY <1>1, <1>2, <1>12, <2>4 DEF AllFail, HandlersKept
<1>13. ASSUME NEW id \in Ids, Loaded(id) PROVE Counted'
  <2>1. Pending' = {} /\ onSave' = 0
    BY <1>6, <1>13 DEF Loaded, Pending
  <2> QED BY <1>4, <2>1
<1>14. ASSUME UNCHANGED requests, HandlersKept PROVE Counted'
  BY <1>3, <1>14 DEF Pending, HandlersKept
<1>15. \/ UNCHANGED requests /\ HandlersKept
       \/ \E r \in requests : Moved(r) \/ Drawn(r) \/ DrawnAnew(r)
       \/ PruneAsked \/ SavesAsked \/ AllFail
       \/ \E id \in Ids : Loaded(id)
  <2>1. onSave \in Nat /\ onRemove \in 0..1 /\ (confirming => onRemove > 0)
    BY DEF Counted, ConfirmsDrawn
  <2> QED BY <2>1, RequestsChange
<1> QED BY <1>7, <1>8, <1>9, <1>10, <1>11, <1>12, <1>13, <1>14, <1>15

\* The variables of the page, but for the handlers and the requests.
PageTypes ==
  /\ templates \subseteq Templates /\ panels \subseteq Templates
  /\ confirming \in BOOLEAN
  /\ stored \in Themes /\ currentTheme \in Themes \cup {"nothing"}
  /\ away \in BOOLEAN

LEMMA PageTypesStep ==
  ASSUME PageTypes, [Next]_vars
  PROVE  PageTypes'
<1> USE DEF PageTypes
<1>1. CASE UNCHANGED <<templates, panels, confirming, stored, currentTheme, away>>
  BY <1>1
<1>2. CASE Serve
  <2>1. UNCHANGED <<templates, panels, confirming, stored, currentTheme, away>>
    BY <1>2 DEF Serve, ServeRead, ServeSave, ServePrune, AnswerPrune, pageVars, drawnVars
  <2> QED BY <1>1, <2>1
<1>3. CASE Come
  <2>1. ASSUME NEW t \in Templates, LoadTemplate(t) PROVE PageTypes'
    BY <2>1 DEF LoadTemplate, drawnVars
  <2>2. ASSUME NEW r \in requests, OptionsCome(r) \/ VersionComes(r) \/ PruneDone(r)
        PROVE  PageTypes'
    BY <2>2 DEF OptionsCome, VersionComes, PruneDone, drawnVars
  <2>3. ASSUME NEW r \in requests, RequestFails(r) PROVE PageTypes'
    <3>1. away' \in BOOLEAN
      BY <2>3 DEF RequestFails
    <3> QED BY <2>3, <3>1 DEF RequestFails, drawnVars
  <2>4. ASSUME NEW r \in requests, CountComes(r) PROVE PageTypes'
    <3>1. /\ UNCHANGED <<templates, confirming, stored, away>>
          /\ currentTheme' = stored
      BY <2>4 DEF CountComes
    <3>2. panels' \in {{}, {"adminPrune"}, Templates}
      BY <2>4 DEF CountComes
    <3>3. panels' \subseteq Templates
      BY <3>2 DEF Templates
    <3> QED BY <3>1, <3>3
  <2>5. ASSUME NEW r \in requests, RecountComes(r) PROVE PageTypes'
    BY <2>5 DEF RecountComes
  <2>6. ASSUME NEW r \in requests, SaveDone(r) PROVE PageTypes'
    <3>1. CASE r.what # currentTheme
      <4>1. /\ templates' = {} /\ panels' = {} /\ confirming' = FALSE
            /\ currentTheme' = "nothing" /\ UNCHANGED <<stored, away>>
        BY <2>6, <3>1 DEF SaveDone, Loaded
      <4> QED BY <4>1
    <3>2. CASE r.what = currentTheme
      BY <2>6, <3>2 DEF SaveDone, drawnVars
    <3> QED BY <3>1, <3>2
  <2> QED BY <1>3, <2>1, <2>2, <2>3, <2>4, <2>5, <2>6 DEF Come
<1>4. CASE User
  <2>1. ASSUME NEW t \in Themes, PressSave(t) PROVE PageTypes'
    BY <2>1 DEF PressSave, drawnVars
  <2>2. ASSUME NEW code \in Codes, Confirm(code) PROVE PageTypes'
    BY <2>2 DEF Confirm, drawnVars
  <2>3. ASSUME PressRemove \/ Decline PROVE PageTypes'
    BY <2>3 DEF PressRemove, Decline, drawnVars
  <2> QED BY <1>4, <2>1, <2>2, <2>3 DEF User
<1>5. CASE Receive \/ ServerRestart \/ Fade \/ UNCHANGED vars
  BY <1>1, <1>5 DEF Receive, ServerRestart, Fade, vars, pageVars, drawnVars
<1> QED BY <1>2, <1>3, <1>4, <1>5 DEF Next

\* Every variable of the administration page and of what it changes at the server keeps
\* its type, for any failures and restarts: with it, every save carries a theme, and each
\* prune puts one handler more on the Save button and no more (initialize in
\* AdminController.js).
THEOREM AdminTypeCorrect == Spec => []TypeOK
<1> DEFINE Inv == /\ ServerTypeOK /\ PageBlockTypeOK /\ PageTypes
                  /\ Carried /\ LoadsAlone /\ Counted /\ ConfirmsDrawn
<1>1. Init => Inv
  <2> SUFFICES ASSUME Init PROVE Inv
    OBVIOUS
  <2> DEFINE r == Request(1, "options", "nothing")
  <2>1. r \in Requests /\ r.kind = "options"
    BY AdminPageAssumption DEF Request, Requests, Ids
  <2>2. requests = {r} /\ onRemove = 0 /\ onSave = 0
    BY DEF Init
  <2> HIDE DEF r
  <2>3. Carried /\ LoadsAlone
    BY <2>1, <2>2 DEF Carried, LoadsAlone
  <2>4. Pending = {}
    BY <2>1, <2>2 DEF Pending
  <2>5. Counted
    BY <2>2, <2>4, FS_EmptySet, AdminPageAssumption DEF Counted
  <2>6. ServerTypeOK
    <3>1. Old \subseteq MailIds /\ {1} \subseteq Days /\ FirstTheme \in Themes
      BY AdminServerAssumption
    <3>2. [id : Old, day : {1}] \subseteq [id : MailIds, day : Days]
      BY <3>1
    <3>3. /\ mails = [id : Old, day : {1}] /\ attachments = Old /\ known = Old
          /\ deleting = {} /\ theme = FirstTheme /\ file = FirstTheme
      BY DEF Init, ServerInit
    <3> QED BY <3>1, <3>2, <3>3 DEF ServerTypeOK
  <2>7. PageBlockTypeOK /\ ConfirmsDrawn
    <3>1. isBlocked = FALSE /\ layers = {} /\ confirming = FALSE
      BY DEF Init, PageBlockInit
    <3>2. PageBlockTypeOK
      BY <3>1 DEF PageBlockTypeOK
    <3>3. ConfirmsDrawn
      BY <2>2, <3>1 DEF ConfirmsDrawn
    <3> QED BY <3>2, <3>3
  <2>8. PageTypes
    BY AdminServerAssumption DEF Init, PageTypes
  <2> QED BY <2>3, <2>5, <2>6, <2>7, <2>8
<1>2. Inv /\ [Next]_vars => Inv'
  <2> SUFFICES ASSUME Inv, [Next]_vars PROVE Inv'
    OBVIOUS
  <2>1. onSave \in Nat /\ onRemove \in 0..1 /\ (confirming => onRemove > 0)
    BY DEF Counted, ConfirmsDrawn
  <2>2. ServerTypeOK' /\ PageTypes' /\ Carried'
    BY <2>1, ServerTypes, PageTypesStep, CarriedStep
  <2>3. LoadsAlone' /\ Counted' /\ ConfirmsDrawn'
    BY LoadsAloneStep, CountedStep, ConfirmsDrawnStep
  <2>4. PageBlockTypeOK'
    BY StepBlocks DEF PageBlockTypeOK, Block, Unblock, FadeDone, blockVars
  <2> QED BY <2>2, <2>3, <2>4
<1>3. Inv => TypeOK
  <2> SUFFICES ASSUME Inv PROVE TypeOK
    OBVIOUS
  <2>1. onSave \in 0..MaxHandlers
    BY FS_CardinalityType, AdminPageAssumption DEF Counted
  <2>2. requests \subseteq Requests
    BY DEF Carried
  <2> QED BY <2>1, <2>2 DEF TypeOK, PageTypes, ConfirmsDrawn
<1> QED BY <1>1, <1>2, <1>3, PTL DEF Spec
==============================================================================
