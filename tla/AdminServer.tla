---------------------------- MODULE AdminServer ------------------------------
(***************************************************************************)
(* What the administration page changes at the server: the mails and their  *)
(* attachments, which DELETE /mail prunes (handlers/deletemail.go,          *)
(* persistence/orm.go and helpers.go) while receivers store new ones, and   *)
(* the theme (ApplyTheme in handlers/admin.go).                            *)
(*                                                                         *)
(* A prune runs two statements outside a transaction.  The theme is kept in *)
(* the configuration object that all requests share; the file is written by *)
(* viper, from values of its own.                                          *)
(***************************************************************************)
EXTENDS Integers, FiniteSets

CONSTANTS
  Codes,         \* prune codes in use
  Themes,
  FirstTheme,    \* the theme in the configuration file
  MailIds,       \* bound: mails in a behaviour
  Old,           \* mails there at the start
  Days,          \* days a mail may be dated, counted from the oldest
  MaxDeleting,   \* bound: prunes the server works on at a time
  StoreBreaks,   \* whether a statement, or writing the file, may fail
  MayRestart     \* whether the server may stop and start again

\* The day up to which mails are deleted, or all.
CutoffOf == [c60plus |-> 1, c30plus |-> 2, c2wksplus |-> 3]

ASSUME AdminServerAssumption ==
  /\ Codes \subseteq {"c60plus", "c30plus", "c2wksplus", "all"}
  /\ FirstTheme \in Themes /\ Old \subseteq MailIds
  /\ Days \subseteq Int /\ 1 \in Days
  /\ MaxDeleting \in Nat /\ StoreBreaks \in BOOLEAN /\ MayRestart \in BOOLEAN

VARIABLES
  mails,         \* the mail table: the mails in it, and the day of each
  attachments,   \* mails that have rows in the attachment table
  known,         \* mails that have ever been stored
  deleting,      \* prunes: [id, code, at]
  theme,         \* config.Theme
  file           \* the theme in the configuration file

serverVars == <<mails, attachments, known, deleting, theme, file>>

PruneIds == 1..MaxDeleting
Prunes == [id : PruneIds, code : Codes, at : {"sent", "cut", "done", "failed"}]

ServerTypeOK ==
  /\ mails \subseteq [id : MailIds, day : Days]
  /\ attachments \subseteq MailIds
  /\ known \subseteq MailIds
  /\ deleting \subseteq Prunes
  /\ theme \in Themes /\ file \in Themes

ServerInit ==
  /\ mails = [id : Old, day : {1}]
  /\ attachments = Old
  /\ known = Old
  /\ deleting = {}
  /\ theme = FirstTheme /\ file = FirstTheme

\* Mutant: mails from the date on.
SelectedAfter(code, day) == code = "all" \/ day >= CutoffOf[code]

\* dateSent <= startDate, where an empty date selects everything.
Selected(code, day) == code = "all" \/ day <= CutoffOf[code]

-----------------------------------------------------------------------------
\* A receiver's goroutine stores a mail, with the date in its header, and its attachments.
StoreMail(id, day) ==
  /\ id \notin known
  /\ known' = known \cup {id}
  /\ mails' = mails \cup {[id |-> id, day |-> day]}
  /\ \E with \in BOOLEAN : attachments' = IF with THEN attachments \cup {id} ELSE attachments
  /\ UNCHANGED <<deleting, theme, file>>

PruneAt(d, at) == deleting' = (deleting \ {d}) \cup {[d EXCEPT !.at = at]}

\* DeleteMailsAfterDate, the first statement.
DeleteAttachments(d) ==
  /\ d \in deleting /\ d.at = "sent"
  /\ \/ /\ attachments' = attachments \ {m.id : m \in {n \in mails : Selected(d.code, n.day)}}
        /\ PruneAt(d, "cut")
     \/ /\ StoreBreaks
        /\ PruneAt(d, "failed")
        /\ UNCHANGED attachments
  /\ UNCHANGED <<mails, known, theme, file>>

\* Mutant: the database does not cascade.
DeleteMailsOnly(d) ==
  /\ d \in deleting /\ d.at = "cut"
  /\ mails' = {m \in mails : ~Selected(d.code, m.day)}
  /\ PruneAt(d, "done")
  /\ UNCHANGED <<attachments, known, theme, file>>

\* The second.  Attachments go with a mail that goes (on_delete in the migration).
DeleteMails(d) ==
  /\ d \in deleting /\ d.at = "cut"
  /\ \/ LET gone == {m \in mails : Selected(d.code, m.day)}
        IN /\ mails' = mails \ gone
           /\ attachments' = attachments \ {m.id : m \in gone}
           /\ PruneAt(d, "done")
     \/ /\ StoreBreaks
        /\ PruneAt(d, "failed")
        /\ UNCHANGED <<mails, attachments>>
  /\ UNCHANGED <<known, theme, file>>

\* ApplyTheme: the shared configuration is changed before it is written, and what is
\* written does not contain the change.  ok is what the request is answered.
ApplyTheme(t, ok) ==
  /\ ok \/ StoreBreaks
  /\ theme' = t
  /\ UNCHANGED <<mails, attachments, known, deleting, file>>

\* The program ends and starts again: the tables stay, prunes are cut short.
Restart ==
  /\ MayRestart
  /\ deleting' = {}
  /\ theme' = file
  /\ UNCHANGED <<mails, attachments, known, file>>

-----------------------------------------------------------------------------
(* Properties. *)

\* Mails that a prune under way has been asked to delete: older than its date.
Asked(m) ==
  \E d \in deleting : d.code # "all" => m.day <= CutoffOf[d.code]

\* A mail that no prune under way has asked for stays, and so do its attachments, with
\* prunes side by side, mails stored meanwhile, statements failing and restarts.
OthersKept ==
  [][\A m \in mails : ~Asked(m) =>
       m \in mails' /\ (m.id \in attachments => m.id \in attachments')]_serverVars

\* No attachment without its mail.
NoOrphans == attachments \subseteq {m.id : m \in mails}
==============================================================================
