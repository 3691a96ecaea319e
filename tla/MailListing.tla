----------------------------- MODULE MailListing ------------------------------
(***************************************************************************)
(* A page of the mail list at the server: GetMailCollection in              *)
(* internal/handlers/getmail.go asks the data layer for the mails of the    *)
(* page, then for their number, and makes the number of pages of it.  The   *)
(* data layer is internal/persistence/orm.go with the queries of            *)
(* helpers.go; mails come and go between the two questions.                 *)
(***************************************************************************)
EXTENDS Integers, FiniteSets, FiniteSetsExt

CONSTANTS
  MailIds,       \* mails
  PageLength,    \* mails on a page (50 in the code)
  MaxPage,       \* bound: pages asked for
  ReturnsItems   \* whether the data layer returns what it has fetched; the ORM does not

ASSUME MailListingAssumption ==
  /\ IsFiniteSet(MailIds)
  /\ PageLength \in Nat \ {0} /\ MaxPage \in Nat
  /\ ReturnsItems \in BOOLEAN

VARIABLES
  mails,     \* the mail table
  asked,     \* the page asked for
  items,     \* what the last query fetched
  answer     \* how far the request is, and what it is answered

vars == <<mails, asked, items, answer>>

\* Mutant: the division rounds down.
TotalPagesDown(records) == records \div PageLength

\* The quotient of two integers is rounded, which changes nothing, and corrected.
TotalPages(records) ==
  LET pages == records \div PageLength
  IN IF pages * PageLength < records THEN pages + 1 ELSE pages

Answered == [at : {"answered"}, pages : Nat, records : 0..Cardinality(MailIds)]

TypeOK ==
  /\ mails \subseteq MailIds /\ items \subseteq MailIds
  /\ asked \in 1..MaxPage
  /\ answer \in Answered \cup [at : {"idle", "asked", "fetched", "failed"}]
  /\ answer.at = "answered" => answer.pages <= answer.records

Init ==
  /\ mails \in SUBSET MailIds
  /\ asked \in 1..MaxPage
  /\ items = {} /\ answer = [at |-> "asked"]

-----------------------------------------------------------------------------
\* Receivers store mails, prunes delete them.
MailboxChanges ==
  /\ mails' \in SUBSET MailIds
  /\ mails \subseteq mails' \/ mails' \subseteq mails
  /\ UNCHANGED <<asked, items, answer>>

Ask(page) ==
  /\ answer.at \in {"answered", "failed"}
  /\ asked' = page
  /\ items' = {} /\ answer' = [at |-> "asked"]
  /\ UNCHANGED mails

\* addQuery builds its conditions and throws them away: every mail is selected, whatever
\* was searched for.
Selected == mails

\* Paginate takes the number of a page, and is given the offset; 0 means the first.
RowsBefore(offset) == (Max({offset, 1}) - 1) * PageLength

\* ORM.GetMailCollection.  No order is asked for.
GetMailCollection ==
  /\ answer.at = "asked"
  /\ LET skipped == RowsBefore((asked - 1) * PageLength)
         rows == Max({0, Min({PageLength, Cardinality(Selected) - skipped})})
     IN items' \in kSubset(rows, Selected)
  /\ answer' = [at |-> IF ReturnsItems THEN "fetched" ELSE "failed"]
  /\ UNCHANGED <<mails, asked>>

\* GetMailCount, and the handler's answer.
GetMailCount ==
  /\ answer.at = "fetched"
  /\ LET records == Cardinality(Selected)
     IN answer' = [at |-> "answered", pages |-> TotalPages(records), records |-> records]
  /\ UNCHANGED <<mails, asked, items>>

Next ==
  \/ MailboxChanges
  \/ \E page \in 1..MaxPage : Ask(page)
  \/ GetMailCollection \/ GetMailCount

Spec == Init /\ [][Next]_vars

-----------------------------------------------------------------------------
(* Properties. *)

\* The pages an answer counts hold all the mails it counts, and the last is not empty.
PagesFitRecords ==
  answer.at = "answered" =>
    /\ answer.pages * PageLength >= answer.records
    /\ answer.records > 0 => (answer.pages - 1) * PageLength < answer.records
    /\ answer.records = 0 => answer.pages = 0
==============================================================================
