------------------------------ MODULE HomePage -------------------------------
(***************************************************************************)
(* The browser client's mail list: HomeController.js, its requests through  *)
(* MailService.js, the search dialog (bootstrap-dialog), the blocked page   *)
(* (PageBlock), and the answers of internal/handlers/getmail.go.            *)
(*                                                                         *)
(* The controller keeps page, search and sort order in variables, sends a   *)
(* request made of them, and draws the answer with whatever the variables   *)
(* hold when it arrives.  Only the blocked page keeps the two together.     *)
(***************************************************************************)
EXTENDS PageBlock, Integers, FiniteSets

CONSTANTS
  Texts,        \* search texts (message, from, to as one)
  NoText,       \* the empty search text
  Ranges,       \* date ranges
  ThisMonth,    \* the range a page starts with
  Fields,       \* the fields one can sort by
  DateField,    \* the field a page starts with
  Mails,        \* mails that answers may contain
  NoMail,
  NoList,
  MaxPages,     \* bound: pages an answer may count
  MaxInFlight,  \* bound: requests on their way at a time
  Failures,     \* how a list request may fail; "Forbidden" is told apart
  DetailsFail,  \* whether a request for a mail may fail
  Impatient     \* whether users press buttons of a dialog that opens or closes

ASSUME HomePageAssumption ==
  /\ NoText \in Texts /\ ThisMonth \in Ranges /\ DateField \in Fields
  /\ NoMail \notin Mails
  /\ MaxPages \in Nat \ {0} /\ MaxInFlight \in Nat \ {0}
  /\ DetailsFail \in BOOLEAN /\ Impatient \in BOOLEAN

VARIABLES
  loading,          \* the page's templates are being loaded
  page, totalPages, previousPage, nextPage,
  mailID,           \* the mail selected
  searchCriteria,   \* [text, range]
  sortCriteria,     \* [field, dir]
  list,             \* the list as drawn in #mailList
  highlighted,      \* the row marked in it
  details,          \* the mail shown in #mailDetails
  dialog,           \* the search dialog
  field,            \* what is in its input fields
  requests,         \* requests on their way
  away              \* the browser has been sent to the login page

pageVars == <<page, totalPages, previousPage, nextPage>>
criteriaVars == <<searchCriteria, sortCriteria>>
drawnVars == <<list, highlighted, details>>
dialogVars == <<dialog, field>>
vars == <<blockVars, loading, pageVars, mailID, criteriaVars, drawnVars,
          dialogVars, requests, away>>

Pages == 0..MaxPages
Ids == 1..MaxInFlight
Criteria == [text : Texts, range : Ranges]
Sorts == [field : Fields, dir : {"asc", "desc"}]

\* What a list request asks for: the parameters MailService.getMails puts in its
\* URL.
Queries == [page : Pages, search : Criteria, sort : Sorts]

ListRequests == [id : Ids, kind : {"list"}, query : Queries]
DetailsRequests == [id : Ids, kind : {"details"}, mail : Mails]

\* The list as drawn: page, filters and sort icons from the controller's
\* variables, mails and totalPages from the answer to asked.
Lists == [page : Pages, search : Criteria, sort : Sorts, totalPages : Pages,
          mails : SUBSET Mails, asked : Queries]

ASSUME NoListAssumption == NoList \notin Queries /\ NoList \notin Lists

TypeOK ==
  /\ PageBlockTypeOK
  /\ loading \in BOOLEAN /\ away \in BOOLEAN
  /\ page \in Pages /\ totalPages \in Pages
  /\ previousPage \in Pages /\ nextPage \in Pages
  /\ mailID \in Mails \cup {NoMail}
  /\ searchCriteria \in Criteria
  /\ sortCriteria \in Sorts
  /\ list \in Lists \cup {NoList}
  /\ highlighted \in Mails \cup {NoMail}
  /\ details \in Mails \cup {NoMail}
  /\ dialog \in {"closed", "opening", "open", "closing"}
  /\ field \in Texts
  /\ requests \subseteq ListRequests \cup DetailsRequests

Init ==
  /\ isBlocked = TRUE /\ layers = {"shown"}    \* block("Loading")
  /\ loading = TRUE
  /\ page = 1 /\ totalPages = 0 /\ previousPage = 0 /\ nextPage = 0
  /\ mailID = NoMail
  /\ searchCriteria = [text |-> NoText, range |-> ThisMonth]
  /\ sortCriteria = [field |-> DateField, dir |-> "desc"]
  /\ list = NoList /\ highlighted = NoMail /\ details = NoMail
  /\ dialog = "closed" /\ field = NoText
  /\ requests = {}
  /\ away = FALSE

-----------------------------------------------------------------------------
(* Requests. *)

FreeIds == Ids \ {r.id : r \in requests}

\* Mutant: the page is not blocked for the search.
PerformSearchUnblocked(p, search, sort) ==
  /\ UNCHANGED blockVars
  /\ \E id \in FreeIds :
       requests' = requests \cup
         {[id |-> id, kind |-> "list",
           query |-> [page |-> p, search |-> search, sort |-> sort]]}

\* performSearch up to the answer, with the page, criteria and sort order its
\* caller has just set.
PerformSearch(p, search, sort) ==
  /\ Block
  /\ \E id \in FreeIds :
       requests' = requests \cup
         {[id |-> id, kind |-> "list",
           query |-> [page |-> p, search |-> search, sort |-> sort]]}

\* Mutants: the details stay under a new list; the next page is not clamped.
RenderMailItemsOnly(query, pages, mails) ==
  /\ totalPages' = pages
  /\ nextPage' = IF page < pages THEN page + 1 ELSE pages
  /\ previousPage' = IF page > 1 THEN page - 1 ELSE 1
  /\ list' = [page |-> page, search |-> searchCriteria, sort |-> sortCriteria,
              totalPages |-> pages, mails |-> mails, asked |-> query]
  /\ highlighted' = NoMail
  /\ UNCHANGED details

RenderMailItemsUnclamped(query, pages, mails) ==
  /\ totalPages' = pages
  /\ nextPage' = page + 1
  /\ previousPage' = IF page > 1 THEN page - 1 ELSE 1
  /\ list' = [page |-> page, search |-> searchCriteria, sort |-> sortCriteria,
              totalPages |-> pages, mails |-> mails, asked |-> query]
  /\ highlighted' = NoMail
  /\ details' = NoMail

\* renderMailItems and initializeMailItems: the whole of #mailList is replaced,
\* highlighted row and details with it.
RenderMailItems(query, pages, mails) ==
  /\ totalPages' = pages
  /\ nextPage' = IF page < pages THEN page + 1 ELSE pages
  /\ previousPage' = IF page > 1 THEN page - 1 ELSE 1
  /\ list' = [page |-> page, search |-> searchCriteria, sort |-> sortCriteria,
              totalPages |-> pages, mails |-> mails, asked |-> query]
  /\ highlighted' = NoMail
  /\ details' = NoMail

\* An answer of GetMailCollection, taken from one state of the mailbox: how many pages
\* there are, and the mails of the page asked for, which are none behind the last.
Answers(query) ==
  {a \in [pages : Pages, mails : SUBSET Mails] :
     (a.mails = {}) <=> query.page > a.pages}

\* performSearch's answer.
SearchAnswered(r) ==
  /\ ~away
  /\ r.kind = "list"
  /\ \E a \in Answers(r.query) : RenderMailItems(r.query, a.pages, a.mails)
  /\ Unblock
  /\ requests' = requests \ {r}
  /\ UNCHANGED <<loading, page, mailID, criteriaVars, dialogVars, away>>

\* Mutant: a failed search leaves its block.
SearchFailedSilent(r) ==
  /\ ~away
  /\ r.kind = "list"
  /\ \E failure \in Failures : away' = (failure = "Forbidden")
  /\ requests' = requests \ {r}
  /\ UNCHANGED <<blockVars, loading, pageVars, mailID, criteriaVars, drawnVars,
                 dialogVars>>

\* performSearch's catch: the controller's variables keep the new values.
SearchFailed(r) ==
  /\ ~away
  /\ r.kind = "list"
  /\ \E failure \in Failures : away' = (failure = "Forbidden")
  /\ Alert
  /\ requests' = requests \ {r}
  /\ UNCHANGED <<loading, pageVars, mailID, criteriaVars, drawnVars, dialogVars>>

\* viewMailDetails' answer: renderMailDetails fills #mailDetails.
DetailsAnswered(r) ==
  /\ ~away
  /\ r.kind = "details"
  /\ details' = r.mail
  /\ Unblock
  /\ requests' = requests \ {r}
  /\ UNCHANGED <<loading, pageVars, mailID, criteriaVars, list, highlighted,
                 dialogVars, away>>

\* viewMailDetails' catch names no parameter, so that its first line throws: no
\* message, and the page stays blocked.
DetailsFailed(r) ==
  /\ ~away
  /\ DetailsFail
  /\ r.kind = "details"
  /\ requests' = requests \ {r}
  /\ UNCHANGED <<blockVars, loading, pageVars, mailID, criteriaVars, drawnVars,
                 dialogVars, away>>

-----------------------------------------------------------------------------
(* The page's start. *)

\* Promise.all over the three templates, then performSearch.
TemplatesLoaded ==
  /\ loading
  /\ loading' = FALSE
  /\ PerformSearch(page, searchCriteria, sortCriteria)
  /\ UNCHANGED <<pageVars, mailID, criteriaVars, drawnVars, dialogVars, away>>

TemplatesFailed ==
  /\ loading
  /\ loading' = FALSE
  /\ \E failure \in Failures : away' = (failure = "Forbidden")
  /\ Alert
  /\ UNCHANGED <<pageVars, mailID, criteriaVars, drawnVars, dialogVars, requests>>

-----------------------------------------------------------------------------
(* The list's buttons and links. *)

\* Elements one can reach with the keyboard, and those without.  A dialog's backdrop
\* covers the page and keeps the focus.
Reachable == ~away /\ list # NoList /\ dialog = "closed" /\ KeysReach
Clickable == Reachable /\ MouseReaches

\* Mutant: the list is asked for before the page's number is set.
SearchFromListEarly(p, sort) ==
  /\ page' = p
  /\ sortCriteria' = sort
  /\ PerformSearch(page, searchCriteria, sort)
  /\ UNCHANGED <<loading, totalPages, previousPage, nextPage, mailID,
                 searchCriteria, drawnVars, dialogVars, away>>

\* A search that a button of the list starts on page p.
SearchFromList(p, sort) ==
  /\ page' = p
  /\ sortCriteria' = sort
  /\ PerformSearch(p, searchCriteria, sort)
  /\ UNCHANGED <<loading, totalPages, previousPage, nextPage, mailID,
                 searchCriteria, drawnVars, dialogVars, away>>

RefreshMailList == Reachable /\ SearchFromList(page, sortCriteria)

\* The navigation is there if there are several pages, each button if it leads
\* somewhere.
HasNavigation == list.totalPages > 1
HasEarlier == HasNavigation /\ list.page > 1
HasLater == HasNavigation /\ list.page < list.totalPages

FirstPage    == Clickable /\ HasEarlier /\ SearchFromList(1, sortCriteria)
PreviousPage == Clickable /\ HasEarlier /\ SearchFromList(previousPage, sortCriteria)
NextPage     == Clickable /\ HasLater /\ SearchFromList(nextPage, sortCriteria)
LastPage     == Clickable /\ HasLater /\ SearchFromList(totalPages, sortCriteria)

\* #goToPage offers the pages there are, the drawn one selected; choosing another
\* is a change.
GoToPage(p) ==
  /\ Reachable
  /\ HasNavigation
  /\ p \in 1..list.totalPages /\ p # list.page
  /\ SearchFromList(p, sortCriteria)

Opposite(dir) == IF dir = "asc" THEN "desc" ELSE "asc"

\* changeSortBy
ChangedSort(f) ==
  IF f = sortCriteria.field
  THEN [field |-> f, dir |-> Opposite(sortCriteria.dir)]
  ELSE [field |-> f, dir |-> "asc"]

SortBy(f) == Reachable /\ SearchFromList(page, ChangedSort(f))

\* A click on a mail's subject.
ViewMailDetails(m) ==
  /\ Reachable
  /\ m \in list.mails
  /\ mailID' = m
  /\ highlighted' = m
  /\ Block
  /\ \E id \in FreeIds :
       requests' = requests \cup {[id |-> id, kind |-> "details", mail |-> m]}
  /\ UNCHANGED <<loading, pageVars, criteriaVars, list, details, dialogVars, away>>

-----------------------------------------------------------------------------
(* The search dialog.  Its layer is above the blocked page's. *)

\* renderSearchMailModal: the dialog fades in; its fields are filled in by onshown.
OpenSearch ==
  /\ Reachable
  /\ dialog' = "opening"
  /\ field' = NoText
  /\ UNCHANGED <<blockVars, loading, pageVars, mailID, criteriaVars, drawnVars,
                 requests, away>>

SearchShown ==
  /\ ~away
  /\ dialog = "opening"
  /\ dialog' = "open"
  /\ field' = searchCriteria.text
  /\ UNCHANGED <<blockVars, loading, pageVars, mailID, criteriaVars, drawnVars,
                 requests, away>>

SearchHidden ==
  /\ ~away
  /\ dialog = "closing"
  /\ dialog' = "closed"
  /\ UNCHANGED <<blockVars, loading, pageVars, mailID, criteriaVars, drawnVars,
                 field, requests, away>>

\* Nothing stops a button from being pressed while the dialog fades in or out, and
\* Enter on a focused Search presses it twice: as a click, and as its hotkey.
Pressable ==
  /\ ~away
  /\ dialog = "open" \/ (Impatient /\ dialog \in {"opening", "closing"})

\* Typing, or a saved search picked into the fields.
FillIn(text) ==
  /\ Pressable
  /\ field' = text
  /\ UNCHANGED <<blockVars, loading, pageVars, mailID, criteriaVars, drawnVars,
                 dialog, requests, away>>

\* renderDateRangeSpan, from the range picker: the criteria change at once.
PickRange(range) ==
  /\ Pressable
  /\ searchCriteria' = [searchCriteria EXCEPT !.range = range]
  /\ UNCHANGED <<blockVars, loading, pageVars, mailID, sortCriteria, drawnVars,
                 dialogVars, requests, away>>

ClearSearch ==
  /\ Pressable
  /\ searchCriteria' = [searchCriteria EXCEPT !.range = ThisMonth]
  /\ field' = NoText
  /\ UNCHANGED <<blockVars, loading, pageVars, mailID, sortCriteria, drawnVars,
                 dialog, requests, away>>

\* Mutant: the page is set back when the dialog closes, but no list is drawn.
CancelSearchResets ==
  /\ Pressable
  /\ dialog' = "closing"
  /\ page' = 1
  /\ UNCHANGED <<blockVars, loading, totalPages, previousPage, nextPage, mailID,
                 criteriaVars, drawnVars, field, requests, away>>

CancelSearch ==
  /\ Pressable
  /\ dialog' = "closing"
  /\ UNCHANGED <<blockVars, loading, pageVars, mailID, criteriaVars, drawnVars,
                 field, requests, away>>

ExecuteSearch ==
  /\ Pressable
  /\ dialog' = "closing"
  /\ LET search == [searchCriteria EXCEPT !.text = field]
     IN /\ searchCriteria' = search
        /\ PerformSearch(page, search, sortCriteria)
  /\ UNCHANGED <<loading, pageVars, mailID, sortCriteria, drawnVars, field, away>>

-----------------------------------------------------------------------------
(* The specification. *)

Starting == TemplatesLoaded \/ TemplatesFailed

Answering ==
  \E r \in requests :
    \/ SearchAnswered(r) \/ SearchFailed(r)
    \/ DetailsAnswered(r) \/ DetailsFailed(r)

Navigating ==
  \/ RefreshMailList
  \/ FirstPage \/ PreviousPage \/ NextPage \/ LastPage
  \/ \E p \in Pages : GoToPage(p)
  \/ \E f \in Fields : SortBy(f)
  \/ \E m \in Mails : ViewMailDetails(m)

Searching ==
  \/ OpenSearch \/ SearchShown \/ SearchHidden
  \/ \E text \in Texts : FillIn(text)
  \/ \E range \in Ranges : PickRange(range)
  \/ ClearSearch \/ CancelSearch \/ ExecuteSearch

Fading ==
  /\ ~away
  /\ FadeDone
  /\ UNCHANGED <<loading, pageVars, mailID, criteriaVars, drawnVars, dialogVars,
                 requests, away>>

Next == Starting \/ Answering \/ Navigating \/ Searching \/ Fading

Spec == Init /\ [][Next]_vars

\* The browser's timers fire, and a request ends in an answer or an error.
Fairness ==
  /\ WF_vars(Starting)
  /\ WF_vars(Answering)
  /\ WF_vars(Fading)
  /\ WF_vars(SearchShown \/ SearchHidden)

FairSpec == Spec /\ Fairness

-----------------------------------------------------------------------------
(* Properties. *)

\* What is drawn around the mails (page number, filters, sort icons) is what those
\* mails were asked for.  renderMailItems takes the former from variables that
\* event handlers change, the latter from an answer that took its time.
ListAgrees ==
  list # NoList =>
    list.asked = [page |-> list.page, search |-> list.search, sort |-> list.sort]

\* While the server owes an answer the page is blocked, and only one answer is owed:
\* unblock() ends the block of whoever set it, so that with two requests the first
\* answer would open the page for the second.
BlockedWhileBusy ==
  /\ requests # {} => isBlocked
  /\ \A r, s \in requests : r = s

\* On a page that can be used, the mail shown in the details is the one marked in the
\* list; no list, no details.  While the marked mail is on its way, or if it never comes,
\* the page is blocked.
DetailsAgree == details = NoMail \/ details = highlighted \/ isBlocked

\* What performSearch would ask for, and what renderMailItems draws around an answer.
CurrentQuery == [page |-> page, search |-> searchCriteria, sort |-> sortCriteria]

\* Refresh repeats the last question asked, whether it was answered or failed: page, text
\* and sort order change only in a step that sends a request for all of them as they are
\* then.  The date range is the exception: picking or clearing one in the dialog changes
\* it without a request, and cancelling the dialog leaves it changed.
RefreshRepeats ==
  [][\/ CurrentQuery' = CurrentQuery
     \/ \E r \in requests' \ requests : r.kind = "list" /\ r.query = CurrentQuery'
     \/ /\ dialog # "closed"
        /\ UNCHANGED <<page, sortCriteria>> /\ searchCriteria'.text = searchCriteria.text]_vars

\* The page waits for the details of the marked mail, and nobody will bring them.
DetailsLost == isBlocked /\ requests = {} /\ highlighted # NoMail

\* However requests end, the page can be used again, or has been left; but for a
\* failed request for a mail's details, after which it stays blocked for ever.
PageComesBack == []<>(away \/ ~isBlocked \/ DetailsLost)

\* No layer stays over a page that is not blocked.
OverlayGoes == []<>(away \/ isBlocked \/ MouseReaches)

-----------------------------------------------------------------------------
(* The page implements RemoteView; a request for a mail's details is none of   *)
(* its questions.                                                             *)

ListQueries == {r.query : r \in {q \in requests : q.kind = "list"}}

pendingQuery == IF ListQueries = {} THEN NoList ELSE CHOOSE q \in ListQueries : TRUE
shownQuery == IF list = NoList THEN NoList ELSE list.asked

View == INSTANCE RemoteView
  WITH NoQuery <- NoList, pending <- pendingQuery, shown <- shownQuery

ImplementsView == View!Spec
==============================================================================
