--------------------------- MODULE HomePageProofs ----------------------------
(***************************************************************************)
(* Proofs about HomePage, for every set of texts, ranges, fields and mails, *)
(* and every number of pages and of requests on their way.                 *)
(*                                                                         *)
(* The argument: users who leave a dialog alone while it fades cannot reach *)
(* anything that changes the controller's variables while a request is on   *)
(* its way, because the page is blocked from the request to its answer and  *)
(* the dialog, which lies over the block, is never open then.  So the       *)
(* variables an answer is drawn with are those it was asked with.           *)
(*                                                                         *)
(* Types, the overlay and what a refresh repeats need no such users.        *)
(***************************************************************************)
EXTENDS HomePage, TLAPS

\* Nothing has happened yet while the templates are loaded.
Quiet ==
  loading =>
    /\ requests = {} /\ isBlocked
    /\ list = NoList /\ details = NoMail /\ dialog = "closed"

\* A dialog whose buttons work lies over a page that is not blocked.
DialogFree == dialog \in {"opening", "open"} => ~isBlocked

\* A request asks for what the controller's variables still hold.
RequestsCurrent ==
  \A r \in requests :
    /\ r.kind = "list" => r.query = CurrentQuery
    /\ r.kind = "details" => r.mail = highlighted

\* Details of another mail than the marked one are under a block that no search lifts.
DetailsPlaced ==
  \/ details = NoMail \/ details = highlighted
  \/ isBlocked /\ \A r \in requests : r.kind = "details"

PatientInv ==
  /\ TypeOK
  /\ Quiet
  /\ DialogFree
  /\ BlockedWhileBusy
  /\ RequestsCurrent
  /\ ListAgrees
  /\ DetailsPlaced

-----------------------------------------------------------------------------
\* The initial state has the types declared.
LEMMA InitTypeOK == Init => TypeOK
<1> SUFFICES ASSUME Init PROVE TypeOK
  OBVIOUS
<1>1. PageBlockTypeOK
  BY DEF Init, PageBlockTypeOK
<1>2. searchCriteria \in Criteria /\ sortCriteria \in Sorts
  BY HomePageAssumption DEF Init, Criteria, Sorts
<1>3. page \in Pages /\ totalPages \in Pages /\ previousPage \in Pages /\ nextPage \in Pages
  BY HomePageAssumption DEF Init, Pages
<1> QED
  BY <1>1, <1>2, <1>3, HomePageAssumption DEF Init, TypeOK

\* A search request is a request.
LEMMA PerformSearchType ==
  ASSUME TypeOK, NEW p \in Pages, NEW search \in Criteria, NEW sort \in Sorts,
         PerformSearch(p, search, sort)
  PROVE  /\ isBlocked' \in BOOLEAN /\ layers' \subseteq {"shown", "fading", "hidden"}
         /\ requests' \subseteq ListRequests \cup DetailsRequests
<1>1. PICK id \in FreeIds :
        requests' = requests \cup
          {[id |-> id, kind |-> "list",
            query |-> [page |-> p, search |-> search, sort |-> sort]]}
  BY DEF PerformSearch
<1>2. [id |-> id, kind |-> "list",
       query |-> [page |-> p, search |-> search, sort |-> sort]] \in ListRequests
  BY DEF ListRequests, Queries, FreeIds
<1> QED
  BY <1>1, <1>2 DEF PerformSearch, Block, TypeOK, PageBlockTypeOK

\* What renderMailItems draws has the type of a list.
LEMMA RenderType ==
  ASSUME TypeOK, NEW query \in Queries, NEW a \in Answers(query),
         RenderMailItems(query, a.pages, a.mails), UNCHANGED <<page>>
  PROVE  /\ totalPages' \in Pages /\ previousPage' \in Pages /\ nextPage' \in Pages
         /\ list' \in Lists
         /\ highlighted' = NoMail /\ details' = NoMail
<1>1. a.pages \in Pages /\ a.mails \in SUBSET Mails
  BY DEF Answers
<1>2. page \in Pages
  BY DEF TypeOK
<1> QED
  BY <1>1, <1>2, HomePageAssumption DEF RenderMailItems, Lists, TypeOK, Pages

\* A search started from the list keeps the types.
LEMMA SearchFromListType ==
  ASSUME TypeOK, NEW p \in Pages, NEW sort \in Sorts, SearchFromList(p, sort)
  PROVE  TypeOK'
<1>1. searchCriteria \in Criteria
  BY DEF TypeOK
<1>2. PerformSearch(p, searchCriteria, sort)
  BY DEF SearchFromList
<1> QED
  BY <1>1, <1>2, PerformSearchType
     DEF SearchFromList, TypeOK, PageBlockTypeOK, drawnVars, dialogVars

\* Every step keeps the types: one lemma for each group of actions.
LEMMA StartingType == ASSUME TypeOK, Starting PROVE TypeOK'
<1>1. CASE TemplatesLoaded
  <2>1. PerformSearch(page, searchCriteria, sortCriteria)
    BY <1>1 DEF TemplatesLoaded
  <2>2. page \in Pages /\ searchCriteria \in Criteria /\ sortCriteria \in Sorts
    BY DEF TypeOK
  <2> QED
    BY <1>1, <2>1, <2>2, PerformSearchType
       DEF TemplatesLoaded, TypeOK, PageBlockTypeOK, pageVars, criteriaVars, drawnVars,
           dialogVars
<1>2. CASE TemplatesFailed
  BY <1>2 DEF TemplatesFailed, Alert, Unblock, TypeOK, PageBlockTypeOK, pageVars,
              criteriaVars, drawnVars, dialogVars
<1> QED
  BY <1>1, <1>2 DEF Starting

LEMMA AnsweringType == ASSUME TypeOK, Answering PROVE TypeOK'
<1>1. PICK r \in requests :
        SearchAnswered(r) \/ SearchFailed(r) \/ DetailsAnswered(r) \/ DetailsFailed(r)
  BY DEF Answering
<1>2. CASE SearchAnswered(r)
  <2>1. r.query \in Queries
    BY <1>2 DEF SearchAnswered, TypeOK, ListRequests, DetailsRequests
  <2>2. PICK a \in Answers(r.query) : RenderMailItems(r.query, a.pages, a.mails)
    BY <1>2 DEF SearchAnswered
  <2>3. /\ totalPages' \in Pages /\ previousPage' \in Pages /\ nextPage' \in Pages
        /\ list' \in Lists
        /\ highlighted' = NoMail /\ details' = NoMail
    BY <1>2, <2>1, <2>2, RenderType DEF SearchAnswered
  <2> QED
    BY <1>2, <2>3 DEF SearchAnswered, Unblock, TypeOK, PageBlockTypeOK, criteriaVars,
                      dialogVars
<1>3. CASE SearchFailed(r)
  BY <1>3 DEF SearchFailed, Alert, Unblock, TypeOK, PageBlockTypeOK, pageVars,
              criteriaVars, drawnVars, dialogVars
<1>4. CASE DetailsAnswered(r)
  BY <1>1, <1>4 DEF DetailsAnswered, Unblock, TypeOK, PageBlockTypeOK, pageVars,
                    criteriaVars, dialogVars, ListRequests, DetailsRequests
<1>5. CASE DetailsFailed(r)
  BY <1>5 DEF DetailsFailed, blockVars, TypeOK, PageBlockTypeOK, pageVars,
              criteriaVars, drawnVars, dialogVars
<1> QED
  BY <1>1, <1>2, <1>3, <1>4, <1>5

LEMMA NavigatingType == ASSUME TypeOK, Navigating PROVE TypeOK'
<1> USE DEF Reachable, Clickable
<1>1. ASSUME list # NoList
      PROVE  list \in Lists
  BY <1>1 DEF TypeOK
<1>2. /\ page \in Pages /\ previousPage \in Pages /\ nextPage \in Pages
      /\ totalPages \in Pages /\ 1 \in Pages
      /\ sortCriteria \in Sorts
  BY HomePageAssumption DEF TypeOK, Pages
<1>3. CASE RefreshMailList
  BY <1>2, <1>3, SearchFromListType DEF RefreshMailList
<1>4. CASE FirstPage \/ PreviousPage \/ NextPage \/ LastPage
  BY <1>2, <1>4, SearchFromListType DEF FirstPage, PreviousPage, NextPage, LastPage
<1>5. ASSUME NEW p \in Pages, GoToPage(p)
      PROVE  TypeOK'
  BY <1>2, <1>5, SearchFromListType DEF GoToPage
<1>6. ASSUME NEW f \in Fields, SortBy(f)
      PROVE  TypeOK'
  <2>1. ChangedSort(f) \in Sorts
    BY DEF ChangedSort, Opposite, Sorts
  <2> QED
    BY <1>2, <1>6, <2>1, SearchFromListType DEF SortBy
<1>7. ASSUME NEW m \in Mails, ViewMailDetails(m)
      PROVE  TypeOK'
  <2>1. PICK id \in FreeIds :
          requests' = requests \cup {[id |-> id, kind |-> "details", mail |-> m]}
    BY <1>7 DEF ViewMailDetails
  <2>2. [id |-> id, kind |-> "details", mail |-> m] \in DetailsRequests
    BY DEF DetailsRequests, FreeIds
  <2> QED
    BY <1>7, <2>1, <2>2 DEF ViewMailDetails, Block, TypeOK, PageBlockTypeOK, pageVars,
                            criteriaVars, dialogVars
<1> QED
  BY <1>3, <1>4, <1>5, <1>6, <1>7 DEF Navigating

LEMMA SearchingType == ASSUME TypeOK, Searching PROVE TypeOK'
<1> USE DEF TypeOK, PageBlockTypeOK, blockVars, pageVars, criteriaVars, drawnVars,
            dialogVars
<1>1. searchCriteria \in Criteria /\ page \in Pages /\ sortCriteria \in Sorts
  OBVIOUS
<1>2. CASE OpenSearch
  BY <1>2, HomePageAssumption DEF OpenSearch
<1>3. CASE SearchShown
  BY <1>1, <1>3 DEF SearchShown, Criteria
<1>4. CASE SearchHidden
  BY <1>4 DEF SearchHidden
<1>5. ASSUME NEW text \in Texts, FillIn(text)
      PROVE  TypeOK'
  BY <1>5 DEF FillIn
<1>6. ASSUME NEW range \in Ranges, PickRange(range)
      PROVE  TypeOK'
  <2>1. searchCriteria' \in Criteria
    BY <1>1, <1>6 DEF PickRange, Criteria
  <2> QED
    BY <1>6, <2>1 DEF PickRange
<1>7. CASE ClearSearch
  <2>1. searchCriteria' \in Criteria
    BY <1>1, <1>7, HomePageAssumption DEF ClearSearch, Criteria
  <2> QED
    BY <1>7, <2>1, HomePageAssumption DEF ClearSearch
<1>8. CASE CancelSearch
  BY <1>8 DEF CancelSearch
<1>9. CASE ExecuteSearch
  <2> DEFINE search == [searchCriteria EXCEPT !.text = field]
  <2>1. search \in Criteria
    BY <1>1 DEF Criteria
  <2>2. PerformSearch(page, search, sortCriteria) /\ searchCriteria' = search
    BY <1>9 DEF ExecuteSearch
  <2>3. /\ isBlocked' \in BOOLEAN /\ layers' \subseteq {"shown", "fading", "hidden"}
        /\ requests' \subseteq ListRequests \cup DetailsRequests
    BY <1>1, <2>1, <2>2, PerformSearchType
  <2> HIDE DEF search
  <2> QED
    BY <1>9, <2>1, <2>2, <2>3 DEF ExecuteSearch
<1> QED
  BY <1>2, <1>3, <1>4, <1>5, <1>6, <1>7, <1>8, <1>9 DEF Searching

LEMMA FadingType == ASSUME TypeOK, Fading PROVE TypeOK'
BY DEF Fading, FadeDone, TypeOK, PageBlockTypeOK, pageVars, criteriaVars, drawnVars,
       dialogVars

LEMMA NextTypeOK == ASSUME TypeOK, [Next]_vars PROVE TypeOK'
<1>1. CASE UNCHANGED vars
  BY <1>1 DEF vars, blockVars, pageVars, criteriaVars, drawnVars, dialogVars, TypeOK,
              PageBlockTypeOK
<1> QED
  BY <1>1, StartingType, AnsweringType, NavigatingType, SearchingType, FadingType DEF Next

\* Every variable of the home page keeps its type: pages stay within those counted,
\* requests are requests, whatever users and server do.
THEOREM HomeTypeCorrect == Spec => []TypeOK
<1>1. Init => TypeOK
  BY InitTypeOK
<1>2. TypeOK /\ [Next]_vars => TypeOK'
  BY NextTypeOK
<1> QED
  BY <1>1, <1>2, PTL DEF Spec
-----------------------------------------------------------------------------
(* Patient users. *)

LEMMA InitPatient == Init => PatientInv
<1> SUFFICES ASSUME Init PROVE PatientInv
  OBVIOUS
<1> QED
  BY InitTypeOK DEF Init, PatientInv, Quiet, DialogFree, BlockedWhileBusy, RequestsCurrent,
                    ListAgrees, DetailsPlaced

\* A search started while no request is on its way is the only one, asks for what
\* the variables hold, and blocks the page.
LEMMA SearchStarts ==
  ASSUME PatientInv, requests = {}, details = NoMail \/ ~isBlocked, ~loading',
         PerformSearch(page', searchCriteria', sortCriteria'),
         UNCHANGED drawnVars, dialog' \in {"closed", "closing"}, TypeOK'
  PROVE  PatientInv'
<1>1. PICK id \in FreeIds :
        requests' = {[id |-> id, kind |-> "list", query |-> CurrentQuery']}
  BY DEF PerformSearch, CurrentQuery
<1>2. isBlocked' = TRUE
  BY DEF PerformSearch, Block
<1>3. BlockedWhileBusy' /\ RequestsCurrent'
  BY <1>1, <1>2 DEF BlockedWhileBusy, RequestsCurrent
<1>4. Quiet' /\ DialogFree'
  BY <1>2 DEF Quiet, DialogFree
<1>5. ListAgrees'
  BY DEF PatientInv, ListAgrees, drawnVars
<1>6. DetailsPlaced'
  BY DEF PatientInv, DetailsPlaced, drawnVars
<1> QED
  BY <1>3, <1>4, <1>5, <1>6 DEF PatientInv

LEMMA StartingPatient == ASSUME PatientInv, Starting PROVE PatientInv'
<1>1. TypeOK'
  BY StartingType DEF PatientInv
<1>2. loading => requests = {} /\ list = NoList /\ details = NoMail /\ dialog = "closed"
  BY DEF PatientInv, Quiet
<1>3. CASE TemplatesLoaded
  BY <1>1, <1>2, <1>3, SearchStarts
     DEF TemplatesLoaded, pageVars, criteriaVars, drawnVars, dialogVars
<1>4. CASE TemplatesFailed
  <2>1. requests' = {} /\ ~isBlocked' /\ ~loading'
    BY <1>2, <1>4 DEF TemplatesFailed, Alert, Unblock
  <2> QED
    BY <1>1, <1>2, <1>4, <2>1
       DEF TemplatesFailed, PatientInv, Quiet, DialogFree, BlockedWhileBusy, RequestsCurrent,
           ListAgrees, DetailsPlaced, drawnVars, dialogVars
<1> QED
  BY <1>3, <1>4 DEF Starting

\* When its only request has ended, none is left; an answer is drawn around with what
\* it was asked for.
LEMMA AnsweringPatient == ASSUME PatientInv, Answering PROVE PatientInv'
<1> USE DEF PatientInv
<1>1. PICK r \in requests :
        SearchAnswered(r) \/ SearchFailed(r) \/ DetailsAnswered(r) \/ DetailsFailed(r)
  BY DEF Answering
<1>2. TypeOK'
  BY AnsweringType
<1>3. requests' = {}
  BY <1>1 DEF BlockedWhileBusy, SearchAnswered, SearchFailed, DetailsAnswered, DetailsFailed
<1>4. ~loading /\ ~loading'
  BY <1>1 DEF Quiet, SearchAnswered, SearchFailed, DetailsAnswered, DetailsFailed
<1>5. dialog \notin {"opening", "open"} /\ dialog' = dialog
  BY <1>1 DEF DialogFree, BlockedWhileBusy, dialogVars, SearchAnswered, SearchFailed,
              DetailsAnswered, DetailsFailed
<1>6. Quiet' /\ DialogFree' /\ BlockedWhileBusy' /\ RequestsCurrent'
  BY <1>3, <1>4, <1>5 DEF Quiet, DialogFree, BlockedWhileBusy, RequestsCurrent
<1>7. CASE SearchAnswered(r)
  <2>1. PICK a \in Answers(r.query) : RenderMailItems(r.query, a.pages, a.mails)
    BY <1>7 DEF SearchAnswered
  <2>2. r.query = CurrentQuery
    BY <1>7 DEF SearchAnswered, RequestsCurrent
  <2>3. ListAgrees' /\ DetailsPlaced'
    BY <2>1, <2>2 DEF RenderMailItems, CurrentQuery, ListAgrees, DetailsPlaced
  <2> QED
    BY <1>2, <1>6, <2>3
<1>8. CASE SearchFailed(r)
  <2>1. UNCHANGED drawnVars /\ r.kind = "list"
    BY <1>8 DEF SearchFailed
  <2>2. ListAgrees'
    BY <2>1 DEF ListAgrees, drawnVars
  <2>3. DetailsPlaced'
    BY <1>1, <2>1 DEF DetailsPlaced, drawnVars
  <2> QED
    BY <1>2, <1>6, <2>2, <2>3
<1>9. CASE DetailsAnswered(r)
  <2>1. r.mail = highlighted
    BY <1>9 DEF DetailsAnswered, RequestsCurrent
  <2>2. ListAgrees' /\ DetailsPlaced'
    BY <1>9, <2>1 DEF DetailsAnswered, ListAgrees, DetailsPlaced
  <2> QED
    BY <1>2, <1>6, <2>2
<1>10. CASE DetailsFailed(r)
  <2>1. UNCHANGED drawnVars /\ isBlocked' = isBlocked
    BY <1>10 DEF DetailsFailed, blockVars
  <2>2. ListAgrees'
    BY <2>1 DEF ListAgrees, drawnVars
  <2>3. DetailsPlaced'
    BY <1>3, <2>1 DEF DetailsPlaced, drawnVars
  <2> QED
    BY <1>2, <1>6, <2>2, <2>3
<1> QED
  BY <1>1, <1>7, <1>8, <1>9, <1>10

\* What the list offers is within reach only while no request is on its way.
LEMMA ReachableIdle ==
  ASSUME PatientInv, Reachable
  PROVE  requests = {} /\ ~loading /\ ~isBlocked
BY DEF PatientInv, Reachable, KeysReach, BlockedWhileBusy, Quiet

LEMMA SearchFromListPatient ==
  ASSUME PatientInv, Reachable, NEW p, NEW sort, SearchFromList(p, sort), TypeOK'
  PROVE  PatientInv'
BY ReachableIdle, SearchStarts DEF SearchFromList, Reachable, dialogVars

LEMMA NavigatingPatient == ASSUME PatientInv, Navigating PROVE PatientInv'
<1>1. TypeOK'
  BY NavigatingType DEF PatientInv
<1>2. ASSUME NEW m \in Mails, ViewMailDetails(m)
      PROVE  PatientInv'
  <2>1. requests = {} /\ ~loading /\ dialog = "closed"
    BY <1>2, ReachableIdle DEF ViewMailDetails, Reachable
  <2>2. PICK id \in FreeIds :
          requests' = {[id |-> id, kind |-> "details", mail |-> m]}
    BY <1>2, <2>1 DEF ViewMailDetails
  <2>3. isBlocked' = TRUE /\ highlighted' = m
    BY <1>2 DEF ViewMailDetails, Block
  <2>4. BlockedWhileBusy' /\ RequestsCurrent' /\ DetailsPlaced'
    BY <2>2, <2>3 DEF BlockedWhileBusy, RequestsCurrent, DetailsPlaced
  <2>5. Quiet' /\ DialogFree' /\ ListAgrees'
    BY <1>2, <2>1 DEF ViewMailDetails, PatientInv, Quiet, DialogFree, ListAgrees, dialogVars
  <2> QED
    BY <1>1, <2>4, <2>5 DEF PatientInv
<1>3. ASSUME ~\E m \in Mails : ViewMailDetails(m)
      PROVE  Reachable /\ \E p, sort : SearchFromList(p, sort)
  BY <1>3 DEF Navigating, RefreshMailList, FirstPage, PreviousPage, NextPage, LastPage,
              GoToPage, SortBy, Clickable
<1> QED
  BY <1>1, <1>2, <1>3, SearchFromListPatient

\* A dialog whose buttons a patient user presses lies over a free page.
LEMMA PressableIdle ==
  ASSUME PatientInv, ~Impatient, Pressable
  PROVE  requests = {} /\ ~loading /\ ~isBlocked /\ dialog = "open"
BY DEF PatientInv, Pressable, DialogFree, BlockedWhileBusy, Quiet

LEMMA SearchingPatient == ASSUME PatientInv, ~Impatient, Searching PROVE PatientInv'
<1>1. TypeOK'
  BY SearchingType DEF PatientInv
<1>2. CASE ExecuteSearch
  BY <1>1, <1>2, PressableIdle, SearchStarts DEF ExecuteSearch, pageVars
<1>3. ASSUME ~ExecuteSearch
      PROVE  /\ UNCHANGED <<blockVars, loading, drawnVars, requests>>
             /\ loading => dialog' = dialog
             /\ dialog' \in {"opening", "open"} => ~isBlocked
             /\ requests # {} => UNCHANGED CurrentQuery
  <2>1. CASE OpenSearch
    BY <2>1, ReachableIdle DEF OpenSearch, Reachable, KeysReach
  <2>2. CASE SearchShown
    BY <2>2 DEF SearchShown, PatientInv, DialogFree, Quiet, CurrentQuery, pageVars, criteriaVars
  <2>3. CASE SearchHidden
    BY <2>3 DEF SearchHidden, PatientInv, Quiet, CurrentQuery, pageVars, criteriaVars
  <2>4. CASE \/ \E text \in Texts : FillIn(text)
             \/ \E range \in Ranges : PickRange(range)
             \/ ClearSearch \/ CancelSearch
    BY <2>4, PressableIdle DEF FillIn, PickRange, ClearSearch, CancelSearch, dialogVars
  <2> QED
    BY <1>3, <2>1, <2>2, <2>3, <2>4 DEF Searching
<1>4. CASE ~ExecuteSearch
  <2>1. Quiet' /\ DialogFree' /\ BlockedWhileBusy' /\ ListAgrees'
    BY <1>3, <1>4 DEF PatientInv, Quiet, DialogFree, BlockedWhileBusy, ListAgrees, blockVars,
                      drawnVars
  <2>2. RequestsCurrent'
    BY <1>3, <1>4 DEF PatientInv, RequestsCurrent, drawnVars
  <2>3. DetailsPlaced'
    BY <1>3, <1>4 DEF PatientInv, DetailsPlaced, drawnVars, blockVars
  <2> QED
    BY <1>1, <2>1, <2>2, <2>3 DEF PatientInv
<1> QED
  BY <1>2, <1>4

LEMMA QuietStepPatient ==
  ASSUME PatientInv,
         UNCHANGED <<isBlocked, loading, pageVars, criteriaVars, drawnVars, dialogVars, requests>>,
         TypeOK'
  PROVE  PatientInv'
BY DEF PatientInv, Quiet, DialogFree, BlockedWhileBusy, RequestsCurrent, CurrentQuery,
       ListAgrees, DetailsPlaced, pageVars, criteriaVars, drawnVars, dialogVars

LEMMA NextPatient == ASSUME PatientInv, ~Impatient, [Next]_vars PROVE PatientInv'
<1>1. TypeOK'
  BY NextTypeOK DEF PatientInv
<1>2. CASE UNCHANGED vars
  BY <1>1, <1>2, QuietStepPatient DEF vars, blockVars
<1>3. CASE Fading
  BY <1>1, <1>3, QuietStepPatient DEF Fading, FadeDone
<1> QED
  BY <1>2, <1>3, StartingPatient, AnsweringPatient, NavigatingPatient, SearchingPatient
     DEF Next

LEMMA PatientInvariant == ASSUME ~Impatient PROVE Spec => []PatientInv
<1>1. Init => PatientInv
  BY InitPatient
<1>2. PatientInv /\ [Next]_vars => PatientInv'
  BY NextPatient
<1> QED
  BY <1>1, <1>2, PTL DEF Spec

\* Patient users always see mails under the page number, filters and sort icons they
\* were asked for with (renderMailItems draws these from the controller's variables).
THEOREM ListsAgree == ASSUME ~Impatient PROVE Spec => []ListAgrees
BY PatientInvariant, PTL DEF PatientInv

\* With patient users the page is blocked from a request to its answer, and there is
\* one request at a time (performSearch and viewMailDetails).
THEOREM BusyIsBlocked == ASSUME ~Impatient PROVE Spec => []BlockedWhileBusy
BY PatientInvariant, PTL DEF PatientInv

\* With patient users the details shown on a page that can be used are those of the
\* marked row, requests for mails that fail included.
THEOREM DetailsAreMarked == ASSUME ~Impatient PROVE Spec => []DetailsAgree
<1>1. PatientInv => DetailsAgree
  BY DEF PatientInv, DetailsPlaced, DetailsAgree
<1> QED
  BY <1>1, PatientInvariant, PTL

-----------------------------------------------------------------------------
(* The refinement. *)

\* A request as the abstract view sees it.
LEMMA PendingIs ==
  /\ requests = {} => pendingQuery = NoList
  /\ \A r : requests = {r} =>
       pendingQuery = IF r.kind = "list" THEN r.query ELSE NoList
<1>1. requests = {} => ListQueries = {}
  BY DEF ListQueries
<1>2. ASSUME NEW r, requests = {r}
      PROVE  ListQueries = IF r.kind = "list" THEN {r.query} ELSE {}
  BY <1>2 DEF ListQueries
<1> QED
  BY <1>1, <1>2 DEF pendingQuery

\* The same after a step.
LEMMA PendingIsNext ==
  /\ requests' = {} => pendingQuery' = NoList
  /\ \A r : requests' = {r} =>
       pendingQuery' = IF r.kind = "list" THEN r.query ELSE NoList
<1>1. requests' = {} => ListQueries' = {}
  BY DEF ListQueries
<1>2. ASSUME NEW r, requests' = {r}
      PROVE  ListQueries' = IF r.kind = "list" THEN {r.query} ELSE {}
  BY <1>2 DEF ListQueries
<1> QED
  BY <1>1, <1>2 DEF pendingQuery

LEMMA UnseenStep == UNCHANGED <<list, requests>> => UNCHANGED <<pendingQuery, shownQuery>>
BY DEF pendingQuery, shownQuery, ListQueries

\* performSearch with no request on its way is the view's Ask.
LEMMA SearchAsks ==
  ASSUME requests = {}, NEW p \in Pages, NEW search \in Criteria, NEW sort \in Sorts,
         PerformSearch(p, search, sort), UNCHANGED list
  PROVE  View!Ask
<1>1. PICK id \in FreeIds :
        requests' = {[id |-> id, kind |-> "list",
                      query |-> [page |-> p, search |-> search, sort |-> sort]]}
  BY DEF PerformSearch
<1>2. pendingQuery' = [page |-> p, search |-> search, sort |-> sort]
  <2> DEFINE r == [id |-> id, kind |-> "list",
                   query |-> [page |-> p, search |-> search, sort |-> sort]]
  <2>1. requests' = {r}
    BY <1>1
  <2>2. r.kind = "list" /\ r.query = [page |-> p, search |-> search, sort |-> sort]
    OBVIOUS
  <2> HIDE DEF r
  <2> QED
    BY <2>1, <2>2, PendingIsNext
<1>3. pendingQuery = NoList
  BY PendingIs
<1>4. UNCHANGED shownQuery
  BY DEF shownQuery
<1> QED
  BY <1>2, <1>3, <1>4 DEF View!Ask, Queries

\* The end of a list request is Show or Fail, that of a request for a mail is neither.
LEMMA AnswersShow ==
  ASSUME PatientInv, Answering
  PROVE  View!Show \/ View!Fail \/ UNCHANGED <<pendingQuery, shownQuery>>
<1> USE DEF PatientInv
<1>1. PICK r \in requests :
        SearchAnswered(r) \/ SearchFailed(r) \/ DetailsAnswered(r) \/ DetailsFailed(r)
  BY DEF Answering
<1>2. requests = {r} /\ requests' = {}
  BY <1>1 DEF BlockedWhileBusy, SearchAnswered, SearchFailed, DetailsAnswered, DetailsFailed
<1>3. pendingQuery' = NoList
  BY <1>2, PendingIsNext
<1>4. pendingQuery = IF r.kind = "list" THEN r.query ELSE NoList
  BY <1>2, PendingIs
<1>5. r.kind = "list" => r.query # NoList
  BY NoListAssumption DEF TypeOK, ListRequests, DetailsRequests
<1>6. CASE SearchAnswered(r)
  <2>1. PICK a \in Answers(r.query) : RenderMailItems(r.query, a.pages, a.mails)
    BY <1>6 DEF SearchAnswered
  <2>2. list'.asked = r.query /\ r.kind = "list"
    BY <1>6, <2>1 DEF RenderMailItems, SearchAnswered
  <2>3. list' # NoList
    <3>1. list' \in Lists
      BY <2>1, <1>6, RenderType DEF SearchAnswered, TypeOK, ListRequests, DetailsRequests
    <3> QED
      BY <3>1, NoListAssumption
  <2>4. shownQuery' = r.query
    BY <2>2, <2>3 DEF shownQuery
  <2> QED
    BY <1>3, <1>4, <1>5, <2>2, <2>4 DEF View!Show
<1>7. CASE SearchFailed(r)
  <2>1. UNCHANGED shownQuery /\ r.kind = "list"
    BY <1>7 DEF SearchFailed, drawnVars, shownQuery
  <2> QED
    BY <1>3, <1>4, <1>5, <2>1 DEF View!Fail
<1>8. CASE DetailsAnswered(r) \/ DetailsFailed(r)
  BY <1>3, <1>4, <1>8 DEF DetailsAnswered, DetailsFailed, shownQuery, drawnVars
<1> QED
  BY <1>1, <1>6, <1>7, <1>8

LEMMA NextImplementsView ==
  ASSUME PatientInv, ~Impatient, [Next]_vars
  PROVE  [View!Next]_<<pendingQuery, shownQuery>>
<1>1. ASSUME Starting
      PROVE  View!Ask \/ UNCHANGED <<pendingQuery, shownQuery>>
  <2>1. CASE TemplatesLoaded
    <3>1. requests = {} /\ UNCHANGED list
      BY <2>1 DEF TemplatesLoaded, PatientInv, Quiet, drawnVars
    <3> QED
      BY <2>1, <3>1, SearchAsks DEF TemplatesLoaded, PatientInv, TypeOK
  <2>2. CASE TemplatesFailed
    BY <2>2, UnseenStep DEF TemplatesFailed, drawnVars
  <2> QED
    BY <1>1, <2>1, <2>2 DEF Starting
<1>2. ASSUME Navigating
      PROVE  View!Ask \/ UNCHANGED <<pendingQuery, shownQuery>>
  <2>1. ASSUME NEW m \in Mails, ViewMailDetails(m)
        PROVE  UNCHANGED <<pendingQuery, shownQuery>>
    <3>1. requests = {} /\ UNCHANGED list
      BY <2>1, ReachableIdle DEF ViewMailDetails
    <3>2. PICK id \in FreeIds :
            requests' = {[id |-> id, kind |-> "details", mail |-> m]}
      BY <2>1, <3>1 DEF ViewMailDetails
    <3>3. pendingQuery = NoList /\ pendingQuery' = NoList
      BY <3>1, <3>2, PendingIs, PendingIsNext
    <3> QED
      BY <3>1, <3>3 DEF shownQuery
  <2>2. ASSUME ~\E m \in Mails : ViewMailDetails(m)
        PROVE  Reachable /\ \E p, sort : SearchFromList(p, sort)
    BY <1>2, <2>2 DEF Navigating, RefreshMailList, FirstPage, PreviousPage, NextPage,
                      LastPage, GoToPage, SortBy, Clickable
  <2>3. ASSUME NEW p, NEW sort, Reachable, SearchFromList(p, sort)
        PROVE  View!Ask
    <3>1. requests = {} /\ UNCHANGED list /\ searchCriteria \in Criteria
      BY <2>3, ReachableIdle DEF SearchFromList, drawnVars, PatientInv, TypeOK
    <3>2. p \in Pages /\ sort \in Sorts
      BY <1>2, <2>3, NavigatingType DEF SearchFromList, PatientInv, TypeOK
    <3> QED
      BY <2>3, <3>1, <3>2, SearchAsks DEF SearchFromList
  <2> QED
    BY <2>1, <2>2, <2>3
<1>3. ASSUME Searching
      PROVE  View!Ask \/ UNCHANGED <<pendingQuery, shownQuery>>
  <2>1. CASE ExecuteSearch
    <3> DEFINE search == [searchCriteria EXCEPT !.text = field]
    <3>1. requests = {} /\ UNCHANGED list
      BY <2>1, PressableIdle DEF ExecuteSearch, drawnVars
    <3>2. search \in Criteria /\ page \in Pages /\ sortCriteria \in Sorts
      BY DEF PatientInv, TypeOK, Criteria
    <3>3. PerformSearch(page, search, sortCriteria)
      BY <2>1 DEF ExecuteSearch
    <3> HIDE DEF search
    <3> QED
      BY <3>1, <3>2, <3>3, SearchAsks
  <2>2. CASE ~ExecuteSearch
    <3>1. UNCHANGED <<list, requests>>
      BY <1>3, <2>2 DEF Searching, OpenSearch, SearchShown, SearchHidden, FillIn, PickRange,
                        ClearSearch, CancelSearch, drawnVars
    <3> QED
      BY <3>1, UnseenStep
  <2> QED
    BY <2>1, <2>2
<1>4. ASSUME Fading \/ UNCHANGED vars
      PROVE  UNCHANGED <<pendingQuery, shownQuery>>
  BY <1>4, UnseenStep DEF Fading, drawnVars, vars
<1> QED
  BY <1>1, <1>2, <1>3, <1>4, AnswersShow DEF Next, View!Next

\* With patient users the page is a view that asks one question at a time and shows
\* the answer to the last one answered (performSearch and its callbacks).
THEOREM HomePageIsView == ASSUME ~Impatient PROVE Spec => View!SafeSpec
<1>1. Init => View!Init
  <2>1. Init => pendingQuery = NoList
    BY PendingIs DEF Init
  <2>2. Init => shownQuery = NoList
    BY DEF Init, shownQuery
  <2> QED
    BY <2>1, <2>2 DEF View!Init
<1>2. PatientInv /\ [Next]_vars => [View!Next]_<<pendingQuery, shownQuery>>
  BY NextImplementsView
<1> QED
  BY <1>1, <1>2, PatientInvariant, PTL DEF Spec, View!SafeSpec, View!viewVars

-----------------------------------------------------------------------------
(* For any user: the overlay, and what Refresh asks for. *)

\* What a step of the page may do to its block.
LEMMA StepBlocks ==
  ASSUME [Next]_vars
  PROVE  Block \/ Unblock \/ FadeDone \/ UNCHANGED blockVars
<1>1. CASE Starting
  BY <1>1 DEF Starting, TemplatesLoaded, TemplatesFailed, PerformSearch, Alert
<1>2. CASE Answering
  BY <1>2 DEF Answering, SearchAnswered, SearchFailed, DetailsAnswered, DetailsFailed, Alert
<1>3. CASE Navigating
  <2>1. ASSUME NEW m \in Mails, ViewMailDetails(m) PROVE Block
    BY <2>1 DEF ViewMailDetails
  <2>2. ASSUME NEW p, NEW sort, SearchFromList(p, sort) PROVE Block
    BY <2>2 DEF SearchFromList, PerformSearch
  <2> QED
    BY <1>3, <2>1, <2>2 DEF Navigating, RefreshMailList, FirstPage, PreviousPage, NextPage,
                            LastPage, GoToPage, SortBy
<1>4. CASE Searching
  BY <1>4 DEF Searching, OpenSearch, SearchShown, SearchHidden, FillIn, PickRange,
              ClearSearch, CancelSearch, ExecuteSearch, PerformSearch
<1>5. CASE Fading
  BY <1>5 DEF Fading
<1>6. CASE UNCHANGED vars
  BY <1>6 DEF vars
<1> QED
  BY <1>1, <1>2, <1>3, <1>4, <1>5, <1>6 DEF Next

\* Whatever is called on the page's block keeps overlay and flag together.
LEMMA BlockKeepsOverlay ==
  ASSUME OverlayAgrees, Block \/ Unblock \/ FadeDone \/ UNCHANGED blockVars
  PROVE  OverlayAgrees'
<1>1. CASE Block
  BY <1>1 DEF Block, OverlayAgrees
<1>2. CASE Unblock
  BY <1>2 DEF Unblock, OverlayAgrees
<1>3. CASE FadeDone
  BY <1>3 DEF FadeDone, OverlayAgrees
<1>4. CASE UNCHANGED blockVars
  BY <1>4 DEF blockVars, OverlayAgrees
<1> QED
  BY <1>1, <1>2, <1>3, <1>4

\* The overlay lies over the page exactly while the page is blocked, also when a block
\* falls into the fade-out of the one before, whatever the user presses
\* (jquery.blockUI.js: install, remove and reset as AlertService.js calls them).
THEOREM HomeOverlayAgrees == Spec => []OverlayAgrees
<1>1. Init => OverlayAgrees
  BY DEF Init, OverlayAgrees
<1>2. OverlayAgrees /\ [Next]_vars => OverlayAgrees'
  BY StepBlocks, BlockKeepsOverlay
<1> QED
  BY <1>1, <1>2, PTL DEF Spec

\* A request sent is new, and asks what it was made of.
LEMMA SearchIsAsked ==
  ASSUME PerformSearch(page', searchCriteria', sortCriteria')
  PROVE  \E r \in requests' \ requests : r.kind = "list" /\ r.query = CurrentQuery'
<1> DEFINE asked(id) == [id |-> id, kind |-> "list", query |-> CurrentQuery']
<1>1. PICK id \in FreeIds : requests' = requests \cup {asked(id)}
  BY DEF PerformSearch, CurrentQuery
<1>2. asked(id).id = id /\ asked(id).kind = "list" /\ asked(id).query = CurrentQuery'
  OBVIOUS
<1> HIDE DEF asked
<1>3. asked(id) \notin requests
  BY <1>2 DEF FreeIds
<1> QED BY <1>1, <1>2, <1>3

\* Refresh repeats the last question asked, for any user and however requests end; only
\* a date range that the dialog has set without asking goes beyond it (the list's buttons,
\* performSearch and its catch, renderDateRangeSpan, the dialog's Clear and Cancel).
THEOREM RefreshAsksAgain == Spec => RefreshRepeats
<1> DEFINE Asked == \E r \in requests' \ requests : r.kind = "list" /\ r.query = CurrentQuery'
           RangeOnly == /\ dialog # "closed" /\ UNCHANGED <<page, sortCriteria>>
                        /\ searchCriteria'.text = searchCriteria.text
<1>1. TypeOK /\ [Next]_vars => [CurrentQuery' = CurrentQuery \/ Asked \/ RangeOnly]_vars
  <2> SUFFICES ASSUME TypeOK, [Next]_vars
               PROVE  CurrentQuery' = CurrentQuery \/ Asked \/ RangeOnly
    OBVIOUS
  <2>1. CASE UNCHANGED <<page, searchCriteria, sortCriteria>>
    BY <2>1 DEF CurrentQuery
  <2>2. ASSUME NEW p, NEW sort, SearchFromList(p, sort) PROVE Asked
    <3>1. /\ PerformSearch(p, searchCriteria, sort)
          /\ p = page' /\ searchCriteria = searchCriteria' /\ sort = sortCriteria'
      BY <2>2 DEF SearchFromList
    <3>2. PerformSearch(page', searchCriteria', sortCriteria')
      BY <3>1
    <3> QED BY <3>2, SearchIsAsked
  <2>3. CASE ExecuteSearch
    <3>1. /\ PerformSearch(page, searchCriteria', sortCriteria)
          /\ page = page' /\ sortCriteria = sortCriteria'
      BY <2>3 DEF ExecuteSearch, pageVars
    <3>2. PerformSearch(page', searchCriteria', sortCriteria')
      BY <3>1
    <3> QED BY <3>2, SearchIsAsked
  <2>4. CASE (\E range \in Ranges : PickRange(range)) \/ ClearSearch
    <3>1. PICK range : searchCriteria' = [searchCriteria EXCEPT !.range = range]
      BY <2>4 DEF PickRange, ClearSearch
    <3>2. searchCriteria'.text = searchCriteria.text
      BY <3>1 DEF TypeOK, Criteria
    <3>3. dialog # "closed"
      BY <2>4 DEF PickRange, ClearSearch, Pressable
    <3>4. UNCHANGED <<page, sortCriteria>>
      BY <2>4 DEF PickRange, ClearSearch, pageVars
    <3> QED BY <3>2, <3>3, <3>4
  <2>5. CASE Starting
    BY <2>1, <2>5 DEF Starting, TemplatesLoaded, TemplatesFailed, pageVars, criteriaVars
  <2>6. CASE Answering
    BY <2>1, <2>6 DEF Answering, SearchAnswered, SearchFailed, DetailsAnswered,
                      DetailsFailed, pageVars, criteriaVars
  <2>7. CASE Navigating
    <3>1. (\E p, sort : SearchFromList(p, sort)) \/ (\E m \in Mails : ViewMailDetails(m))
      BY <2>7 DEF Navigating, RefreshMailList, FirstPage, PreviousPage, NextPage, LastPage,
                  GoToPage, SortBy
    <3> QED BY <2>1, <2>2, <3>1 DEF ViewMailDetails, pageVars, criteriaVars
  <2>8. CASE Searching
    <3>1. ExecuteSearch \/ (\E range \in Ranges : PickRange(range)) \/ ClearSearch
          \/ UNCHANGED <<page, searchCriteria, sortCriteria>>
      BY <2>8 DEF Searching, OpenSearch, SearchShown, SearchHidden, FillIn, CancelSearch,
                  pageVars, criteriaVars
    <3> QED BY <2>1, <2>3, <2>4, <3>1
  <2>9. CASE Fading \/ UNCHANGED vars
    BY <2>1, <2>9 DEF Fading, vars, pageVars, criteriaVars
  <2> QED BY <2>5, <2>6, <2>7, <2>8, <2>9 DEF Next
<1> QED
  BY <1>1, HomeTypeCorrect, PTL DEF Spec, RefreshRepeats
==============================================================================
