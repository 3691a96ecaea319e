# MailSlurper in TLA+

MailSlurper is a development mail server: an SMTP service (`internal/smtp`)
accepts mail, a receiver stores it in a database (`internal/app`,
`internal/persistence`), an HTTP service lists, searches and prunes it
(`internal/handlers`), and a browser client shows it (`web/www`). This directory
holds TLA+ modules translated from that source, TLC configurations that check
them on small instances, and TLAPS proofs.

The modules follow a mail from the connection it arrives on to the page that
lists it: the pool of workers and the two goroutines of every session; the
listener and its shutdown; the transaction, the queue and the storage of a mail;
the server's list and its pruning; and the browser's pages, with answers that
come late, out of order, or not at all.

    tlc -workers 2 -config Polite.cfg MCSmtpServer      # a run
    tlapm SmtpServerProofs.tla                          # the proofs of a module

## 1. Inventory

| component | source | state | operations |
|---|---|---|---|
| SMTP worker | `smtp/worker.go` | the worker's fields (Connection, Reader, Writer, State, the mail under construction), per call of `Work`: two goroutines, `quitChannel`, `quitCommandChannel`, `workerErrorChannel`, `commandChannel`, `commandDoneChannel` | `Prepare`, `Work`, `rejoinWorkerQueue` |
| worker pool | `smtp/serverpool.go` | a buffered channel of idle workers | `NewServerPool`, `NextWorker`, `JoinQueue` |
| connection manager | `smtp/connection.go` | a map address -> connection, a close channel of capacity 5 | `New`, `Close`, `isConnectionClosed`, the closing goroutine |
| reader, writer | `smtp/reader.go`, `writer.go` | the connection's buffer and deadline | `Read`, `ReadDataBlock`, `SendResponse`, ... |
| listener | `smtp/listener.go` | `running`, `chClose`, the mail channel | `ListenAndServe`, the accept loop, `startReceivers`, `Shutdown`, `Close` |
| commands, executors | `smtp/commands.go`, `*command.go`, `reset.go` | the mail under construction | one executor per command |
| DATA and the MIME tree | `smtp/datacommand.go`, `model/SMTPMessagePart.go` | the message parts | `ParseMessages`, `recordMessagePart` |
| SMTP service, mail receiver | `app/service.go`, `app/receiver.go` | the stop channel, the listener | `Start`, `Shutdown`, `Close`, `Receive` |
| persistence | `persistence/*.go` | the `mailitem` and `attachment` tables | store, list, count, delete by date |
| HTTP API, admin pages, middleware | `handlers/*.go`, `app/router.go` | configuration, theme, templates | list, count, delete, theme, settings, `JWTAuth` |
| authentication | `pkg/auth/*` | none | tokens, credentials |
| browser: home page | `HomeController.js`, `MailService.js`, `blockui` | page, search, sort order, the list and the details drawn, the dialog, requests on their way | search, page, sort, view, refresh, save and pick a search |
| browser: saved searches | `SettingsService.js`, `SavedSearchesWidget.js`, `ManageSavedSearchesController.js` | local storage, shared by tabs | add, pick, delete |
| browser: admin page | `AdminController.js`, `SeedService.js` | templates, panels, handlers of buttons | count, prune, save settings |
| browser: visit | `app.js`, `AuthService.js` | cached settings and token | load, fetch settings, first call |
| configuration, command line | `io`, `cmd` | files, flags | start-up |

How they interact. The accept loop calls `ConnectionManager.New`, which takes a
worker from the pool (a channel), enters the connection in the map and starts
`Worker.Work` in a goroutine; `Work` starts a second goroutine, which reads
commands and hands each to the main loop over an unbuffered channel, waiting for
the answer on another. To end, the main loop sends the connection to the
manager's close channel and its worker back to the pool. Finished mails go over
another channel to the receiver goroutine and from there to the database, which
the HTTP handlers read and prune. A single stop channel is watched by the
workers, the readers and the manager; the listener has a second, `chClose`. The
browser talks to the HTTP handlers only, and to itself through local storage.

What is hard. Workers are shared: a session's goroutines go on after the worker
has rejoined the pool, and go through fields that `Prepare` overwrites for the
next connection. The two goroutines of a session report errors to each other
through bounded channels that one of them also sends to itself. The manager
probes a connection by moving the very deadline the session relies on. Every
participant leaves on the same stop channel, in any order, and `chClose` has
three parties that close it. The map of connections has no lock. The queue of
mails is dropped by a stop. A prune is two statements outside a transaction.
The pages of the browser keep one state for the question and the answer, and
only an overlay over the page keeps them together. `PROJECT.json` lists each of
these hazards at its line, with the properties that cover it.

What makes each component correct:

- pool and workers: a worker is used by one connection at a time, is in the pool
  at most once, and always comes back;
- a session: its goroutines stay in step, and touch no connection but their own;
- connection manager: it closes every connection, once its session is over and
  not before;
- listener and service: a stop reaches every session, is not taken for a failure of
  the socket, and makes `Start` return;
- reader: what the commands get is what the client sent, wherever it was cut;
- mail pipeline: a mail that was acknowledged is stored once, or dropped, with the
  sender and recipients of its own transaction;
- persistence: pruning removes only old mails, with their attachments;
- list: the page count fits the number of records it is sent with;
- visits: a page that is loaded shows its list, reports an error or leads to the
  login, and does not wait for ever;
- browser: what is drawn belongs to the question asked, and the page comes back.

## 2. Plan

All modules of the plan but one are written.

| module | composes | abstract specification | theorems |
|---|---|---|---|
| `Network`, `ServerPool`, `Worker`, `ConnectionManager`, `SmtpServer` | each extends the one before | `WorkerAllocation` | types, handshake, exclusive workers, own connection, nothing closed in service, room to send, no worker lost, safety of the refinement |
| `Listener`, `MailTransaction`, `MailPipeline` | the pipeline extends the other two | `MailDelivery` (safety) | types, mails are their own and in one place, a stop is no failure, the refinement |
| `Reader` | - | the pieces sent, as a sequence | types, taken as sent |
| `PageBlock`, `HomePage` | the page extends the block | `RemoteView` | types, lists agree, busy is blocked, details, overlay, refresh repeats, safety of the refinement |
| `AdminServer`, `AdminPage` | the page extends server and block | - | types, attachments have mails, others are kept, overlay |
| `SavedSearches` | - | - | types, searches stay in order, picks |
| `ApiAccess`, `ClientSession` | the visit extends the API | - | types |
| `MailListing` | - | - | types, pages fit |
| `MessageParts` | not written | the walk over the MIME tree against a reference definition | - |

What could come next: `MessageParts`; what a session promises once the service is
stopped, as a theorem (section 6 says why the present invariant ends there);
`SmtpServer` with `MailPipeline` as one module (they share DATA and the mail
channel, and each abstracts what the other details).

## 3. The modules

An action of an inner module is completed by the module that extends it, with
UNCHANGED for the rest.

### SMTP sessions

- **`Network`** is `net.Conn` as `internal/smtp` uses it, and the client at its
  other end. It is external to the repository and modelled from the calls made:
  `SetReadDeadline`, `Read`, `Write`, `Close`. A line is one of a few kinds, told
  apart by what the server does with it: `"ok"` (HELO, MAIL, RCPT, RSET, NOOP that
  succeed), `"bad"` (a known command that its executor rejects), `"data"`,
  `"quit"`, `"unknown"`, and two kinds of message body, one that parses and one
  that does not. `readLocked` is the lock a goroutine holds inside `Read`, which
  makes the manager's probing read wait. When a read could end for two reasons
  (a line is there and the deadline has passed), either may win.
- **`ServerPool`**: `pool` is the channel; `NextWorker` takes its head and
  `Prepare`s it, `JoinQueue` appends. Connection, Reader and Writer are always set
  together and are one field, `workerConn`.
- **`Worker`**: one call of `Work` per connection, with a program counter for each
  goroutine (`mainPc`, `cmdPc`) and what it holds (`mainConn`, `cmdConn`,
  `cmdLine`). Channels with capacity are counters (their messages are alike), the
  two unbuffered ones are joint steps of both goroutines. Steps are cut where the
  code may wait or where shared state is read before it is used: `CurrentConn(c)`,
  the connection of the worker *at that moment*, is read separately for the
  deadline, the goodbye and the close, because `Prepare` may come between.
- **`ConnectionManager`**: `connectionPool` is the map; `ManagerReceive` is the
  first half of `Close` up to the probing read, `ManagerClose` the read and the
  close. `New` is split at the wait for a worker. `MapRace` holds where New writes
  the map while the manager reads it without a lock.
- **`SmtpServer`** puts them together with clients, accept loop, receiver
  goroutine and shutdown, and states the properties. `Crash` is the outcome
  Go's runtime may choose when it sees `MapRace`: it stops the program.
- **`WorkerAllocation`** is the abstract promise of the pool: workers are lent
  first in, first out, each to one connection, and given back.
- **`MCSmtpServer`** gives every connection of the runs an address of its own.

`Polite` describes clients for which the code works: they leave only through
QUIT, inside a message, by falling silent, or after the goodbye, and send no
command the server does not know.

### A mail's way

- **`Listener`** is `SMTPService.Start`, `ListenAndServe` with the accept loop, and
  any number of calls of `Shutdown` and `Close` (`Closers`), cut between the
  statements that others can see: closing `chStop`, `chClose`, clearing `running`,
  closing the socket. `panicked` ends everything. `AcceptErrors` lets `Listen` and
  `Accept` fail; `EarlyClose` lets a stop come without a listener. Once there was one,
  a stop may come at any time, also after `Start` has returned.
- **`MailTransaction`** is the mail under construction: `mailItem` is the server's,
  `asked` what the client has asked for since its MAIL. MAIL, RCPT, RSET and DATA
  change them as their executors do, and as `Work` does after DATA.
  `Orderly` clients begin a mail only with MAIL and send no second one; the others
  send anything.
- **`MailPipeline`** joins the two: a mail that was answered 250 is handed over to
  `chMail` (capacity `MailCap`), taken by the receiver goroutine, which starts a
  goroutine for it, and stored or refused by the storage. A mail without a sender
  is refused by `Validate`, one without recipients is not, and any mail by a
  database that fails (`StoreFails`).
- **`MailDelivery`** is its abstract promise: acknowledged, then stored or dropped,
  once and unchanged.
- **`Reader`** is `Read` and `ReadDataBlock` on bytes. A byte is CR, LF, a dot or a
  letter. The network delivers what was sent in any cut; `MaxRead` is the size
  of the buffer. A client that `Waits` sends its next piece after the last was
  taken.

### The web side

- **`PageBlock`** is `$.blockUI` and `$.unblockUI`: a flag, and layers that fade
  with a timer. It is vendored code and modelled because it is what keeps the
  pages in order.
- **`HomePage`** is `HomeController.js`: `page`, `searchCriteria` and
  `sortCriteria` are its variables, `list` and `details` what is drawn (with the
  question they answer, in `list.asked`), `requests` what is on its way. Buttons
  work while the page is free, or while the dialog lies over it. Answers come in
  any order, with any mails and number of pages, or fail (`Failures`).
  `DetailsFail` lets the request for a mail fail. An `Impatient` user presses
  the buttons of the dialog while it opens or closes, or presses Enter once while
  one of them has the focus: bootstrap-dialog takes that for a click and for the
  button's hotkey, and the second comes while the dialog closes.
- **`RemoteView`** is the abstract page: one question at a time, the last answer
  shown whole.
- **`SavedSearches`** is local storage with several tabs. A search is the number
  under which it was saved. A read and write of local storage in one function
  is one step: the browser runs it without interruption.
- **`AdminServer`** has the mail and attachment tables, the prunes that the
  server works on (two statements each) and the theme in memory and in the file;
  **`AdminPage`** has the page: templates and data that load side by side, the
  panels drawn, the number of handlers on each button, the requests. The server
  may restart, and a statement or the writing of the file may fail.
- **`ApiAccess`** is `JWTAuth` before a handler, with encryption and signature as
  constructors (`Sealed`, `Signed`) and the answer as a sequence;
  **`ClientSession`** is a visit of the home page over it: cached settings, token,
  first call, and reloads.
- **`MailListing`** is the list handler's two reads, with mails coming and going
  in between, and the computation of the number of pages.

### Proofs and mutants

`SmtpServerProofs` (with `SessionInvariant`), `MailPipelineProofs`, `ReaderProofs`,
`HomePageProofs`, `AdminPageProofs`, `SavedSearchesProofs`, `ClientSessionProofs` and
`MailListingProofs` are the subject of section 6.

Definitions whose names are an action's with a suffix (`JoinQueueFront`,
`MainStopSilent`, ...) and whose comment begins with "Mutant" are an action as a
plausible mistake would have it. No specification uses them; each shows that a
property notices the mistake.

### Code that is not wired at this commit

The repository is in the middle of a rewrite, and some handlers are not
reachable as the client needs them. No middleware attaches a user to a
page request, so every page, `/theme`, `/servicesettings` and `/version` answer
400; `POST /login` on the API is a TODO; no token passes `JWTService.Parse`; the
service URL lacks `/api`; and the ORM's list always ends in an error. The modules
take the code as it is and name the switch where a caller is missing:
`UserAttached` (ClientSession: TRUE gives pages a user, which lets the rest of the
visit happen) and `ReturnsItems` (MailListing: TRUE returns what was fetched).
`HomePage` and `AdminPage` model the client against handlers that answer as they
are written or fail, which covers the answers of this commit.

## 4. The runs

| run | instance | checks | shows |
|---|---|---|---|
| `polite` | 2 connections, 1 worker, 2 lines, polite clients | `TypeOK`, `ExclusiveWorkers`, `OwnConnection`, `RoomToSend`, `NoCloseInService`, `EventuallyClosed`, `WorkersReturn` | the worker is shared in time and never in use twice; no session reads from, says goodbye to or closes another's connection, or waits for room in a channel of its own; each is closed in the end and none while in service |
| `crowded` | 3 connections, 2 workers, silent clients | `ImplementsAllocation` | pool, workers and rejoin refine `WorkerAllocation`, fairness included |
| `shutdown` | 1 connection, any client, stopped at any moment | `Handshake`, `StopReachesSessions` | the goroutines of a session stay in step; every session ends, but for those in DATA or blocked on themselves |
| `mails` | 2 sessions, 2 mails, queue of 1, storage, `Listen` and `Accept` may fail, one `Shutdown` | `TypeOK`, `MailsAreOwn`, `InOnePlace`, `StopIsNoFailure`, `FailureEndsAll`, `StartReturns`, `DeliversUnlessStopped`, `ImplementsSafeDelivery` | every acknowledged mail is in one place with its own envelope, and is delivered unless the stop came first; the stop is not taken for a failure, and a failure ends receivers and service |
| `homepage` | 2 texts, 2 ranges, 1 field, 2 mails, 2 pages, requests may fail | `TypeOK`, `OverlayAgrees`, `ListAgrees`, `BlockedWhileBusy`, `DetailsAgree`, `RefreshRepeats`, `ImplementsView`, `PageComesBack`, `OverlayGoes` | what is drawn belongs to the question asked; Refresh repeats the last one; the page comes back |
| `savedsearches` | 2 tabs, 4 saves | `StoredInOrder`, `PickGivesChosen` | tabs do not spoil the order; a pick goes wrong only after a deletion elsewhere |
| `admin` | 2 requests, 2 prunes, 2 mails on 2 days, 2 themes, late templates, failures, restarts | `NoOrphans`, `OthersKept`, `PageComesBack` | no attachment without its mail, no mail taken that was not asked for; the page comes back |
| `visits` | 2 tokens, 3 calls, reloads and restarts at any time | `VisitEnds` | the last visit does not stay undecided |
| `segments` | messages of 4 bytes, 3 pieces, reads of 4 bytes | `TakenAsSent`, `SentIsTaken` | every cut of what waiting clients send is understood |
| `mailpages` | 5 mails, pages of 3 | `PagesFitRecords` | the page count fits the records, whatever changes between the reads |
| `sharedworker` | 2 connections, 1 worker, clients that vanish or send an unknown command | `OwnConnection`, violated | see below |
| `acceptstops` | 1 session, 1 mail, `Accept` may fail, one `Close` | `NeverPanics`, violated | see below |

The type invariants of `Reader`, `SavedSearches`, `AdminPage`, `ClientSession` and
`MailListing` are theorems (section 6); their cfgs leave them out, and adding
`TypeOK` to one checks it.

Bounds, and why they are enough.

- *Sessions.* Two connections and one worker are the least for which a worker is
  handed on while goroutines of its first session are alive; three connections
  and two workers add the order of the queue and two sessions at once. `MaxLines` =
  2 lines per client (1 or 0 where a run needs no more): DATA and its body, or two
  failures in a row, or a command and a hang-up. A session keeps no count of its
  commands but in `workerErrorChannel`, whose capacity is the code's 2
  (`LocalCap`).
- *Channels.* `CloseCap` is 1 (5 in the code) and `MailCap` 1 (1000), so that they
  are full in instances this small. A larger capacity only lets a send happen
  earlier, and the proofs hold for every capacity.
- *Mails.* Two sessions, so that two mails can meet in the queue of one; two mails
  in a behaviour are the least with one before and one after a stop, and two in
  one session. One sender and one recipient are enough to tell an envelope that was
  reset from one that was not; other numbers, and clients out of order, are left
  to the theorems.
- *Home page.* Two values of what a question is made of tell an old question from
  a new one; `MaxInFlight` = 2 lets two requests be on their way if the page lets
  them (the invariant says it does not).
- *Admin page.* Two prunes at once and two handlers on the Save button; days on
  the cutoff and after it; a mail that is there at the start and one that comes at any
  moment, with either day.
- *Tabs.* One tab deletes while another has a picker or a manage page open;
  four searches fill two rows of the manage page.
- *Visits.* Three calls: one of the page that is open and two of pages left.
- *Segments.* Four bytes hold the terminator's dot and breaks inside a message;
  reads shorter and longer than the terminator.
- *Pages.* Five mails make a full page and a part of one; `MaxPage` 3 asks past
  them.

The runs that switch deadlock checking off have states in which the system rightly
stops: clients have sent their lines and sessions have ended, the service is
stopped or has panicked, a page has been left, a bound is used up.

### What the code does not keep

Where the source says one thing and does another, the model follows what it
does. Each of these was met while modelling; `sharedworker` and `acceptstops` are
kept as runs that TLC must find violated, and the others show in the model as
described.

SMTP sessions:

- **A worker processes a single connection** (`worker.go:21`). After a read error
  or an unknown command the `break` leaves only the select (`worker.go:129-136`) and
  the command goroutine stays in its loop, while the main loop says goodbye, queues
  the connection for closing and gives the worker back. The goroutine then sets the
  deadline on, and reads from, the connection of the client the worker serves next:
  run `sharedworker` ends with it about to read there. What it reports after that
  makes the first session's main loop say goodbye to, and queue, that client's
  connection as well. `Polite` excludes both from `polite`.
- **Idle connections are closed** (`connection.go:21`). With two errors queued in
  `workerErrorChannel` (capacity 2), an executor that fails makes the main loop
  send to its own full channel (`worker.go:194`) and wait for ever.
  `RoomToSend` and `EventuallyClosed` fail with `"unknown"` and `"bad"` in
  `CommandLines`; `StopReachesSessions` excepts it.
- **Work finally closes the connection** (`worker.go:89`). On a stop the manager
  returns with connections in its queue (`connection.go:66-67`). `EventuallyClosed`
  fails with `CanStop`.
- **The manager cleans connections** (`connection.go:20`). No entry leaves the map,
  so an address is refused for good once it was used (`connection.go:120-122`).
  Shows with two connections of one address in `RemoteAddr`.
- **ReadDataBlock reads until the terminator** (`reader.go:64`). On a stopped
  server `Read` returns nothing and no error (`reader.go:37-38`), and the loop
  never ends. `StopReachesSessions` excepts sessions in DATA.
- The same comment: it reads until a terminator is *somewhere* in what was read
  (`reader.go:77`) and cuts three bytes off the end (85), so that a command sent
  behind a message, without waiting, becomes part of it. `TakenAsSent` fails with
  `Waits` FALSE.

A mail's way:

- **Close ends without an error** (`app/service_test.go:47`). After an accept error
  the accept loop closes `chClose` itself (`listener.go:172-175`), and a later
  `Shutdown` or `Close` closes it again (99-111) and panics: run `acceptstops`. An
  error between a stop's first two statements does the same. `NeverPanics` also
  fails with two closers, which close the service's own channel twice
  (`service.go:157-167`), and with `EarlyClose`.
- **Receivers get the mails of the channel** (`listener.go:79-80`). They return when
  `chClose` is closed (155-158), with mails still in the channel whose clients were
  told 250. `DeliversUnlessStopped` excepts stops for this.
- **Receive writes a mail to the storage** (`app/receiver.go:33`). DATA needs no MAIL:
  it answers 250 (`datacommand.go:122`), and `Validate` then refuses the mail
  (`model/MailItem.go:95-102`); the error is only logged. In the model with
  `Orderly` FALSE such mails end in `failed` even if the database works.

Persistence and API:

- **DeleteMailsAfterDate deletes all mails after a date** (`orm.go:182`). Its statements
  delete those *up to* it (`helpers.go:58`, `69`), which is what the page promises:
  `Selected` in `AdminServer`.
- **MailSearch filters a collection** (`MailSearch.go:8`). `addQuery` throws the
  conditions away (`helpers.go:153`): `Selected` in `MailListing` is every mail.
- **GetMailCollection starts at an offset** (`orm.go:158`). `Paginate` takes a page
  number (`orm.go:163`): the second page skips 49 pages of 50. `RowsBefore`.
- **GetMailCollection returns mails** (`handlers/getmail.go:42`). The ORM ends every
  read with the error "unimplemented" (`orm.go:174`): `ReturnsItems` FALSE.
- **One answer** (`handlers/deletemail_test.go:78`). Without authentication `JWTAuth`
  runs the handler and goes on to check the token (`jwt.go:27-29`): two answers in
  one response. In `ApiAccess` such a call ends with the answer
  `<<"value", "refused">>`, which the browser reports as an error.
- **The signed token is compared with the parsed one** (`JWTService.go:158`). It is
  compared with the still encrypted one (160), and no token is accepted: `Parses`
  in `ApiAccess` is never true.
- **PageLogin renders the login page** (`handlers/pages.go:97`). It asks for a template
  of another name (117) than the one registered (`ui/TemplateRenderer.go:62`): the
  page is blank, `place = "blank"` in `ClientSession`.
- **View mails at your leisure** (`README.md:6`). `PageIndex` needs a user in its
  context (`pages.go:22-27`), which the router never sets (`router.go:99-125`):
  `UserAttached` FALSE answers 400.

Browser:

- **viewMailDetails renders the details** (`HomeController.js:480-481`, 496). The handler
  of its failure names no parameter and reads `err` (491-492): it throws, there is no
  message, the page stays blocked. `DetailsLost`, excepted in `PageComesBack`.
- **No mail items match your search** (`mailList.hbs:91`). A search from the dialog
  keeps the old page number (`HomeController.js:395-407`), which may lie behind the last
  page of what matches: `ExecuteSearch` keeps `page`.
- **Here you can delete any searches** (`manageSavedSearches.hbs`). The button's index is
  the row's (`{{@../index}}`), used as the search's
  (`ManageSavedSearchesController.js:34-36`): the third search's button deletes the
  second. `DeleteSavedSearch` does the same; that the search pressed is the one
  that goes would be false for all but the first, and nothing weaker is claimed.
- **There is no saved search by that ID** (`SettingsService.js:36`). The condition before
  it joins its halves with *and* (35) and never holds.
- **Click the Remove button** (`adminPrune.hbs`). The requests do not wait for the
  templates (`AdminController.js:180-219`): if the second template is late, drawing
  throws before the handler is attached (`CountComes`): the button is there, or
  nothing is, and only loading the page again helps.
- **storeSettings stores and updates the theme** (`SettingsService.js:142-144`). Local
  storage is written first (148) and not taken back when the server refuses.
- **getServiceURL returns a URL** (`SettingsService.js:67`). On a first visit it is called
  before `app.js` has the settings and throws (101): `script = "threw"`; a reload
  works.
- A user can press a dialog's button while the dialog still opens or closes, or
  press Enter once on a focused one, which presses it twice; `ListAgrees`,
  `BlockedWhileBusy`, `DetailsAgree` and `ImplementsView` fail with `Impatient`
  TRUE in `HomePage`. The service answers a missing login with "Unauthorized", while
  `AuthService.js:68-74` waits for "Forbidden"; `Failures` has both kinds.

## 5. Fairness

Go schedules every goroutine that can run and its timers fire; a goroutine that
waits on a channel is served once its counterpart arrives. A browser runs its
timers, and a server that got a request answers it or fails. No more is assumed,
and nothing of clients and users: they may fall silent at any point. Nobody is
obliged to stop a service, and an open socket need not fail.

- `SmtpServer`: weak fairness for each goroutine (command goroutine and main loop
  of every session, manager, accept loop, receiver), for the read deadline of every
  connection, and for the rest of a shutdown that has begun.
- `MailPipeline`: for the start of the listener, for the accept loop where it has
  something to do by itself (`AcceptMust`), for a stop that has begun, for each
  session's hand-over, for the receiver goroutine, and for storing.
- `HomePage`: for the load of the templates, the answers, the fade timers and the
  animations of the dialog.
- `AdminPage`: for the server's work on every request, for every answer's arrival,
  for the fade timer and for each template.
- `ClientSession`: for the settings and for every call. `VisitEnds` is promised to
  users who stop loading the page anew; that is a premise of the property.
- `Reader`: for reading.

`EventuallyClosed` and `WorkersReturn` make an exception for `crashed`, and
`StartReturns` and `FailureEndsAll` for `panicked`: a program that has ended keeps no promises.

## 6. Proofs

All theorems hold for every value of the constants that the named ASSUMEs allow;
TLC evaluates those in the runs. A theorem about a part of the instances says so
in its ASSUME.

| theorem | says |
|---|---|
| `TypeCorrect`, `HandshakeHolds` (`SmtpServerProofs`) | `TypeOK` and `Handshake`, any clients, with or without shutdown |
| `WorkersAreExclusive`, `ConnectionsAreOwn` | polite clients: `ExclusiveWorkers`, `OwnConnection` |
| `SendersFindRoom`, `WorkersAreKept` | polite clients: `RoomToSend`, and every worker is in the pool or has a session |
| `NothingClosedInService` | polite clients, no shutdown: `NoCloseInService` |
| `ServiceAllocates` | polite clients, no shutdown: every step is one of `WorkerAllocation` or none |
| `PipelineTypeCorrect` (`MailPipelineProofs`) | `TypeOK`, with any faults |
| `MailsStayTheirOwn`, `MailsInOnePlace` | orderly clients: `MailsAreOwn`, `InOnePlace`, whatever stops or fails |
| `PipelineDelivers` | orderly clients: `ImplementsSafeDelivery`, the refinement of `MailDelivery` |
| `StopsAreNoFailures` | any stops once there is a listener, any accept errors: `StopIsNoFailure` |
| `ReaderTypeCorrect` (`ReaderProofs`) | `TypeOK`, any client and any size of the buffer |
| `WaitingIsUnderstood` | waiting clients: `TakenAsSent` |
| `HomeTypeCorrect`, `HomeOverlayAgrees`, `RefreshAsksAgain` (`HomePageProofs`) | any user: `TypeOK`, `OverlayAgrees`, `RefreshRepeats` |
| `ListsAgree`, `BusyIsBlocked`, `DetailsAreMarked` | users who wait: `ListAgrees`, `BlockedWhileBusy`, `DetailsAgree` |
| `HomePageIsView` | users who wait: every step is one of `RemoteView` or none (`View!SafeSpec`) |
| `AdminTypeCorrect`, `AdminOverlayAgrees` (`AdminPageProofs`) | `TypeOK`, `OverlayAgrees`: any users, failures, restarts |
| `AttachmentsHaveMails`, `PrunesKeepOthers` | `NoOrphans`, `OthersKept`: any number of prunes, arrivals, restarts |
| `SearchesTypeCorrect`, `SearchesStayInOrder` (`SavedSearchesProofs`) | `TypeOK`, `StoredInOrder`, any number of tabs |
| `PickersGetTheirChoice` | `PickGivesChosen`, any number of tabs |
| `VisitTypeCorrect` (`ClientSessionProofs`) | `TypeOK`, any scheme and restarts: a call is answered twice at most |
| `ListingTypeCorrect`, `PagesFit` (`MailListingProofs`) | `TypeOK`, `PagesFitRecords`, every page length and mailbox |

**Types and handshake.** `TypeOK` is not inductive by itself: `MainHangUp` stores
`workerConn[sessionWorker[c]]`, which is a connection only because a session that
has started has a worker and that worker has been prepared. `Wired`
(`SessionInvariant`) says what each program counter needs to be there, and `TypeOK
/\ Wired /\ Handshake` is inductive. One lemma per actor has one case per action.

**Exclusive workers.** Why may a session's worker go back to the pool although
its goroutines go on? Because by then the command goroutine will read no more
(`CommandsEnded`) and no report is left for the main loop (`Over`). That is an
invariant only together with:

- `OneReport`: a session reports its end once. This needs to know that a command
  goroutine never meets a read error, and so
- `OrderlyClient`: where a client is in its dialogue against where the server is
  (a message body is on its way only while the main loop is in the data phase; a
  client that has hung up did so inside a message or after the session ended);
- `OrderlyClose`: a connection on its way to the manager, or closed, belongs to a
  session that has hung up, and is tracked under its own address. Without it the
  manager might close the connection of a session that is being served, which
  that session would take for an error;
- `PreparedForOwn`: the worker of a session that is not over is prepared for it,
  so that `CurrentConn(c) = c` whenever the session uses it.

Together with `ExclusiveWorkers` and `OwnUntilGoodbye` these make `PoliteInv`; the
latter says that what a session's goroutines hold is its own connection, and that a
session that has said goodbye has ended its commands. `OwnConnection` follows with
`PreparedForOwn`. A step
of session *c* is summarised by `Progress(c)`; `CommandProgress` and `MainProgress`
show that every step of its two goroutines is one, `ProgressPreserves` that
`PoliteInv` survives it. `NoCloseInService` follows from `OrderlyClose` at the three
places that close a connection. Without `Polite` the theorems are false
(`sharedworker`), and once the stop channel is closed they say nothing, since a
session hangs up then without its command goroutine having ended.

**Room, and no worker lost.** `OneReport` also bounds what is in a session's channels
when one of its goroutines is about to send: `SendersFindRoom` reads it off
`PoliteInv`, but for the pool. There the number of places is the number of workers,
and the worker that comes back is not in it (`ExclusiveWorkers`), so the pool, a
sequence without repetitions, is shorter than its capacity (`PlaceLeft`).
`WorkersAreKept` is the other direction: `NoWorkerLost` says that a worker is in the
pool or is that of a session that is not over. It is inductive with
`PoliteInv`; a worker leaves the pool only with the connection it is prepared
for, and a session gets over only in the step that gives its worker back.

**Lending.** `ServiceAllocates` maps the sessions that are not over to the lenders of
`WorkerAllocation`. `PoliteInv` gives what its guards ask for: who gives a worker back
has it, and has it alone. The step in which a session gets over is `GiveBack`, the
`NextWorker` of the accept loop is `Lend`, all others stutter.

**Reader.** The piece under way is in three places, cut into whatever reads come:
`dataBuffer`, the bytes `raw` that a read has taken, and `arrived`. `Underway` says that
the three, joined, are what the client sent last, for a client that waits; so a
reader that finds the end of a piece finds it at the end of all that there is. That
the end is not found earlier is the argument's core: a line has its break only as its
last byte, and a message the terminator only in its last places, so that a part of
it that holds the terminator is the whole (the lemmas about where a sequence ends
in another). Cutting three bytes off is then cutting the client's three.
`TakenInOrder` and `Answered` count what is taken against what was sent.

**Mails.** `MailsAreOwn` says where the acknowledged mails are, and needs
`InOnePlace` for the step that takes a mail out of the queue. `OwnInv` adds why
what is acknowledged is what was asked: between messages `mailItem` *is* `asked`
(`AskedIsKept`, which needs orderly clients), an identifier stands for one mail
(`IdsUnique`), and no two sessions hand over the same (`HandedApart`). The lemmas
before it are about the queue: what appending and taking the head do to the set
of its elements. The refinement follows step by step: a 250 acknowledges, storing
stores or drops, everything else stutters. For `StopsAreNoFailures`, `StopInv` places
the stops against the accept loop: the loop sees an error on a closed socket only
after some closer has cleared `running`, which nobody sets again.

**Home page.** `ListAgrees` holds because nothing changes the controller's variables
while a request is on its way (`RequestsCurrent`), which holds because the page is
then blocked and no dialog works (`BlockedWhileBusy`, `DialogFree`); `Quiet` is the
time before the first request, `DetailsPlaced` keeps the details of another mail
than the marked one under a block that no search lifts. Their conjunction
`PatientInv` is inductive if users wait for dialogs. `HomePageIsView` uses it to
show that a question is only asked when none is pending. `HomeOverlayAgrees` needs no
such user: it goes over the four things a step may do to the block, and finds the
flag and the shown layer changed together in each. Nor does `RefreshAsksAgain`:
only `SearchFromList` and `ExecuteSearch` change page, text or order, and each sends
in the same step a request that carries them (`SearchIsAsked`).

**Admin page.** A mail may come between the two statements of a prune, with any date
in its header and with attachments, and the second statement then takes it although the
first has not seen its attachments. No attachment is left over because the
database deletes those of a mail with the mail (`on_delete` in the migration): the
second statement does the first one's work again. With `MailsDistinct` (an
identifier stands for one mail, and for one that has been stored) `NoOrphans` is
inductive: `StoreInv`. `PrunesKeepOthers` is read off the two statements with it.
For
`AdminTypeCorrect` the handlers are counted: each prune that has not been drawn anew
will add one, so their number and that of the handlers are bounded together
(`Counted`); the first drawing sets the number to one, whatever it was, and is
reached only from a page that asks for nothing else and has no handlers
(`LoadsAlone`).

**The small ones.** `VisitTypeCorrect`: how far a call is tells how often its handler ran
and what it has been answered (`Placed`), with any scheme. `SearchesStayInOrder`:
stored numbers increase and are at most the number saved so far; removing one keeps
that. `PickersGetTheirChoice` follows from what a tab was offered and where its
choice points. `PagesFit`: the quotient and its correction, from the bounds of
integer division.

**Only model-checked.** All liveness, which these provers do not reach: `EventuallyClosed`,
`WorkersReturn`, `StopReachesSessions`, `StartReturns`, `DeliversUnlessStopped`,
`FailureEndsAll`, `SentIsTaken`, `PageComesBack`, `OverlayGoes`, `VisitEnds`, and the
liveness halves of `ImplementsAllocation` and `ImplementsView`. Every safety property
that a run finds to hold is a theorem.

## 7. Not modelled, and why

- **The MIME walk** (`SMTPMessagePart`, `HeaderServices`, `recordMessagePart`): a
  recursive parse of one string, without shared state. Planned as `MessageParts`.
- **The empty message**, a terminator straight after DATA: `ReadDataBlock` looks for
  a line break before the dot, so it waits; `Reader`'s messages end in the
  terminator with its line break.
- **`Listener.Start` and `Dispatch`**, deprecated and called by nobody;
  `setupAutoRefresh`, never called.
- **Attachments, the logging in and out of `LoginController.js`**, and handlers that
  are one read each (`GetMail`, version, attachments); the number of mails shown
  after a prune, and the version banner.
- **Local storage** within one function is one step (see `SavedSearches`); what a list
  request is answered with is drawn from one state of the mailbox in `HomePage`,
  and from two in `MailListing`.
- **Data races inside the process** on the map of templates and on the configuration
  while a theme is applied: the outcomes are Go's, and the repository says nothing
  of what requests in between may see. The race on the map of connections is
  modelled (`Crash`).
- **Errors of `SetReadDeadline`** on an open connection and of `Close`, which the
  operating system does not give for a valid descriptor.
- **Configuration, logging, command line, header and set helpers**: no state worth a
  model; the restart of failed services, the database and JWT signing are
  third-party code.
- **The vendored JavaScript** (jQuery, Handlebars, Moment, Bootstrap, Lightbox and so
  on): about 38,000 of the 39,600 lines of JavaScript in the tree are libraries, some
  1,650 lines are the program's own. Of the libraries only what decides when a
  page takes clicks is modelled. The share of all JavaScript that the modules
  translate is therefore small, whatever they cover of the program.
