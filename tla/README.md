# Hope Desk in TLA+

A verification project for Hope Desk, a help desk with a NestJS/Prisma/PostgreSQL
back end (`src/backend`) and a React client for browsers and phones
(`src/frontend`). The TLA+ modules model the parts of it that keep state across
requests, the screens that keep state across answers, and the computations the
company charges by; TLC checks them on small instances, TLAPS proves the main
theorems for all of them. `PROJECT.json` lists runs, mutants, hazards and the lines each
definition stands for.

To repeat a run: `tlc -config MCSessions_safety.cfg MCSessions`; to check
proofs: `tlapm SessionsProofs.tla`.

## 1. Inventory

The back end is one Node process. A handler runs without interruption between
two `await`s, and nearly every handler is a sequence of *separate* SQL
statements with no transaction around them; other requests run between any two.
The client keeps its session in storage shared by all tabs, and one
JavaScript context per tab. Crashes lose what is in memory, never a statement
the database has executed.

| Component | State | Operations | What is hard | What makes it correct |
|---|---|---|---|---|
| Sessions and credentials (`auth/`) | `refresh_token` rows with their successor, password hash, recovery key | login, refresh, logout, logout-all, change / recover / replace a password, purge | reads and writes in separate statements; rotation in three statements; reuse detection; a crash between password and revocation | successors well formed; new password or rights end the sessions; one usable token per login; a recovery key dies with its use |
| HTTP client and session (`api/client.ts`, `AuthProvider.tsx`) | stored pair, `refreshInFlight`, `hasSession` | request, retry, refresh, sign in, sign out, expiry notice | many calls sharing one refresh; several tabs; lost answers; sign-out during a refresh | no rotated token presented; session not lost; every call ends |
| Users (`users/`) | user rows | create, update, remove | last-superuser count before the write; tokens that carry past privileges; keys to tickets and activities | a superuser remains; nobody changes their own role |
| Audit trail (`audit/`) | append-only entries | record (failures swallowed) | entry written after the write it is about | what is told has happened; no privilege change is silent |
| Activities (`activities/`) | activity rows | create, update, remove | conflict search and write are two statements; cascade from tickets | a technician's activities do not overlap |
| Tickets (`tickets/`) | ticket rows | create, edit, change status, remove | checks of module, technician and client before INSERT/UPDATE; notice decided on an old read; a crash between a status and its notice | references exist; the client knows the status |
| System modules (`modules/`) | `isActive`, name | create, update, toggle, remove | toggle is read then write; count before DELETE | no ticket born in an inactive module or left without its own |
| Notifications (`notifications/`) | none | e-mail on domain events | order of notices | the last notice tells the status |
| Domain event bus (`common/events/`) | one handler array per event | subscribe, cancel, publish, remove all | subscriptions change while `publish` awaits a handler | a publication reaches every handler it owed |
| Hours bank (`hours-bank/`, `common/time/`) | closing day, allowance | balance of a cycle, monthly summary | months shorter than the closing day; activities across months; two queries without a snapshot | every slot counted once; cycles tile the calendar; a summary adds up |
| Parameters and logo (`parameters/`) | rows, files | read with defaults, update, upload / remove / serve a logo | file and row in separate steps; rows created by readers | choices stand; the logo served is the one uploaded last |
| Payments (`payments/`) | payment rows | create, remove, list by page | three statements of one listing; amounts as text | pages and totals are of the same payments; an amount is read as meant |
| Analytics (`analytics/`) | none | figures of a period | nine queries; UTC columns against wall-clock periods; clipping | every chart adds up to the figures |
| Reports and PDF (`reports/`) | none | two reports, on paper | rounding; periods; boxes of any height | reports charge what the dashboard shows; no box cut or covered |
| Legacy data migration (`scripts/migration`) | two databases, sequences | copy, simulate, validate, create a superuser | orphans; a transaction that sequences do not obey | all or nothing; the next INSERT finds a free id |
| Ticket screens (`app/tickets/[id]`) | query cache, calls under way, dialogs, forms | read, optimistic status, edit, delete, activities | answers in any order; a screen left before its answer; others writing | a screen at rest shows what the server has |
| List of tickets (`app/index.tsx`) | filters on the device, page, search | choose, type, turn, open again | filters read late, search debounced | a page that exists under the filters chosen last |
| Lists of the administration (`app/admin/`) | cache, form, dialog, calls | create, delete, toggle, filter, page | the same; three screens that differ in small things | the rows are those of the page asked for; what is sent is what was typed |
| Parameters screen (`app/admin/parameters.tsx`) | form, preview, two queries | save, upload, remove | form filled once; the title read by another query | preview and title settle |
| Reports screen (`app/reports.tsx`) | dates, texts of the fields, answer, file | type, shortcut, download | text beside value; midnight | the report and the file are of the days in the fields |
| Dashboard (`app/analytics.tsx`) | period, cross filters, rows kept while the next are awaited | choose, click a bar | clicks on rows of the previous period | charts meet the figures; a filter is of its period |
| Entrance (`_layout.tsx`, `AuthProvider.tsx`, four screens) | flag, profile, route, calls | sign in and out, recover, change, redirect | three copies of who is signed in | signed out stays out; the gate settles |
| Configuration, health, theme, Flask original | – | – | – | not modelled: start-up, rendering, or replaced code |

Interactions: the client presents tokens to the session handlers; guards admit
requests from what an access token carries; users are the owners of sessions
and the clients, technicians and authors that tickets and activities refer to;
removing a ticket cascades to its activities; deleting users and modules is
restricted by the keys of tickets; ticket operations publish events that become
notices over the event bus; users, modules and activities write to the audit
trail. Analytics, reports and the hours bank read tickets, activities and
payments; the hours bank reads two of the parameters and reports the company's.
Each screen reads the API through the query cache and writes
through mutations that refresh it.

## 2. Modules

| Module | Models | Composes |
|---|---|---|
| `Sessions` | `token.service.ts`, `auth.service.ts`, the part of `users.service.ts` that ends sessions (password, rights) | – |
| `ApiClient` | `api/client.ts`, `AuthProvider.tsx`, storage, and the refresh and logout endpoints handled whole | the server side is `Sessions` with one statement per handler, restated in five short actions |
| `Agenda` | `activities.service.ts`, `activity-period.ts`, `activity.policy.ts`, `deletion-window.ts` | refines `Calendar` |
| `Calendar` | abstract: booking, moving and cancelling are atomic | – |
| `Accounts` | privileges in `users.service.ts`, `roles.guard.ts`, `audit.service.ts` | – |
| `Tickets` | `tickets.service.ts`, `ticket.policy.ts`, `system-modules.service.ts` | users enter through their role and removal |
| `EventBus` | `domain-events.service.ts`, the notice of a new ticket with the mailer | – |
| `WallClock` | `legacy-clock.ts`, `deletion-window.ts`: naive timestamps, months, clipping | – |
| `HoursBank` | `hours-bank.calculator.ts`, `hours-bank.service.ts` | extends `WallClock` |
| `Parameters` | `parameters.service.ts` with its DTO | – |
| `ModuleNames` | names in `system-modules.service.ts` and the index on `lower(name)` | – |
| `Decimals` | `decimal.util.ts`, the normalizers of parameters, `decimal-input.ts` | – |
| `Payments` | `payments.service.ts` and a reader turning pages | extends `Decimals` |
| `Migration` | `migrate.ts`, `validate.ts`, `disposable-database.ts`, `create-superuser.ts` | – |
| `Analytics` | `analytics.service.ts` over tickets and activities that change | extends `WallClock` |
| `Reports` | `reports.service.ts` | extends `Analytics` |
| `ReportPdf` | page breaking in `report-pdf.service.ts` | – |
| `QueryCache` | the query library as the hooks use it (external) | – |
| `TicketScreen`, `ActivityPanel` | `app/tickets/[id]` with `useTickets.ts`, `useActivities.ts` | extend `QueryCache` |
| `TicketList` | `app/index.tsx`, `preferences.ts`, `periods.ts`, `useDebouncedValue.ts` | – |
| `AdminList` | `app/admin/users.tsx`, `payments.tsx`, `modules.tsx`, `useAdmin.ts` | extends `QueryCache` |
| `ParametersScreen` | `app/admin/parameters.tsx`, `LogoField.tsx`, `useHeaderTitle.ts` | extends `QueryCache` |
| `ReportsScreen` | `app/reports.tsx`, `useReports.ts`, `DateField`, `format.ts` | – |
| `Charts` | `components/charts`, `BarList`: curves, axes, arcs, rankings | – |
| `Dashboard` | `app/analytics.tsx`, `analytics-filters.ts`, `analytics-insights.ts` | extends `Charts` |
| `Entrance` | `AuthProvider.tsx`, `_layout.tsx`, `route-gate.ts` and the screens of sign-in and passwords | extends `QueryCache`; the server is `Sessions`, the refresh is `ApiClient`'s, each in a few actions |
| `Lent` | fourteen variables, lent to one part or another | – |
| `Services` | the constants of the services behind the screens | extends `Lent`, instantiates `EventBus`, `HoursBank`, `Decimals`, `Payments`, `Reports`, `ReportPdf` |
| `Screens` | the constants of the screens, and of the parameters, names of modules and migration | extends `Lent`, instantiates `Parameters`, `ModuleNames`, `Migration`, `TicketList` and the six screens |
| `MCDesk` | all of these side by side, with the charts and the board that draws them | extends `Services` and `Screens`, instantiates `Charts`, `Dashboard` |
| `*Proofs` | theorems about the module they extend | |
| `MC*` | values and symmetry for TLC | |

### How state and actions correspond to the code

* A variable is a table or a column (`rows`, `revoked`, `succ`, `resetOf`), a
  module variable of the client (`flight` is `refreshInFlight`), or a place in
  the code: `pc[r]` names the next statement of request `r`, `arg[r]` what it
  read and carries in local variables.
* An action is the code between two `await`s on a statement: all that precedes the
  statement (guards, early returns), the statement, and the branch after it. So
  `RotateRead`, `RotateOwner`, `RotateIssue`, `RotateMark` are the refresh.
  `Crash` loses every request under way.
* A definition's source lines are in the map of `PROJECT.json`.

Abstractions, each of which keeps the control flow:

* Passwords, keys, tokens, names and texts are members of small sets; a hash is
  the password it verifies and whether its format is the legacy one. Tokens and
  keys are numbered in the order they are generated; as each kind has one fixed
  lifetime, the expired ones are a prefix (`horizon`, `lapsed`).
* `mustChangePassword` rides along with the password and decides nothing in the
  handlers modelled, so it is not a variable.
* A statement is atomic. `updateMany` with a condition is one statement; reading
  and then updating by id is two.
* Rows that were removed keep `owner` and `fam` as history: a client may still
  present such a token.
* In `Accounts` an access token may carry any privileges its author ever had
  (`stale`) and such a token never lapses: more behaviours than the code has.
* `trail` in `Accounts` is what a reader of the audit trail believes of a user:
  the fold of the entries about them. `told` in `Tickets` is the last notice
  about a ticket, or `None` when the process stopped between the last change of its status and
  that notice. Mail that is lost or delayed after it was handed to the mailer
  is not modelled.
* In `ApiClient` storage answers in the order it is asked, so an access is
  atomic with the code that follows it.
* Months are three in `Tickets` (`ahead`, `current`, `past`): creation times are
  UTC and the current month is taken on the wall clock. `WallClock` has the
  calendar itself: a timestamp is a number of slots since the first of January of
  `FirstYear`, whichever clock its column means.
* Hours are slots in `HoursBank`, hundredths where `Analytics` and `Reports`
  round; an amount in `Decimals` is how many digits stand before and after its
  mark. A logo file is absent, torn or an image of one extension.
* A screen is what it keeps: its query (data, error, a fetch under way),
  its forms and dialogs, and its calls. A call is sent, then done or
  refused by the server, its answer heard or lost, then handled; `mine`
  says that the screen that sent it is still there. Time does not pass in the
  cache: a screen that opens finds its data fresh or stale.
* Other people appear as one action that changes what the server has
  (`Another`, `Stranger`), bounded by `MaxOthers`, `MaxStrangers`.

## 3. What the checks show

The statements of a handler are not atomic, and several things the code (or its
documentation) promises hold only while certain requests do not overlap. Rather
than restrict the models, each keeps a *history variable* that records that the
overlap has happened, and the property is claimed until then. The models
contain all the races, and the condition names those the code is exposed to.
What a crash may do is not in these conditions but in the properties: a request
lost with the process is the one excuse of `RevocationInHand`, a notice lost
with it (`told` is `None`) that of `ClientKnowsStatus`.

| History | Records | Without it fails |
|---|---|---|
| `Sessions.raced`, `stray` | logins and refreshes between their read and their INSERT while the sessions of their user are revoked | a new password ends all sessions |
| `Sessions.doubled` | tokens presented while already being exchanged | one usable token per login (both exchanges succeed) |
| `Sessions.undone` | users whose hash a login rewrote although they were given a new password, or their sessions were ended, after its read | the stored password is the last one chosen |
| `ApiClient.mishaps` | lost answer, sign-out, sign-in, reload, revocation, two tabs refreshing at once, storage emptied under another tab | no rotated token presented; session kept; refused calls leave the screens |
| `Agenda.doubled` | technicians with two saves under way | activities do not overlap |
| `Accounts.late` | requests that started while another was under way | a superuser remains (demotions and removals); trail; own role |
| `Tickets.late` | requests that started while another about the same ticket or module was under way | status notices, module active at creation |
| `EventBus.shifted` | publications during which a handler was cancelled | every handler is served |
| `HoursBank.summary.disturbed`, `Analytics.answer.calm`, `Payments.reader.calm` | writes between the queries of one answer | the answer adds up |
| `Parameters.settled` | per logo, what the last change left that no other change crossed | the logo served is that one |
| `Migration.collided` | an INSERT that found its id taken | nothing: it never happens |
| `missed` (`TicketScreen`, `AdminList`), `behind` (`ActivityPanel`, `ParametersScreen`), `outdated`, `crossed` | what others wrote, lost answers, reads under way for a screen already left, two changes of a logo or of the session that met | a screen at rest shows what the server has |
| `TicketList.hurried`, `Dashboard.mixed` | a page turned, or a bar clicked, while the answer it belongs to was still to come | the page exists; a filter is of its period |

No action reads a history variable to decide anything.

### Runs

| Run | Instance | Properties |
|---|---|---|
| `sessions_safety` | 1 user, 2 passwords, 3 requests of all nine operations, 2 open sessions, 4 tokens, 1 recovery key, crashes, hash rewriting on; ~1.3M states | `TypeOK`, `SuccessionSound`, `OnlyRacedSessionsSurvive`, `OneUsableTokenPerLogin`, `PasswordIsLastChosen`, `SpentKeyIsDead`, `RevocationInHand` |
| `sessions_doc_promise` | violated: refresh read before, inserted after the revocation | `PromiseEndsAllSessions` |
| `sessions_doc_rehash` | violated: login rewrites a legacy hash over a new password | `RehashIsTransparent` |
| `client_tabs` | 2 tabs, 3 calls (two in one tab), 2 expiries, losses, sign-outs, reloads; ~1.7M states | `TypeOK`, `RotatedTokenNeverPresented`, `SessionNeverLost`, `RetryCarriesAnotherToken` |
| `client_calls` | 1 tab, 2 calls, 2 expiries, 1 later sign-in, all mishaps, `FairSpec` | `RefusedCallLeavesScreens`, `CallsEnd` |
| `agenda_saves` | 2 technicians (one superuser), 3 requests, 2 tickets, 2 activities, periods of up to 2 in four instants; ~230k states | `TypeOK`, `NoOverlapAlone`, `ErasureRecordedOnce`, `KeepsCalendar` |
| `agenda_doc_overlap` | violated: both searches precede both writes | `NoOverlap` |
| `accounts_admins` | 2 superusers and a free identifier, 2 requests, crashes, stale tokens; ~220k states | `TypeOK`, `DeletionsToldAreTrue`, `SuperuserRemainsAlone`, `TrailTellsPrivileges`, `OwnRoleUntouched` |
| `accounts_doc_last` | violated: two superusers demote each other | `SuperuserRemains` |
| `tickets_requests` | 2 users, 2 tickets, 1 module, 2 statuses, 3 requests, crashes; ~710k states | `TypeOK`, `ReferencesExist`, `ClientKnowsStatus`, `NoticeTellsChange`, `ActiveAtCreation` |
| `desk_work` | one instance of each of the other parts, see below; ~1.9M states | eleven, see below |
| `desk_doc_order` | violated: a filter changes the order of the bars | `BarsKeepOrder` |

`desk_work` runs eighteen parts that share no state, so a behaviour is a
behaviour of one of them (`part`), and the fourteen variables are lent to it.
Its properties conjoin, under one name each, what the modules say of one question:

| Property | Conjoins | Instance |
|---|---|---|
| `DeskTypesOK` | the types of all parts | all |
| `EveryHandlerServed` | `EventBus` | 2 handlers of which one is the mailer, 2 arrays, 1 publication, mail ready or not |
| `BankCountsEachSlot` | `BalanceCountsEachSlot`, `CyclesTile`, `SummaryAddsUp` of `HoursBank` | 3 activities over the ends of February, July and August and of tickets of other months, closing days 29 to 31, one that does not exist and none |
| `LogoAsUploaded` | `Parameters` | 2 requests, 2 logos, 2 extensions, crashes |
| `SettingsStand` | `ChoicesStand` of `Parameters`, `NamesStayDistinct` of `ModuleNames` | the same; 3 requests, 2 modules, 3 names of which two differ in case |
| `PaymentsRight` | `ReadAsMeant` of `Decimals`, `PagesAddUp` of `Payments` | every text of up to 8 digits, points and commas; 3 payments, pages of one |
| `AllOrNothing` | `Migration` | 48 legacy bases with orphans, names that differ in case and a parameter without a value, 3 targets, 3 pairs of hosts, every flag |
| `FiguresAddUp` | `FiguresAddUp` of `Analytics`, `ReportsAgree` of `Reports`, `BoxesWhole` of `ReportPdf` | 2 tickets, 3 activities across midnight and across the month, 4 queries, 2 viewers; on paper 2 tickets of up to 3 rows, 4 heights of which one only fits a page without the headings, names of 1 and 4 lines, 2 logos |
| `ChartsMeetFigures` | `DrawnWell` (curves, axes and rankings of `Charts`), `ChartsMeetTiles`, `InsightsMeetCharts` and `FiltersOfPeriod` of `Dashboard` | series of up to 5 values; 3 tickets, 3 activities, 2 versions of the data |
| `ScreensSettle` | `ScreenSettles`, `PanelSettles`, `ListSettles`, `SentAsTyped`, `DialogHolds`, `PreviewSettles`, `TitleSettles`, `SentAsShown`, `FieldsSayDates`, `ReportOfFields`, `ShortcutsSpan`, `FileAsAsked`, `GateSettles`, `SignedOutStaysOut`, `ScreensKnowSession`, `FormsComeBack` | 2 calls under way at once, 1 change by others; 2 users and one to create, pages of one; 2 changes of the parameters; 2 texts of a date, a shortcut, a midnight; 1 form under way, a refresh and a reload beside it |
| `ListKeepsPlace` | `PageExists`, `FiltersRemembered` of `TicketList` | 3 periods, 2 statuses, 2 searches, remembered filters of an older version |

Why these bounds are enough: what goes wrong on a screen needs two calls, or a
call and a read, whose answers cross, and at most one change by somebody else;
a third call repeats what the first two show. A page of one row makes the
last page disappear with one deletion. The constants of the hours bank are the
ends of months of 28 to 31 days, where months are stepped. The trees of the
parts are complete within the bounds: no state constraint cuts them.

Why the bounds of the other runs are enough for the races of interest: each race in this code
is between two requests, and three allow a third to change what the second has
read; requests are interchangeable (symmetry). Two sessions of one user give
one that presents and one that must survive or end; four tokens let each be
rotated once. Two expiries allow a call to be refused, renewed, and a later one
refused again. Two activities with four instants contain adjacent, nested,
equal and crossing periods. `Statuses` has two members where the enumeration has more:
only equality of statuses is looked at. Where the instances stop, the theorems
of section 4 go on.

Deadlock checking is off in every run: each model serves a bounded number of
requests, or calls of a screen, and then really stops.

Fairness: `client_calls` assumes that a `fetch` settles, with an answer
or an error, and that what awaits it then runs. Nobody is assumed to act, no
token to lapse and no loss to occur or to stop.

Every property of a passing run has a mutant, a definition named in
`PROJECT.json` that changes the model as a plausible bug would, under which TLC
finds that property violated.

### Disagreements with the documents

* A refresh or login already past its read inserts a session after the
  revocation that follows a new password (`auth.service.ts:226` and `:320`).
* A login that rewrites a legacy hash writes by id the password it has read; a
  change between the two statements is undone (`auth.service.ts:103`).
  `PASSWORD_REHASH_ENABLED` is on by default.
* Two saves of one technician pass the conflict search together
  (`LEGACY_CONTRACTS.md:524`).
* Two superusers may demote each other (`users.service.ts:153`).
* A filter of the dashboard reorders the bars: `BarList/index.tsx:59` sorts them by
  what the filter leaves, while `analytics-filters.ts:125` and `analytics.tsx:228`
  keep the categories in the order of all the rows so that it does not, and a test
  says so of the categories (`analytics-filters.test.ts:128`).

Seen while modelling, within what the code decides and no run claims otherwise:
removing one digit of a complete date empties the value of its field
(`DateField/index.tsx:34-43`; `format.ts:66-68` says that the text passes as it
came); a shortcut of the reports is computed at the press and drawn at the
render, so across midnight its chip is not the one drawn (`reports.tsx:106`,
`:116`); a cleared date silently means the server's default period; a network
failure of `auth/me` at the start shows the sign-in although a session is stored
(`AuthProvider.tsx:100`); a slow logout may end the session of the next sign-in
(`:85`); `invalidate` only marks a query that no screen shows (`useTickets.ts:56`);
the page is not taken back when the last row of the last page is deleted
(`admin/users.tsx:289`); an upload of a logo does not refresh the parameters in the cache
(`useAdmin.ts:144`); the view of the last days leaves out the payments of
today (`analytics.service.ts:541`); `allPeriods=false` in a query is read as true
(`analytics.dto.ts:39`).

## 4. What is proved

No theorem assumes anything but the named `ASSUME`s of the modules (types of
constants): they hold for any number of users, requests, tokens, tabs, calls,
activities, tickets, rows, texts and days.

* **`SessionsProofs`**: `TypeCorrect`, `Survival` (`OnlyRacedSessionsSurvive`)
  and `Succession`. The invariant `IInv` adds to the types what a request's
  local variables still mean at the statement it is about to execute: a request
  about to insert carries the generation of its user, unless it is in `raced`
  or the user is owed a revocation; a stored token's generation is that of its
  user, or the token is stray, revoked or its user is owed a revocation; a
  request about to mark has issued a token younger than the one it presented,
  of the same user and login.
  The properties alone are not inductive, because the rows a request
  has read may have been revoked, purged or cascaded away since.
  Beside it stand three more invariants: `KInv` for `KeySpentOnce` (a recovery
  key belongs to one user, and to nobody once the request let in with it has
  written), `PInv` for `LastChosenStored` (a login about to rewrite a hash
  writes the password its user chose last, unless it is in `undone`) and `RInv`
  for `OneTokenPerLogin` (outside the families of `doubled` one token is usable,
  one rotation is under way, and the usable token is the one being rotated).
  `RevocationsInHand` uses `IInv` for what the requests have read: only the request
  that makes a promise owes it, it reaches the revocation in its next statement
  or is lost, and no other step discharges it.
* **`ApiClientProofs`**: `NeverReused`, `NeverLost`. `CalmInv` says that until a
  mishap at most one tab is refreshing, and the one live token is in storage and
  (if sent) in that request, or in the answer about to be stored;
  calls hold issued pairs, and a call that waits has a refresh to wait for.
  `MishapsGrow` gives that a calm state comes from calm states only.
  `ClientTypes` holds at all times: what bounds the pairs the server issues is
  that only an access token that has lapsed is refused, so a pair is exchanged
  at most once per lapse (`Counted`). `ScreensLeft` needs that an empty storage
  means signed out in every tab (`EmptyMeansSignedOut`), `AnotherToken` that the
  pair in the answer to a refresh is nowhere else until it is stored
  (`AnswersFresh`); both hold through every mishap but the one they name.
* **`AgendaProofs`**: `TypeCorrect`, `NeverOverlaps`, `ErasureOnce`
  (`ErasureRecordedOnce`, for all interleavings: the request whose DELETE found
  the row is the only one that will record it), and `ImplementsCalendar`, the
  refinement of `Calendar`. The key conjunct is that the result of the conflict
  search still holds when the write comes: for a technician with one save under
  way, nobody else adds to or moves anything in their calendar (edits are by the owner).
* **`AccountsProofs`**: `TypeCorrect`, `DeletionsTold` (for all interleavings)
  and `LastSuperuser` (until requests overlap: the superuser counted is still
  there at the write, since only requests demote or remove). `TrailTells` and
  `OwnRoleKept`, until requests overlap: what a request has read of its target
  is what it changes (`ReadIsCurrent`), and of a user whose entries are being
  written the trail tells what was true before, then the role (`TrailFollows`).
* **`TicketsProofs`**: `TypeCorrect`, `ReferencesKept` (for all interleavings),
  `StatusKnown`, `NoticesTellChanges`, `CreatedInActive` (until
  requests about one ticket or module overlap: what each read is what is there,
  and the client was told of it, unless a crash kept the last notice).
* **`ServicesProofs`**, **`ScreensProofs`** and **`DeskProofs`**: what
  `desk_work` checks of every part but the charts and the board, as theorems of
  the desk `MCDesk` puts together. The inductive invariant of each part is `IInv`, at the
  end of its module; three lemmas say that it holds at first, that every step
  keeps it and what it means, of the variables `v1`, `v2`, ... of `Lent`
  (the comment above each section says which is which). `DeskProofs` puts them
  together, as a behaviour of the desk is one of a part: `HandlersServed`,
  `BankHolds`, `PaymentsHold`, `FiguresHold`, `LogosServed`, `SettingsHold`,
  `MigrationWhole`, `ListHolds`, `ScreensHold`. The constants of the desk are
  given in `MCDesk_work.cfg`, so that the theorems leave them open. What the
  invariants say:
  - while a publication walks an array that lost no handler, both what it owes
    and what it has called is what that array begins with, and its position is
    the number it has called (`InOrder`): a handler added meanwhile comes after
    all that are owed (`EventBus`);
  - while nobody writes, the hours of the period in a summary are still those of
    the activities stored (`HoursBank`);
  - a reader nobody has disturbed has seen the head of the period, cut where the
    pages end, each payment at its rank in the listing (`Payments`);
  - until somebody writes, what an answer has read is what its query would find
    now, and a report has the activities of its window (`AnswerCurrent`,
    `ReportCurrent`). So both count the same rows, and the rest is arithmetic:
    a row is in one class of each chart, a slot in one month of the trend, and
    what is rounded once by the one and row by row by the other differs by half
    a hundredth for each (`Analytics`, `Reports`);
  - nothing is drawn below the pen, and the room that a row, a heading or a note
    needs was asked for before it is drawn, unless it is more than what the name
    of the ticket and the heading leave of a new page (`ReportPdf`);
  - a request that was alone at a logo is the only one at its variant, and the
    file it has written is as it left it (`Alone`), so a settled logo is served
    (`Quiet`), whatever half-done changes it follows (`Parameters`);
  - the index keeps the names of modules apart; nothing is said of what the
    searches returned, which may be out of date (`ModuleNames`);
  - what the transaction works on has been through the tables before its place in
    the script (`Written`), with every row of them or its entry in the report, and
    has all that was in a target it did not truncate; so the sequences it sets at
    once and for good are above the ids of both. `MigrationAssumption` says that
    the ids of a target came from its sequences; nothing is assumed of the rows of
    the legacy copy (`Migration`);
  - the device holds what the list shows, or what it showed when it was left
    (`TicketList`);
  - of every screen with a cache (`TicketScreen`, `ActivityPanel`, `AdminList`,
    `ParametersScreen`): whatever the server has and the screen does not show
    yet is stale, being fetched, in an answer on its way, or owed to a call
    whose handler will refresh it (`News`, `Heard`), unless the history of the
    module excuses it. The answers come in any order, so no weaker statement
    is inductive;
  - the fields of a report say the dates it is asked with, the report kept is
    of those, and a file being made is of the days it was asked for, across a
    midnight (`ReportsScreen`);
  - whoever is signed out is awaited by no profile and held by no handler, and
    until a refresh meets a sign-in the flag and the device agree but for the
    steps under way between them (`Forgot`, `Knows` of `Entrance`).

What these proofs rest on, besides the invariants:

* Induction over data. The library's induction theorems cannot be instantiated
  here, so `NaturalsByStep` and `FiniteByStep` state induction for one *set* of
  numbers (or of subsets); a recursive function is reasoned about by the set of
  arguments at which it does what it should.
* Sums. `SumFunction` of the community modules is defined by a `CHOOSE` of a
  recursive function over one element at a time; `SumFunctionOnSet` is shown to
  obey the equation for any finite set, so to add up over disjoint unions, to be
  monotonic, and to exchange the order of two sums.
* Time. The first day of a year, the month of a timestamp, and the date that is
  the closing day of a month, or its last day, from the arithmetic of `WallClock`:
  no month begins before the one before it ends, in any year. The loop over the
  months of a period (`Segments`) cuts it where they begin, whatever its length.
* The hours bank. Cycles lie on a grid of six months from the closing date, so two
  are the same or share no slot, and one begins where the other ends if the day
  is no later than the 28th (later ones are moved to the end of short months: the
  property says so of days up to 28 only). A slot of an activity is in exactly
  one of the segments it is cut into, so the months of a cycle add up to the
  slots worked in it, each counted once.
* The figures. A chart is a partition of the rows by one of their fields, so its
  sums add up (`Sums`); the month of a slot lies between those of the first and
  the last slot of the period, so no bucket is off the axis. `InOrder` lists each
  member of a finite set once, whatever the ties.
* The amounts. A text of any length is cut at its marks, which are numbered from
  the right as the code looks for the last one; the value read is that of
  the digits before and after the mark, or the text is refused.

Only model-checked, and why:

* `CallsEnd`: liveness under fairness, out of the provers' reach.
* `ChartsMeetFigures`: the charts and the board sort by comparisons that leave ties
  open (`SetToSortSeq` chooses) and fold along sequences of any length, so what
  they compute is induction over data; the equations were left to TLC.
* `DeskTypesOK`: the invariants above contain it for most of the parts.

## 5. Not modelled, and why

Configuration, probes and the observability middleware keep no state that
outlives a request. The theme, the shell, the administration menu and the
new-ticket form render or send what they were given. Text of e-mails, labels,
formatting and fonts are wording. Digests, signatures and message formats are
computation on bytes. Listings of tickets, activities, users and the audit trail
are reads of one statement. The forced-password branch of the guard is modelled
where the client meets it (`Entrance`). The legacy Flask application is the
replaced system, kept as a reference.

Only partly modelled: password hashing (which password a hash verifies, and
whether its format is old), notifications (order, recipients and failure, not the
templates), schema (keys and cascades, not column types).

## 6. Plan

What is left, in order.

1. The two parts of `desk_work` that have no proof yet: charts and board.
2. Finer histories: in `Tickets` per ticket and module, in `Accounts` only the
   pairs of requests that demote or remove, in `Agenda` only saves that pass the
   first checks.
3. An abstract registry of sessions that `Sessions`, with requests served one
   at a time, implements.
