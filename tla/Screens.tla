------------------------------- MODULE Screens -------------------------------
(***************************************************************************)
(* The screens of the desk, at the server the parameters and the modules,  *)
(* and the migration of the legacy data, which keep no state in common:    *)
(* each is lent the first of fourteen variables.                           *)
(***************************************************************************)
EXTENDS Lent, Integers, FiniteSets

CONSTANTS
  Requests, TextKeys, Variants, Extensions, Bodies,       \* the parameters
  Modules, SystemNames, ModuleRequests,                   \* the modules
  Periods, ListStatuses, Searches, Long, StoredFilters,   \* the list of tickets
  ThisMonth, PendingStatus,
  LegacyIds, LegacyCopies, LegacyTargets,                 \* the legacy data
  LegacyEmails, LegacyHosts,
  TicketStatuses, TicketTexts, TicketViewers,             \* one ticket
  ScreenCalls, ScreenOthers,
  Acts, OwnActs, PanelCalls, MaxStrangers,                \* its activities
  ListIds, ListFirst, ListMatching, ListPage, Viewer,     \* the lists of the superuser
  ListCalls,
  FieldTexts, BadTexts, MaxWrites,                        \* the company's parameters
  TypedDays, MonthStart, Today, LastDays, ReportMonths,   \* the reports
  ReportMonth, WorkedDays, WorkedMonths,
  Words, LongWords, BlankWord, MaxUnderWay,               \* signing in and out
  Failure, Unfiltered                                     \* values that stand for themselves

Params == INSTANCE Parameters WITH
  rows <- v1, folder <- v2, req <- v3, chosen <- v4, settled <- v5

Names == INSTANCE ModuleNames WITH
  Names <- SystemNames, Requests <- ModuleRequests,
  mods <- v1, req <- v2, trail <- v3

Legacy == INSTANCE Migration WITH
  MaxId <- LegacyIds, Sources <- LegacyCopies, Bases <- LegacyTargets,
  Emails <- LegacyEmails, Hosts <- LegacyHosts,
  source <- v1, base <- v2, work <- v3, flags <- v4, pc <- v5, skipped <- v6,
  before <- v7, collided <- v8

Home == INSTANCE TicketList WITH
  NoFilters <- Unfiltered, Statuses <- ListStatuses, CurrentMonth <- ThisMonth,
  Stored <- StoredFilters, Pending <- PendingStatus,
  disk <- v1, mounted <- v2, loaded <- v3, period <- v4, status <- v5, search <- v6,
  page <- v7, debounced <- v8, answer <- v9, kept <- v10, pdf <- v11, chosen <- v12,
  touched <- v13, hurried <- v14

Detail == INSTANCE TicketScreen WITH
  Nothing <- Unset,
  Statuses <- TicketStatuses, Texts <- TicketTexts, Viewers <- TicketViewers,
  MaxCalls <- ScreenCalls, MaxOthers <- ScreenOthers,
  ticket <- v1, viewer <- v2, screen <- v3, detail <- v4, call <- v5, confirm <- v6,
  form <- v7, others <- v8, missed <- v9

Panel == INSTANCE ActivityPanel WITH
  Nothing <- Unset, Own <- OwnActs,
  acts <- v1, superuser <- v2, open <- v3, listing <- v4, erasing <- v5, editing <- v6,
  adding <- v7, typed <- v8, job <- v9, strangers <- v10, behind <- v11

Manage == INSTANCE AdminList WITH
  Nothing <- Unset,
  Ids <- ListIds, First <- ListFirst, Matching <- ListMatching, PageSize <- ListPage,
  Self <- Viewer, MaxCalls <- ListCalls,
  screen <- v1, superuser <- v2, rows <- v3, mounted <- v4, filter <- v5, page <- v6,
  list <- v7, stray <- v8, form <- v9, toDelete <- v10, create <- v11, erase <- v12,
  toggle <- v13, missed <- v14

Company == INSTANCE ParametersScreen WITH
  Nothing <- Unset,
  Fields <- FieldTexts, Bad <- BadTexts,
  server <- v1, cache <- v2, header <- v3, mounted <- v4, form <- v5, preview <- v6,
  confirm <- v7, save <- v8, upload <- v9, removal <- v10, others <- v11, behind <- v12,
  crossed <- v13, outdated <- v14

Asking == INSTANCE ReportsScreen WITH
  Nothing <- Unset,
  Typed <- TypedDays, FirstOfMonth <- MonthStart, Months <- ReportMonths, ThisMonth <- ReportMonth,
  tab <- v1, date <- v2, text <- v3, month <- v4, today <- v5, drawn <- v6, answer <- v7,
  kept <- v8, pdf <- v9, file <- v10, pressed <- v11

Door == INSTANCE Entrance WITH
  Nothing <- Unset,
  Long <- LongWords, Blank <- BlankWord,
  must <- v1, disk <- v2, bootstrapped <- v3, hasSession <- v4, profile <- v5,
  route <- v6, form <- v7, calls <- v8, refresh <- v9, crossed <- v10

(* The constants of each are as it assumes.                                *)
ScreensAssumption ==
  /\ Params!ParametersAssumption /\ Names!NamesAssumption
  /\ Legacy!MigrationAssumption
  /\ Home!TicketListAssumption /\ Detail!TicketScreenAssumption
  /\ Panel!PanelAssumption /\ Manage!AdminListAssumption
  /\ Company!ParametersScreenAssumption /\ Asking!ReportsScreenAssumption
  /\ Door!EntranceAssumption
=============================================================================
