------------------------------ MODULE Services ------------------------------
(***************************************************************************)
(* The services behind the screens: the event bus, the hours bank, the     *)
(* payments and how amounts are read, the figures, the reports and their   *)
(* paper.  They keep no state in common: each is lent the first of         *)
(* fourteen variables.                                                     *)
(***************************************************************************)
EXTENDS Lent, Integers, FiniteSets, Sequences

CONSTANTS
  Handlers, Mailer, Arrays, MaxHandlers, Publications,       \* the event bus
  Staff, Roles, Nobody,
  FirstYear, LastYear, PerDay, Behind,                       \* the clock
  BankActivities, BankPayments, BankSettings, BankViewers,   \* the hours bank
  DefaultAllowance, everyone, Junk,
  PaymentIds, PaymentDays, PaymentTexts, PaymentPage,        \* the payments
  PaymentRequests,
  FigureTickets, FigureWorks, FigureStatuses,                \* the figures and reports
  FigurePayments, FigureQueries, FigureViewers, FigureNow,
  FigureIntervals, Rate, NoName,
  PaperDetails, PaperNotes, PaperTitles, PaperNames, PaperLogos, \* the paper
  NoLogo, PaperTickets, PaperRows

Bus == INSTANCE EventBus WITH
  content <- v1, registered <- v2, smtp <- v3, role <- v4, pub <- v5, shifted <- v6

Bank == INSTANCE HoursBank WITH
  Activities <- BankActivities, Payments <- BankPayments, Settings <- BankSettings,
  Viewers <- BankViewers, AllClients <- everyone,
  worked <- v1, paid <- v2, closing <- v3, allowance <- v4, now <- v5, summary <- v6

Text == INSTANCE Decimals

Paid == INSTANCE Payments WITH
  MaxId <- PaymentIds, Days <- PaymentDays, Texts <- PaymentTexts, PageSize <- PaymentPage,
  Requests <- PaymentRequests,
  rows <- v1, lastId <- v2, req <- v3, trail <- v4, reader <- v5

Reporting == INSTANCE Reports WITH
  Tickets <- FigureTickets, Works <- FigureWorks, Statuses <- FigureStatuses,
  Payments <- FigurePayments, Queries <- FigureQueries,
  Viewers <- FigureViewers, AllClients <- everyone, Now <- FigureNow, Intervals <- FigureIntervals,
  status <- v1, acts <- v2, answer <- v3, report <- v4

Paper == INSTANCE ReportPdf WITH
  Details <- PaperDetails, Notes <- PaperNotes, Titles <- PaperTitles, Names <- PaperNames,
  Logos <- PaperLogos,
  MaxTickets <- PaperTickets, MaxRows <- PaperRows,
  kind <- v1, stage <- v2, page <- v3, y <- v4, tickets <- v5, rows <- v6,
  heading <- v7, free <- v8, last <- v9, name <- v10

(* The constants of each are as it assumes.                                *)
ServicesAssumption ==
  /\ Bus!BusAssumption /\ Bank!HoursBankAssumption
  /\ Paid!PaymentsAssumption
  /\ Reporting!ReportsAssumption
  /\ Paper!ReportPdfAssumption
=============================================================================
