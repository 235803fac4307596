SPECIFICATION Spec
CONSTANTS
  Mailer = mailer
  Handlers = {mailer, h1}
  Arrays = {a1, a2}
  MaxHandlers = 2
  Publications = {p1}
  Staff = {u1}
  Roles = {"technician", "client"}
  Nobody = Nobody
  FirstYear = 2023
  LastYear = 2026
  PerDay = 72
  Behind = 9
  BankActivities <- DeskActivities
  BankPayments <- DeskPaid
  BankSettings <- DeskSettings
  BankViewers <- DeskBankViewers
  DefaultAllowance = 45
  everyone = everyone
  Junk = Junk
  PaymentIds = 3
  PaymentDays = {1, 2}
  PaymentTexts <- DeskAmounts
  PaymentPage = 1
  PaymentRequests = {r1, r2}
  FigureTickets <- DeskTickets
  FigureWorks <- DeskWorks
  FigureStatuses = {"aberto", "resolvido"}
  FigurePayments <- DeskPayments
  FigureQueries <- DeskQueries
  FigureViewers <- DeskFigureViewers
  FigureNow <- DeskNow
  FigureIntervals <- DeskIntervals
  Rate = 10050
  NoName = "-"
  PaperDetails = {22, 46}
  PaperNotes = {22, 120, 690, 900}
  PaperTitles = {3, 7}
  PaperNames = {1, 4}
  PaperLogos <- DeskLogos
  NoLogo = NoLogo
  PaperTickets = 2
  PaperRows = 3
  BoardYears = {2024, 0}
  BoardMonths = {0, 2}
  BoardYear = 2024
  BoardMonth = 2
  BoardVersions = {1, 2}
  BoardView <- DeskView
  BoardStatuses <- DeskBoardStatuses
  BoardConcluded = {"resolvido"}
  BoardBars = 2
  BoardTable = 2
  Requests = {r1, r2}
  TextKeys = {"title", "allowance"}
  Variants = {"light", "dark"}
  Extensions = {"png", "svg"}
  Bodies <- DeskBodies
  Modules = {1, 2}
  SystemNames <- ThreeNames
  ModuleRequests = {r1, r2, r3}
  Periods <- DeskPeriods
  ListStatuses = {"nao_concluidos", "all"}
  Searches = {"", "x"}
  Long <- DeskLong
  StoredFilters <- DeskStored
  ThisMonth = 2024
  PendingStatus = "nao_concluidos"
  LegacyIds = 5
  LegacyCopies <- Copies
  LegacyTargets <- Targets
  LegacyEmails = {"ana", "new"}
  LegacyHosts <- HostPairs
  TicketStatuses = {open, closed}
  TicketTexts = {"text"}
  TicketViewers = {"client", "technician"}
  ScreenCalls = 2
  ScreenOthers = 1
  Acts = {1, 2}
  OwnActs = {1}
  PanelCalls = {"call"}
  MaxStrangers = 1
  ListIds = {1, 2, 3}
  ListFirst = {1, 2}
  ListMatching = {2}
  ListPage = 1
  Viewer = 1
  ListCalls = 1
  FieldTexts = {open, closed, Junk}
  BadTexts = {Junk}
  MaxWrites = 2
  TypedDays <- DeskTyped
  MonthStart = 18
  Today = 20
  LastDays = {3}
  ReportMonths = {1, 2}
  ReportMonth = 2
  WorkedDays = {19}
  WorkedMonths = {2}
  Words = {"", "long enough", "longer"}
  LongWords = {"long enough", "longer"}
  BlankWord = ""
  MaxUnderWay = 1
  open = open
  closed = closed
  Unset = Unset
  Failure = Failure
  Unfiltered = Unfiltered
INVARIANT BarsKeepOrder
CHECK_DEADLOCK FALSE
