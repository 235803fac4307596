------------------------------- MODULE MCDesk -------------------------------
(***************************************************************************)
(* One finite instance of every part of the desk that keeps no state in    *)
(* common with the others: a behaviour is a behaviour of one part, chosen  *)
(* at the start, and the variables are lent to it.  The charts and the     *)
(* dashboard that draws them are here, with the services and the screens.  *)
(***************************************************************************)
EXTENDS Screens, Services, SequencesExt, TLC

VARIABLE part
vars == <<part, v1, v2, v3, v4, v5, v6, v7, v8, v9, v10, v11, v12, v13, v14>>

CONSTANTS open, closed    \* statuses of a ticket, or texts of a field

CONSTANTS
  BoardYears, BoardMonths, BoardYear, BoardMonth,  \* the dashboard
  BoardVersions, BoardView(_, _), BoardStatuses,
  BoardConcluded, BoardBars, BoardTable

Drawing == INSTANCE Charts

Board == INSTANCE Dashboard WITH
  Years <- BoardYears, Months <- BoardMonths, CurrentYear <- BoardYear,
  CurrentMonth <- BoardMonth, Versions <- BoardVersions, View <- BoardView,
  Statuses <- BoardStatuses, Concluded <- BoardConcluded, MaxBars <- BoardBars,
  TableLimit <- BoardTable, Nothing <- Unset,
  isClient <- v1, year <- v2, month <- v3, filters <- v4, answer <- v5, kept <- v6, mixed <- v7

(* Nothing tells one status, or one text of a field, from the other.       *)
Symmetry == Permutations({open, closed})

-----------------------------------------------------------------------------
Date(y, m, d) == [year |-> y, month |-> m, day |-> d]

(* Twenty minutes to a slot, the wall three hours behind.                  *)
Wall == INSTANCE WallClock WITH
  FirstYear <- 2023, LastYear <- 2026, PerDay <- 72, Behind <- 9
On(y, m, d, eighth) == Wall!Storage(Wall!MonthIndex(y, m), d, 9 * eighth)

(* The end of February of a leap year and of months of 30 and 31 days, a   *)
(* ticket of another month, closing days that do not exist in every month. *)

DeskActivities ==
  { [from |-> On(2024, 2, 29, 6), to |-> On(2024, 3, 1, 2), client |-> "ana", born |-> On(2024, 3, 1, 1)],
    [from |-> On(2024, 7, 31, 4), to |-> On(2024, 8, 1, 1), client |-> "bia", born |-> On(2024, 7, 1, 2)],
    [from |-> On(2024, 8, 27, 4), to |-> On(2024, 8, 28, 2), client |-> "ana", born |-> On(2024, 9, 1, 0)] }
DeskPaid ==
  { [day |-> Wall!DayNumber(On(2024, 2, 29, 0)), slots |-> 18] }
DeskSettings ==
  { [closing |-> Date(2024, 8, 31), allowance |-> 27, now |-> On(2024, 3, 1, 0)],
    [closing |-> Date(2024, 8, 31), allowance |-> Junk, now |-> On(2024, 8, 28, 0)],
    [closing |-> Date(2023, 8, 29), allowance |-> 27, now |-> On(2024, 9, 1, 7)],
    [closing |-> Date(2025, 2, 28), allowance |-> 27, now |-> On(2024, 8, 27, 7)],
    [closing |-> Date(2024, 2, 30), allowance |-> 27, now |-> On(2024, 8, 31, 7)],
    [closing |-> Junk, allowance |-> Junk, now |-> On(2024, 8, 31, 7)] }

DeskBankViewers == {everyone, "ana", "bia"}

-----------------------------------------------------------------------------
(* Values of the constants of the screens.                                 *)
Body(k, value, l, other) == [x \in {k, l} |-> IF x = k THEN value ELSE other]

DeskBodies ==
  { Body("title", <<"blank">>, "allowance", <<"comma">>),
    Body("title", <<"plain">>, "allowance", <<"junk">>),
    Body("title", <<"plain">>, "light", <<"a URL, or a path out of the folder">>),
    [k \in {"dark"} |-> <<"dark", "png">>] }

ThreeNames == {<<"erp", "low">>, <<"erp", "up">>, <<"crm", "low">>}

DeskPeriods == {2024, 0, -30}
DeskLong == {<<2024, "nao_concluidos", "">>, <<2024, "all", "">>, <<0, "all", "x">>}
DeskStored ==
  {Unfiltered, [year |-> -45, status |-> "all"], [year |-> 0, status |-> "old"]}

(* The shortcut of three days starts on the first of the month; a day      *)
(* after today may be typed, and after the end, and one half written.      *)
DeskTyped == {21, -1}

-----------------------------------------------------------------------------
DeskAmounts == {<<"digit">>, <<"other">>}

(* A text typed into a field, up to dddd.ddd and d.ddd,dd.                 *)
Keyed == Len(v1) < 8 /\ \E token \in {Text!Digit, Text!Point, Text!Comma} : v1' = Append(v1, token)

-----------------------------------------------------------------------------
(* A legacy copy with optional rows: a user without flags, modules that    *)
(* differ in case, a parameter without a value, a ticket whose client is   *)
(* missing and an activity of it.                                          *)
Rows(one, two) ==
  [i \in {n \in 1..2 : (IF n = 1 THEN one ELSE two) # <<>>} |->
     IF i = 1 THEN one[1] ELSE two[1]]
Ana == <<[email |-> "ana", super |-> "null", must |-> "false"]>>
Bia == <<[email |-> "bia", super |-> "true", must |-> "false"]>>
LegacyModule(word, spelling, active) == <<[name |-> <<word, spelling>>, active |-> active]>>
LegacyTicket(client, technician) ==
  <<[client |-> client, technician |-> technician, module |-> 1]>>
LegacyParameter(value) == <<[key |-> "company_name", value |-> value]>>
LegacyTables ==
  {"user", "system_module", "system_parameter", "payment_record", "ticket", "activity"}
Copy(user, module, other, ticket, activity) ==
  [t \in LegacyTables |->
     CASE t = "user" -> Rows(Ana, user)
       [] t = "system_module" -> Rows(module, other)
       [] t = "system_parameter" ->
            Rows(LegacyParameter(IF module = <<>> THEN "null" ELSE "hope"), <<>>)
       [] t = "payment_record" -> Rows(<<[thousandths |-> 4]>>, <<[thousandths |-> 4]>>)
       [] t = "ticket" -> Rows(ticket, LegacyTicket(1, 2))
       [] t = "activity" -> Rows(activity, <<>>)]
Copies ==
  { Copy(user, module, other, ticket, activity) :
      user \in {<<>>, Bia}, module \in {<<>>, LegacyModule("erp", "low", "true")},
      other \in {LegacyModule("erp", "up", "null"), LegacyModule("crm", "low", "null")},
      ticket \in {<<>>, LegacyTicket(2, 0)},
      activity \in {<<>>} \cup {<<[ticket |-> k, author |-> k]>> : k \in 1..2} }

(* A target that is empty, or where an administrator was already created,  *)
(* who may have seen the parameters' page, which writes their defaults.    *)
Empty == [t \in LegacyTables |-> <<>>]
Before(id) ==
  [rows |-> [Empty EXCEPT !["user"] = (id :> [email |-> "eva", super |-> TRUE, must |-> TRUE])],
   seq |-> [t \in DOMAIN Empty |-> IF t = "user" THEN 3 ELSE 0]]

Seen(target) ==
  [target EXCEPT !.rows["system_parameter"] = (2 :> LegacyParameter("")[1]),
                 !.seq["system_parameter"] = 2]

Targets == {[rows |-> Empty, seq |-> [t \in DOMAIN Empty |-> 0]], Before(2), Seen(Before(3))}
HostPairs ==
  {<<"disposable", "disposable">>, <<"disposable", "elsewhere">>, <<"production", "disposable">>}

-----------------------------------------------------------------------------
(* A ticket of the last hours of a month, activities across midnight and   *)
(* across the month.                                                       *)
February == 13    \* of 2024, counted from 2023
March == 14

DeskTickets ==
  { [id |-> 1, born |-> Wall!Storage(February, 29, 30), client |-> "ana", technician |-> "tec", module |-> "erp"],
    [id |-> 2, born |-> Wall!Storage(March, 31, 71), client |-> "bia", technician |-> "-", module |-> "erp"] }
DeskWorks ==
  { [ticket |-> 1, author |-> "tec", from |-> Wall!Storage(February, 29, 70), to |-> Wall!Storage(March, 1, 2)],
    [ticket |-> 1, author |-> "sup", from |-> Wall!Storage(March, 24, 70), to |-> Wall!Storage(March, 25, 2)],
    [ticket |-> 2, author |-> "tec", from |-> Wall!Storage(March, 31, 70), to |-> Wall!Storage(March + 1, 2, 1)] }
DeskPayments ==
  { [day |-> Wall!DaysBefore(March), hours |-> 5], [day |-> Wall!DaysBefore(March + 1) - 1, hours |-> 7] }
DeskQueries ==
  { [days |-> 7, all |-> FALSE, year |-> 0, month |-> 0],
    [days |-> 0, all |-> TRUE, year |-> 0, month |-> 0],
    [days |-> 0, all |-> FALSE, year |-> 0, month |-> 2],
    [days |-> 0, all |-> FALSE, year |-> 2024, month |-> 0] }
DeskIntervals ==
  { [start |-> 0, end |-> 0],
    [start |-> Wall!DaysBefore(March), end |-> Wall!DaysBefore(March) - 1],
    [start |-> Wall!DaysBefore(March), end |-> Wall!DaysBefore(March + 1) - 1] }
DeskNow == Wall!Storage(March, 31, 60)

DeskFigureViewers == {everyone, "ana"}

(* A logo in a wide strip and one that is too tall.                        *)
DeskLogos == {[width |-> 400, height |-> 100], [width |-> 10, height |-> 30]}

-----------------------------------------------------------------------------
(* Values of a chart are typed in one by one, up to five of them.          *)
Plotted == Len(v1) < 5 /\ \E value \in 0..4 : v1' = Append(v1, value)
Greatest == CHOOSE x \in ToSet(v1) \cup {0} : \A y \in ToSet(v1) : y <= x
PlottedItems == [i \in DOMAIN v1 |-> [key |-> i, value |-> v1[i]]]
DrawnWell ==
  /\ Drawing!CurveStaysBetween(v1)
  /\ Drawing!ScalesHold(10 * Greatest, 0)
  /\ Drawing!RankingWhole(PlottedItems, 2)
  /\ v1 # <<>> =>
       /\ Drawing!ScalesHold(37 * v1[1] + 10 * Last(v1), 130 * Len(v1) * Last(v1))
       /\ LET corner == Drawing!Radius(4 * v1[1], Last(v1))
          IN corner <= Last(v1) /\ 2 * corner <= 4 * v1[1]

(* Three tickets, one of two technicians and one without work; a period of *)
(* all of them, one of two whose second version has another.               *)
BoardTicket(id, state, module, technicians, client, bucket, hours) ==
  [id |-> id, status |-> state, module |-> module, technicians |-> technicians,
   client |-> client, bucket |-> bucket, responseHours |-> hours,
   ageDays |-> IF state = "aberto" THEN 2 * id ELSE Unset]
BoardWork(ticket, technician, bucket, hours) ==
  [tech |-> technician, bucket |-> bucket, hours |-> hours, status |-> ticket.status,
   module |-> ticket.module, client |-> ticket.client]
Ticket1 == BoardTicket(1, "aberto", "erp", {"tec", "sup"}, "ana", 1, 3)
Ticket2 == BoardTicket(2, "resolvido", "crm", {"sup"}, "bia", 2, Unset)
Ticket3 == BoardTicket(3, "aberto", "erp", {}, "bia", 2, Unset)
DeskView(period, version) ==
  [tickets |-> IF period = <<0, 0>> THEN <<Ticket3, Ticket2, Ticket1>>
               ELSE IF version = 1 THEN <<Ticket2, Ticket1>> ELSE <<Ticket3>>,
   activities |->
     IF period = <<0, 0>>
     THEN <<BoardWork(Ticket1, "tec", 1, 3), BoardWork(Ticket1, "sup", 2, 1), BoardWork(Ticket2, "sup", 2, 2)>>
     ELSE IF version = 1 THEN <<BoardWork(Ticket1, "tec", 1, 2)>> ELSE <<>>,
   buckets |-> IF period = <<0, 0>> THEN <<1, 2, 3>> ELSE <<1, 2>>,
   trend |-> {<<2024, 2>>}, availableYears |-> {2024},
   backlog |-> version, oldestDays |-> 29 + version,
   accumulated |-> 4 + version, allowance |-> 5]

DeskBoardStatuses == <<"aberto", "resolvido">>

-----------------------------------------------------------------------------
(* The constants of every part are as it assumes.                          *)
ASSUME DeskAssumption == ScreensAssumption /\ ServicesAssumption /\ Board!DashboardAssumption

-----------------------------------------------------------------------------
(* A part borrows the first variables; the others stay 0.                  *)
From2 == <<v2, v3, v4, v5, v6, v7, v8, v9, v10, v11, v12, v13, v14>>
From4 == <<v4, v5, v6, v7, v8, v9, v10, v11, v12, v13, v14>>
From5 == <<v5, v6, v7, v8, v9, v10, v11, v12, v13, v14>>
From6 == <<v6, v7, v8, v9, v10, v11, v12, v13, v14>>
From7 == <<v7, v8, v9, v10, v11, v12, v13, v14>>
From8 == <<v8, v9, v10, v11, v12, v13, v14>>
From9 == <<v9, v10, v11, v12, v13, v14>>
From10 == <<v10, v11, v12, v13, v14>>
From11 == <<v11, v12, v13, v14>>
From12 == <<v12, v13, v14>>
Off(n) ==
  /\ IF n < 2 THEN v2 = 0 ELSE TRUE
  /\ IF n < 3 THEN v3 = 0 ELSE TRUE
  /\ IF n < 4 THEN v4 = 0 ELSE TRUE
  /\ IF n < 5 THEN v5 = 0 ELSE TRUE
  /\ IF n < 6 THEN v6 = 0 ELSE TRUE
  /\ IF n < 7 THEN v7 = 0 ELSE TRUE
  /\ IF n < 8 THEN v8 = 0 ELSE TRUE
  /\ IF n < 9 THEN v9 = 0 ELSE TRUE
  /\ IF n < 10 THEN v10 = 0 ELSE TRUE
  /\ IF n < 11 THEN v11 = 0 ELSE TRUE
  /\ IF n < 12 THEN v12 = 0 ELSE TRUE
  /\ IF n < 13 THEN v13 = 0 ELSE TRUE
  /\ IF n < 14 THEN v14 = 0 ELSE TRUE

Init ==
  \/ part = "text" /\ v1 = <<>> /\ Off(1)
  \/ part = "bus" /\ Bus!Init /\ Off(6)
  \/ part = "bank" /\ Bank!Init /\ Off(6)
  \/ part = "settings" /\ Params!Init /\ Off(5)
  \/ part = "names" /\ Names!Init /\ Off(3)
  \/ part = "payments" /\ Paid!Init /\ Off(5)
  \/ part = "migration" /\ Legacy!Init /\ Off(8)
  \/ part = "reports" /\ Reporting!Init /\ Off(4)
  \/ part = "paper" /\ Paper!Init /\ Off(10)
  \/ part = "detail" /\ Detail!Init /\ Off(9)
  \/ part = "panel" /\ Panel!Init /\ Off(11)
  \/ part = "home" /\ Home!Init
  \/ part = "admin" /\ Manage!Init
  \/ part = "company" /\ Company!Init
  \/ part = "asking" /\ Asking!Init /\ Off(11)
  \/ part = "door" /\ Door!Init /\ Off(10)
  \/ part = "charts" /\ v1 = <<>> /\ Off(1)
  \/ part = "board" /\ Board!Init /\ Off(7)

Next ==
  /\ UNCHANGED part
  /\ \/ part = "text" /\ Keyed /\ UNCHANGED From2
     \/ part = "bus" /\ Bus!Next /\ UNCHANGED From7
     \/ part = "bank" /\ Bank!Next /\ UNCHANGED From7
     \/ part = "settings" /\ Params!Next /\ UNCHANGED From6
     \/ part = "names" /\ Names!Next /\ UNCHANGED From4
     \/ part = "payments" /\ Paid!Next /\ UNCHANGED From6
     \/ part = "migration" /\ Legacy!Next /\ UNCHANGED From9
     \/ part = "reports" /\ Reporting!Next /\ UNCHANGED From5
     \/ part = "paper" /\ Paper!Next /\ UNCHANGED From11
     \/ part = "detail" /\ Detail!Next /\ UNCHANGED From10
     \/ part = "panel" /\ Panel!Next /\ UNCHANGED From12
     \/ part = "home" /\ Home!Next
     \/ part = "admin" /\ Manage!Next
     \/ part = "company" /\ Company!Next
     \/ part = "asking" /\ Asking!Next /\ UNCHANGED From12
     \/ part = "door" /\ Door!Next /\ UNCHANGED From11
     \/ part = "charts" /\ Plotted /\ UNCHANGED From2
     \/ part = "board" /\ Board!Next /\ UNCHANGED From8

Spec == Init /\ [][Next]_vars

-----------------------------------------------------------------------------
(* The state of every part has its shape.                                  *)
DeskTypesOK ==
  /\ part = "text" => v1 \in Seq(Text!Tokens)
  /\ part = "bus" => Bus!TypeOK
  /\ part = "bank" => Bank!TypeOK
  /\ part = "settings" => Params!TypeOK
  /\ part = "names" => Names!TypeOK
  /\ part = "payments" => Paid!TypeOK
  /\ part = "migration" => Legacy!TypeOK
  /\ part = "reports" => Reporting!TypeOK
  /\ part = "paper" => Paper!TypeOK
  /\ part = "detail" => Detail!TypeOK
  /\ part = "panel" => Panel!TypeOK
  /\ part = "home" => Home!TypeOK
  /\ part = "admin" => Manage!TypeOK
  /\ part = "company" => Company!TypeOK
  /\ part = "asking" => Asking!TypeOK
  /\ part = "door" => Door!TypeOK
  /\ part = "charts" => v1 \in Seq(0..4)
  /\ part = "board" => Board!TypeOK

(* No handler of an event is passed over: EventBus.tla.                    *)
EveryHandlerServed == part = "bus" => Bus!EveryHandlerServed

(* Each slot worked is in one cycle and is charged once; the cycles leave  *)
(* no gap; a summary adds up to the work: HoursBank.tla.                   *)
BankCountsEachSlot ==
  part = "bank" => Bank!BalanceCountsEachSlot /\ Bank!CyclesTile /\ Bank!SummaryAddsUp

(* A logo that an undisturbed request left is the one served:              *)
(* Parameters.tla.                                                         *)
LogoAsUploaded == part = "settings" => Params!LogoAsUploaded

(* What was chosen for a parameter stands, and no two modules bear names   *)
(* that differ in case only: Parameters.tla, ModuleNames.tla.              *)
SettingsStand ==
  /\ part = "settings" => Params!ChoicesStand
  /\ part = "names" => Names!NamesStayDistinct

(* An amount is read as it was meant, and the pages of payments add up to  *)
(* the total above them: Decimals.tla, Payments.tla.                       *)
PaymentsRight ==
  /\ part = "text" => Text!ReadAsMeant(v1)
  /\ part = "payments" => Paid!PagesAddUp

(* The migration is whole or leaves no trace: Migration.tla.               *)
AllOrNothing == part = "migration" => Legacy!AllOrNothing

(* The figures of the dashboard add up, reports charge what it shows, and  *)
(* on paper no box is cut or covered: Analytics.tla, Reports.tla,          *)
(* ReportPdf.tla.                                                          *)
FiguresAddUp ==
  /\ part = "reports" => Reporting!FiguresAddUp /\ Reporting!ReportsAgree
  /\ part = "paper" => Paper!BoxesWhole

(* The dashboard draws the figures it is given, whatever is filtered:      *)
(* Dashboard.tla, Charts.tla.                                              *)
ChartsMeetFigures ==
  /\ part = "charts" => DrawnWell
  /\ part = "board" => /\ Board!ChartsMeetTiles /\ Board!InsightsMeetCharts
                        /\ Board!FiltersOfPeriod

(* A filter does not change the order of the bars: Dashboard.tla.          *)
BarsKeepOrder == part = "board" => Board!AxisKeepsOrder

(* A screen at rest shows what the server has, a form sends what it shows, *)
(* a report and its file are of the days asked for, and whoever signed out *)
(* stays out: TicketScreen.tla, ActivityPanel.tla, AdminList.tla,          *)
(* ParametersScreen.tla, ReportsScreen.tla, Entrance.tla.                  *)
ScreensSettle ==
  /\ part = "detail" => Detail!ScreenSettles
  /\ part = "panel" => Panel!PanelSettles
  /\ part = "admin" => Manage!ListSettles /\ Manage!SentAsTyped /\ Manage!DialogHolds
  /\ part = "company" => Company!PreviewSettles /\ Company!TitleSettles /\ Company!SentAsShown
  /\ part = "asking" => /\ Asking!FieldsSayDates /\ Asking!ReportOfFields
                       /\ Asking!ShortcutsSpan /\ Asking!FileAsAsked
  /\ part = "door" => /\ Door!GateSettles /\ Door!SignedOutStaysOut
                     /\ Door!ScreensKnowSession /\ Door!FormsComeBack

(* The list of tickets shows a page that exists, under the filters chosen  *)
(* last: TicketList.tla.                                                   *)
ListKeepsPlace == part = "home" => Home!PageExists /\ Home!FiltersRemembered
=============================================================================
