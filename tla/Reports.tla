------------------------------ MODULE Reports ------------------------------
(***************************************************************************)
(* The two reports: backend/src/reports/reports.service.ts, over the       *)
(* tickets and activities of Analytics.tla.  A report is one query for its *)
(* activities; the company's header comes from Parameters.tla's rows.      *)
(***************************************************************************)
EXTENDS Analytics, Sequences

CONSTANTS
  Intervals,   \* start and end typed for the activity report, day numbers; 0 when not
  Rate         \* activity_hourly_rate in hundredths, 0 when it is no number

VARIABLES
  report    \* the last report built, forgotten when its data changes

vars == <<status, acts, answer, report>>

ReportsAssumption == AnalyticsAssumption /\ Intervals \subseteq [start : Int, end : Int]

NoReport == [kind |-> "none", viewer |-> AllClients, first |-> 0, last |-> 0,
             window |-> <<>>, acts |-> {}]

TypeOK ==
  /\ FiguresTypeOK
  /\ report.kind \in {"none", "400", "activities", "services"}
  /\ report.acts \subseteq Works

-----------------------------------------------------------------------------
(* resolveDatePeriod: from the first of this month to today when nothing   *)
(* is typed; the last day is in.                                           *)
FirstDay(interval) ==
  IF interval.start = 0 THEN DayNumber(StartOfMonth(MonthIndexOf(Now))) ELSE interval.start
LastDay(interval) == IF interval.end = 0 THEN DayNumber(Now) ELSE interval.end

(* Bug for checking: the last day is cut off.                              *)
WindowBug(interval) ==
  [from |-> PerDay * FirstDay(interval), to |-> PerDay * LastDay(interval)]

Window(interval) ==
  [from |-> PerDay * FirstDay(interval), to |-> PerDay * (LastDay(interval) + 1)]

Found(viewer, window) == {a \in ScopeActs(viewer) : Worked(a, window)}

BuildActivityReport(viewer, interval) ==
  /\ report' = IF LastDay(interval) < FirstDay(interval)
               THEN [NoReport EXCEPT !.kind = "400"]
               ELSE [kind |-> "activities", viewer |-> viewer,
                     first |-> FirstDay(interval), last |-> LastDay(interval),
                     window |-> Window(interval), acts |-> Found(viewer, Window(interval))]
  /\ UNCHANGED figures

(* buildServicesReport: a month.                                           *)
BuildServicesReport(viewer, month) ==
  /\ report' = [kind |-> "services", viewer |-> viewer,
                first |-> DaysBefore(month), last |-> DaysBefore(month + 1) - 1,
                window |-> MonthBounds(month), acts |-> Found(viewer, MonthBounds(month))]
  /\ UNCHANGED figures

Init == FiguresInit /\ report = NoReport

(* Bound: no report is built under an answer; they share nothing but rows. *)
Next ==
  \/ FiguresNext /\ report' = IF UNCHANGED <<status, acts>> THEN report ELSE NoReport
  \/ \E viewer \in Viewers :
       /\ answer.pc \in {"none", "given"}
       /\ \/ \E interval \in Intervals : BuildActivityReport(viewer, interval)
          \/ BuildServicesReport(viewer, MonthIndexOf(Now))

Spec == Init /\ [][Next]_vars

-----------------------------------------------------------------------------
(* A set in the order of a key; what has the same key is in any order.     *)
InOrder(S, key) ==
  CHOOSE s \in [1..Cardinality(S) -> S] :
    \A i, j \in DOMAIN s : i < j => s[i] # s[j] /\ key[s[i]] <= key[s[j]]

(* What the activity report shows: the tickets in order of id, each with   *)
(* its activities in order of start and its own total, rounded once.       *)
TicketsIn(r) == {a.ticket : a \in r.acts}
WorkOn(r, ticket) == {a \in r.acts : a.ticket = ticket}
ReportTickets(r) == InOrder(TicketsIn(r), [id \in TicketsIn(r) |-> id])
ActivitiesOf(r, ticket) == InOrder(WorkOn(r, ticket), [a \in WorkOn(r, ticket) |-> a.from])
SlotsOf(r, some) == SumFunction([a \in some |-> Slots(a, r.window)])
TicketTotal(r, ticket) == Hundredths(SlotsOf(r, WorkOn(r, ticket)))
ActivityReportTotal(r) ==
  SumFunction([ticket \in TicketsIn(r) |-> TicketTotal(r, ticket)])

(* Totals by technician, by id, each rounded once.                         *)
Authors(r) == {a.author : a \in r.acts}
TechnicianTotal(r, author) == Hundredths(SlotsOf(r, {a \in r.acts : a.author = author}))

(* The total shown, in hundredths, times the rate, rounded half up.        *)
AmountDue(r) == (ActivityReportTotal(r) * Rate + 50) \div 100

(* The services report: a row for each activity, the last to end first,    *)
(* and the sum of the rounded rows.                                        *)
EndShown(r, a) == LesserOf(a.to, r.window.to - 1)
ServiceRows(r) ==
  InOrder(r.acts, [a \in r.acts |-> 0 - EndShown(r, a)])
ServicesTotal(r) == SumFunction([a \in r.acts |-> HoursOf(a, r.window)])

-----------------------------------------------------------------------------
(* The totals of a report are those of its parts, and a report of the days *)
(* of a period charges what the dashboard shows for that period, to the    *)
(* last day and up to rounding: reports.service.ts, 121-331.               *)
ReportsAgree ==
  report.kind \in {"activities", "services"} =>
    /\ Near(ActivityReportTotal(report),
            SumFunction([u \in Authors(report) |-> TechnicianTotal(report, u)]),
            Cardinality(Authors(report)) + Len(ReportTickets(report)))
    /\ Near(ActivityReportTotal(report), ServicesTotal(report),
            Len(ServiceRows(report)) + Len(ReportTickets(report)))
    /\ \A a \in report.acts :
         \E i \in DOMAIN ReportTickets(report) :
           LET listed == ActivitiesOf(report, ReportTickets(report)[i])
           IN \E j \in DOMAIN listed : listed[j] = a
    /\ answer.pc = "given" /\ answer.calm /\ answer.viewer = report.viewer
       /\ answer.period.from = PerDay * report.first
       /\ answer.period.to = PerDay * (report.last + 1) =>
         Near(ActivityReportTotal(report),
              Kpis(answer.tickets, answer.rows, answer.period).hours,
              Cardinality(answer.rows) + Len(ReportTickets(report)))

(* What an answer that nobody wrote under has read is what there is, and   *)
(* so is what is in a report.                                              *)
AnswerWhole ==
  answer = [pc |-> answer.pc, viewer |-> answer.viewer, period |-> answer.period,
            left |-> answer.left, tickets |-> answer.tickets, rows |-> answer.rows,
            backlog |-> answer.backlog, trendTickets |-> answer.trendTickets,
            trendActs |-> answer.trendActs, calm |-> answer.calm]
AnswerCurrent ==
  /\ \E q \in Queries : answer.period = Resolve(q, Scope(answer.viewer))
  /\ "tickets" \notin answer.left =>
       answer.tickets = TicketRows(answer.viewer, answer.period)
  /\ "activities" \notin answer.left =>
       answer.rows = ActRows(answer.viewer, answer.period)
  /\ answer.pc # "period" /\ "trendTickets" \notin answer.left =>
       answer.trendTickets = TrendTicketsOf(answer.viewer, answer.period)
  /\ answer.pc # "period" /\ "trendActivities" \notin answer.left =>
       answer.trendActs = TrendActsOf(answer.viewer, answer.period)
ReportCurrent ==
  /\ report.first \in Int /\ report.last \in Int
  /\ report.window = [from |-> PerDay * report.first, to |-> PerDay * (report.last + 1)]
  /\ report.acts = Found(report.viewer, report.window)
IInv ==
  /\ TypeOK /\ AnswerWhole
  /\ answer.pc = "period" => answer.left \subseteq Statements
  /\ answer.pc = "trend" => answer.left \subseteq TrendStatements
  /\ answer.pc = "given" => answer.left = {}
  /\ answer.pc # "none" /\ answer.calm => AnswerCurrent
  /\ report.kind \in {"activities", "services"} => ReportCurrent
=============================================================================
