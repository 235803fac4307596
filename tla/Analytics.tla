----------------------------- MODULE Analytics -----------------------------
(***************************************************************************)
(* The dashboard's figures: backend/src/analytics/analytics.service.ts.    *)
(*                                                                         *)
(* An answer is put together from nine queries, each of which sees the     *)
(* tickets and activities of its own moment.  Hours are rounded to         *)
(* hundredths where the code rounds them.                                  *)
(***************************************************************************)
EXTENDS WallClock, FiniteSets, FiniteSetsExt

CONSTANTS
  Tickets,     \* that may be opened: id, born (UTC), client, technician, module
  Works,       \* activities that may be registered: ticket, author, from, to
  Statuses,    \* aberto, em_andamento, resolvido, fechado, or some of them
  Payments,    \* day and hours, already registered
  Queries,     \* days, all, year, month; 0 or FALSE where not given
  Viewers,     \* a client, or AllClients
  AllClients,
  NoName,      \* no technician
  Now          \* on the wall

(* Bound: the years that may be asked for are those timestamps fall in.    *)
AnalyticsAssumption ==
  /\ WallClockAssumption /\ PerDay % 24 = 0 /\ Now \in 0..(Horizon - 1)
  /\ "aberto" \in Statuses /\ "none" \notin Statuses
  /\ IsFiniteSet(Tickets) /\ IsFiniteSet(Works)
  /\ \A t \in Tickets : t.born \in 0..Horizon
  /\ \A a \in Works : /\ \E t \in Tickets : t.id = a.ticket
                      /\ a.ticket \in Int /\ a.from \in 0..Horizon /\ a.to \in 0..Horizon
  /\ Queries \subseteq [days : Nat, all : BOOLEAN, year : {0} \cup FirstYear..LastYear,
                        month : 0..12]

VARIABLES
  status,   \* ticket -> status, or None when it is not open
  acts,     \* activities registered
  answer    \* the answer being put together

figures == <<status, acts, answer>>

None == "none"
Concluded == {"resolvido", "fechado"}
Backlog == {"aberto", "em_andamento"}
Opened == {t \in Tickets : status[t] # None}
TicketOf(a) == CHOOSE t \in Tickets : t.id = a.ticket

(* calm: nothing was written since the answer was asked for.               *)
NoAnswer == [pc |-> "none", viewer |-> AllClients, period |-> <<>>, left |-> {},
             tickets |-> {}, rows |-> {}, backlog |-> {}, trendTickets |-> {},
             trendActs |-> {}, calm |-> TRUE]

Statements == {"tickets", "activities", "backlog"}
TrendStatements == {"trendTickets", "trendActivities"}

FiguresTypeOK ==
  /\ status \in [Tickets -> Statuses \cup {None}]
  /\ acts \subseteq Works /\ \A a \in acts : TicketOf(a) \in Opened
  /\ answer.pc \in {"none", "period", "trend", "given"}
  /\ answer.left \subseteq Statements \cup TrendStatements
  /\ answer.trendActs \subseteq Works
  /\ answer.calm \in BOOLEAN

-----------------------------------------------------------------------------
(* Periods.                                                                *)

Scope(viewer) == {t \in Opened : viewer = AllClients \/ t.client = viewer}
ScopeActs(viewer) == {a \in acts : TicketOf(a) \in Scope(viewer)}

PerHour == PerDay \div 24

(* round2, in hundredths of an hour.                                       *)
Hundredths(slots) == (200 * slots + PerHour) \div (2 * PerHour)

Period(from, to, mode) == [from |-> from, to |-> to, mode |-> mode]

MonthOfPeriod(index) == Period(StartOfMonth(index), StartOfMonth(index + 1), "day")

ThisYear == YearOf(MonthIndexOf(Now))

(* resolvePeriod: the last days win over the rest, everything over the     *)
(* year and the month; a month without a year is of this one, and no       *)
(* choice is this month.                                                   *)
Resolve(q, scope) ==
  LET year == IF q.year = 0 THEN ThisYear ELSE q.year IN
  IF q.days # 0 THEN Period(LastDaysBounds(Now, q.days).from, Now, "date")
  ELSE IF q.all
  THEN Period(StartOfMonth(IF scope = {} THEN MonthIndex(ThisYear, 1)
                           ELSE MonthIndexOf(Min({t.born : t \in scope}))),
              StartOfMonth(MonthIndexOf(Now) + 1), "all")
  ELSE IF q.month # 0 THEN MonthOfPeriod(MonthIndex(year, q.month))
  ELSE IF q.year = 0 THEN MonthOfPeriod(MonthIndexOf(Now))
  ELSE Period(StartOfMonth(MonthIndex(year, 1)), StartOfMonth(MonthIndex(year + 1, 1)), "month")

(* bucketOf.                                                               *)
BucketOf(stored, mode) ==
  IF mode = "day" THEN DayOfMonth(stored)
  ELSE IF mode = "date" THEN DayNumber(stored)
  ELSE MonthIndexOf(stored)

(* The buckets of the axis: the days of the month, one per date, or one    *)
(* per month.                                                              *)
Axis(p) ==
  IF p.mode = "day" THEN 1 .. LengthOf(MonthIndexOf(p.from))
  ELSE IF p.mode = "date" THEN DayNumber(p.from) .. DayNumber(p.to)
  ELSE MonthIndexOf(p.from) .. (MonthIndexOf(p.to) - 1)

-----------------------------------------------------------------------------
(* Rows and sums.                                                          *)

Born(t, window) == window.from <= t.born /\ t.born < window.to
Touches(a, window) == a.to > window.from /\ a.from < window.to
Slots(a, window) == Clipped(a.from, a.to, window)

(* Found by the query, and not passed over for having no hours in it.      *)
Worked(a, window) == Touches(a, window) /\ Slots(a, window) > 0

(* An activity's hours in the period, rounded one by one.                  *)
HoursOf(a, window) == Hundredths(Slots(a, window))

(* Bug for checking: the bucket of the activity's own start.               *)
BucketOfActBug(a, p) == BucketOf(a.from, p.mode)

(* The bucket of an activity: the one of its start, clipped.               *)
BucketOfAct(a, p) == BucketOf(GreaterOf(a.from, p.from), p.mode)

Total(rows, window) == SumFunction([r \in rows |-> HoursOf(r.act, window)])

(* aggregateBy, aggregateByStatus, aggregateTechnicians and the maps by    *)
(* bucket: tickets are counted and hours summed under the same keys.       *)
Grouped(tickets, rows, window, keyOfTicket(_), keyOfRow(_)) ==
  [k \in {keyOfTicket(t) : t \in tickets} \cup {keyOfRow(r) : r \in rows} |->
     [count |-> Cardinality({t \in tickets : keyOfTicket(t) = k}),
      hours |-> Total({r \in rows : keyOfRow(r) = k}, window)]]

ByStatus(tickets, rows, w) ==
  Grouped(tickets, rows, w, LAMBDA t : t.status, LAMBDA r : r.status)
ByModule(tickets, rows, w) ==
  Grouped(tickets, rows, w, LAMBDA t : t.ticket.module, LAMBDA r : TicketOf(r.act).module)
ByClient(tickets, rows, w) ==
  Grouped(tickets, rows, w, LAMBDA t : t.ticket.client, LAMBDA r : TicketOf(r.act).client)
(* Tickets count for who is designated, hours for who registered them.     *)
ByTechnician(tickets, rows, w) ==
  Grouped({t \in tickets : t.ticket.technician # NoName}, rows, w,
          LAMBDA t : t.ticket.technician, LAMBDA r : r.act.author)
ByBucket(tickets, rows, w) ==
  Grouped(tickets, rows, w, LAMBDA t : BucketOf(t.ticket.born, w.mode),
          LAMBDA r : BucketOfAct(r.act, w))

(* The figures of the tickets themselves; a stored instant is UTC, the     *)
(* start of an activity and the present are on the wall.                   *)
FirstResponse(t) ==
  GreaterOf(Min({a.from : a \in t.acts}) - t.ticket.born, 0)
AgeDays(born) == GreaterOf(Now - born, 0) \div PerDay

Kpis(tickets, rows, w) ==
  LET answered == {t \in tickets : t.acts # {}} IN
  [tickets |-> Cardinality(tickets),
   concluded |-> Cardinality({t \in tickets : t.status \in Concluded}),
   open |-> Cardinality({t \in tickets : t.status \notin Concluded}),
   hours |-> Total(rows, w),
   answered |-> Cardinality(answered),
   response |-> SumFunction([t \in answered |-> Hundredths(FirstResponse(t))])]

(* loadBacklog, over the whole history.                                    *)
OldestDays(backlog) ==
  IF backlog = {} THEN 0 ELSE AgeDays(Min({t.born : t \in backlog}))

(* loadTrend: the twelve months that end with the period's last one, each  *)
(* with its own part of the activities, rounded once.                      *)
TrendMonths(p) == LET last == MonthIndexOf(p.to - 1) IN (last - 11) .. last
TrendWindow(p) == [from |-> StartOfMonth(MonthIndexOf(p.to - 1) - 11), to |-> p.to]

SlotsIn(a, w, month) ==
  LET segments == Segments(GreaterOf(a.from, w.from), LesserOf(a.to, w.to))
  IN SumFunction([s \in {t \in segments : t.month = month} |-> s.slots])

Trend(p, tickets, trendActs) ==
  [month \in TrendMonths(p) |->
     [tickets |-> Cardinality({t \in tickets : MonthIndexOf(t.born) = month}),
      hours |-> Hundredths(SumFunction(
                  [a \in trendActs |-> SlotsIn(a, TrendWindow(p), month)]))]]

(* loadPaidHoursInPeriod: by date, the last one left out, and in the view  *)
(* of everything not by date at all.                                       *)
PaidInPeriod(p) ==
  LET settled == {pay \in Payments : p.mode = "all"
                    \/ (DayNumber(p.from) <= pay.day /\ pay.day < DayNumber(p.to))}
  IN SumFunction([pay \in settled |-> pay.hours])

-----------------------------------------------------------------------------
FiguresInit ==
  /\ status \in [Tickets -> Statuses \cup {None}]
  /\ acts \in SUBSET {a \in Works : status[TicketOf(a)] # None}
  /\ answer = NoAnswer

(* What others write meanwhile; bound: one write under an answer.          *)
Stir == answer.calm /\ answer' = [answer EXCEPT !.calm = (answer.pc = "none")]

OpenTicket(t) ==
  /\ status[t] = None
  /\ status' = [status EXCEPT ![t] = "aberto"]
  /\ Stir /\ UNCHANGED acts

ChangeStatus(t, s) ==
  /\ status[t] \notin {None, s}
  /\ status' = [status EXCEPT ![t] = s]
  /\ Stir /\ UNCHANGED acts

Register(a) ==
  /\ TicketOf(a) \in Opened /\ a \notin acts
  /\ acts' = acts \cup {a}
  /\ Stir /\ UNCHANGED status

(* getAnalytics: the period first, and the view of everything asks for the *)
(* earliest ticket.                                                        *)
Ask(viewer, q) ==
  /\ answer.pc = "none"
  /\ answer' = [NoAnswer EXCEPT !.pc = "period", !.viewer = viewer, !.left = Statements,
                                !.period = Resolve(q, Scope(viewer))]
  /\ UNCHANGED <<status, acts>>

Got(statement) == answer.left \ {statement}

(* The rows each statement would find now.                                 *)
TicketRows(viewer, p) ==
  {[ticket |-> t, status |-> status[t], acts |-> {a \in acts : TicketOf(a) = t}] :
     t \in {x \in Scope(viewer) : Born(x, p)}}
ActRows(viewer, p) ==
  {[act |-> a, status |-> status[TicketOf(a)]] : a \in {x \in ScopeActs(viewer) : Worked(x, p)}}
TrendTicketsOf(viewer, p) == {t \in Scope(viewer) : Born(t, TrendWindow(p))}
TrendActsOf(viewer, p) == {a \in ScopeActs(viewer) : Touches(a, TrendWindow(p))}

(* One of the statements of Promise.all, in whatever order they end.       *)
ReadTickets ==
  /\ answer.pc = "period" /\ "tickets" \in answer.left
  /\ answer' = [answer EXCEPT !.left = Got("tickets"),
       !.tickets = TicketRows(answer.viewer, answer.period)]
  /\ UNCHANGED <<status, acts>>

ReadActivities ==
  /\ answer.pc = "period" /\ "activities" \in answer.left
  /\ answer' = [answer EXCEPT !.left = Got("activities"),
       !.rows = ActRows(answer.viewer, answer.period)]
  /\ UNCHANGED <<status, acts>>

ReadBacklog ==
  /\ answer.pc = "period" /\ "backlog" \in answer.left
  /\ answer' = [answer EXCEPT !.left = Got("backlog"),
       !.backlog = {t \in Scope(answer.viewer) : status[t] \in Backlog}]
  /\ UNCHANGED <<status, acts>>

StartTrend ==
  /\ answer.pc = "period" /\ answer.left = {}
  /\ answer' = [answer EXCEPT !.pc = "trend", !.left = TrendStatements]
  /\ UNCHANGED <<status, acts>>

ReadTrendTickets ==
  /\ answer.pc = "trend" /\ "trendTickets" \in answer.left
  /\ answer' = [answer EXCEPT !.left = Got("trendTickets"),
       !.trendTickets = TrendTicketsOf(answer.viewer, answer.period)]
  /\ UNCHANGED <<status, acts>>

ReadTrendActivities ==
  /\ answer.pc = "trend" /\ "trendActivities" \in answer.left
  /\ answer' = [answer EXCEPT !.left = Got("trendActivities"),
       !.trendActs = TrendActsOf(answer.viewer, answer.period)]
  /\ UNCHANGED <<status, acts>>

(* The payments of the period, and the answer.                             *)
Give ==
  /\ answer.pc = "trend" /\ answer.left = {}
  /\ answer' = [answer EXCEPT !.pc = "given"]
  /\ UNCHANGED <<status, acts>>

FiguresNext ==
  \/ \E t \in Tickets : OpenTicket(t) \/ \E s \in Statuses : ChangeStatus(t, s)
  \/ \E a \in Works : Register(a)
  \/ \E viewer \in Viewers, q \in Queries : Ask(viewer, q)
  \/ ReadTickets \/ ReadActivities \/ ReadBacklog \/ StartTrend
  \/ ReadTrendTickets \/ ReadTrendActivities \/ Give

FiguresSpec == FiguresInit /\ [][FiguresNext]_figures

-----------------------------------------------------------------------------
(* Rounded one by one and all at once, n figures are at most this far.     *)
Near(m, n, figuresRounded) ==
  2 * (m - n) <= figuresRounded /\ 2 * (n - m) <= figuresRounded

Sums(f, counted, hours) ==
  /\ SumFunction([k \in DOMAIN f |-> f[k].count]) = counted
  /\ SumFunction([k \in DOMAIN f |-> f[k].hours]) = hours

(* An answer nobody wrote under adds up: every chart shows the same        *)
(* tickets and the same hours as the figures at the top, nothing falls off *)
(* the axis, and the trend agrees with the period it ends with, up to      *)
(* rounding: analytics.service.ts, 91-257.                                 *)
FiguresAddUp ==
  answer.pc = "given" /\ answer.calm =>
    LET p == answer.period
        all == Kpis(answer.tickets, answer.rows, p)
        trend == Trend(p, answer.trendTickets, answer.trendActs)
        covered == DOMAIN trend \cap (MonthIndexOf(p.from) .. MonthIndexOf(p.to - 1))
    IN /\ all.tickets = all.concluded + all.open
       /\ Sums(ByStatus(answer.tickets, answer.rows, p), all.tickets, all.hours)
       /\ Sums(ByModule(answer.tickets, answer.rows, p), all.tickets, all.hours)
       /\ Sums(ByClient(answer.tickets, answer.rows, p), all.tickets, all.hours)
       /\ Sums(ByTechnician(answer.tickets, answer.rows, p),
               Cardinality({t \in answer.tickets : t.ticket.technician # NoName}), all.hours)
       /\ Sums(ByBucket(answer.tickets, answer.rows, p), all.tickets, all.hours)
       /\ DOMAIN ByBucket(answer.tickets, answer.rows, p) \subseteq Axis(p)
       /\ p.mode # "date" /\ Cardinality(covered) = MonthIndexOf(p.to - 1) - MonthIndexOf(p.from) + 1 =>
            /\ SumFunction([m \in covered |-> trend[m].tickets]) = all.tickets
            /\ Near(SumFunction([m \in covered |-> trend[m].hours]), all.hours,
                    Cardinality(answer.rows) + Cardinality(covered))
=============================================================================
