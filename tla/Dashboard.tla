----------------------------- MODULE Dashboard -----------------------------
(***************************************************************************)
(* The dashboard screen: frontend/app/analytics.tsx, with the cross filter *)
(* of domain/analytics-filters.ts and the banner of                        *)
(* domain/analytics-insights.ts.                                           *)
(*                                                                         *)
(* The server answers a period with its rows, and the screen counts them   *)
(* anew at every click.  While the next period is awaited the previous     *)
(* rows stay on the screen and may be clicked.  Hours are integers.        *)
(***************************************************************************)
EXTENDS Charts

CONSTANTS
  Years,          \* the selector's: years, 0 for all, negative for last days
  Months,         \* the selector's: 0 for the whole year
  CurrentYear, CurrentMonth,
  Versions,       \* of what the server has
  View(_, _),     \* the answer to a period's parameters
  Statuses,       \* a sequence: STATUS_CHART_ORDER
  Concluded,      \* the statuses of a ticket that is done
  MaxBars,        \* bars of a ranking before the rest is folded
  TableLimit,     \* rows of the table
  Nothing

VARIABLES
  isClient,  \* a client does not see the clients
  year, month,
  filters,   \* dimension -> the value chosen, or Nothing
  answer,    \* to the parameters chosen: "here", "awaited", "failed"
  kept,      \* the view last shown: parameters and version; or Nothing
  mixed      \* history: a filter was chosen on another view than this one

vars == <<isClient, year, month, filters, answer, kept, mixed>>

Dimensions == {"status", "module", "tech", "client", "bucket"}
NoFilters == [d \in Dimensions |-> Nothing]

(* periodParams.                                                           *)
PeriodParams(y, m) ==
  IF y <= 0 THEN <<y, 0>> ELSE <<y, IF m \in 1..12 THEN m ELSE 0>>
Params == PeriodParams(year, month)

(* data: an error without data of these parameters hides the rest.         *)
Shown == IF answer = "failed" \/ kept = Nothing THEN Nothing ELSE View(kept[1], kept[2])

-----------------------------------------------------------------------------
(* The cross filter: a chart is not cut by its own dimension.              *)

ToggleFilter(f, d, value) == [f EXCEPT ![d] = IF f[d] = value THEN Nothing ELSE value]

Passes(f, d, skip) == d # skip /\ f[d] # Nothing

(* A ticket of several technicians belongs to each of them.                *)
TicketMatches(t, f, skip) ==
  /\ Passes(f, "status", skip) => t.status = f["status"]
  /\ Passes(f, "module", skip) => t.module = f["module"]
  /\ Passes(f, "tech", skip) => f["tech"] \in t.technicians
  /\ Passes(f, "client", skip) => t.client = f["client"]
  /\ Passes(f, "bucket", skip) => t.bucket = f["bucket"]

(* Bug for checking: the chart of a dimension is cut by it too.            *)
ActivityMatchesBug(a, f, skip) == \A d \in Dimensions : f[d] # Nothing => a[d] = f[d]

ActivityMatches(a, f, skip) == \A d \in Dimensions : Passes(f, d, skip) => a[d] = f[d]

FilterTickets(view, f, skip) ==
  SelectSeq(view.tickets, LAMBDA t : TicketMatches(t, f, skip))
FilterActivities(view, f, skip) ==
  SelectSeq(view.activities, LAMBDA a : ActivityMatches(a, f, skip))

(* sumBy, with its keys in the order they are first met; countBy is the    *)
(* sum of ones.                                                            *)
SumBy(rows, d, amount(_)) ==
  LET first == {i \in DOMAIN rows : \A j \in 1..(i - 1) : rows[j][d] # rows[i][d]}
      at == SetToSortSeq(first, <)
  IN [k \in DOMAIN at |->
        [key |-> rows[at[k]][d],
         value |-> FoldSeq(LAMBDA row, sum :
                     IF row[d] = rows[at[k]][d] THEN sum + amount(row) ELSE sum, 0, rows)]]
CountBy(rows, d) == SumBy(rows, d, LAMBDA row : 1)
HoursBy(rows, d) == SumBy(rows, d, LAMBDA row : row.hours)

ValueOf(totals, key) ==
  FoldSeq(LAMBDA item, found : IF item.key = key THEN item.value ELSE found, 0, totals)

(* fixedCategories: of all the rows, the greatest first.                   *)
KeysOf(items) == [i \in DOMAIN items |-> items[i].key]
FixedCategories(totals) == KeysOf(Ranked(totals))
ModuleCats(view) == FixedCategories(CountBy(view.tickets, "module"))
ClientCats(view) == FixedCategories(CountBy(view.tickets, "client"))
TechCats(view) == FixedCategories(HoursBy(view.activities, "tech"))

-----------------------------------------------------------------------------
(* What is drawn.                                                          *)

Items(categories, totals) ==
  [i \in DOMAIN categories |-> [key |-> categories[i], value |-> ValueOf(totals, categories[i])]]

StatusSlices(view) == Items(Statuses, CountBy(FilterTickets(view, filters, "status"), "status"))
BucketTickets(view) ==
  Items(view.buckets, CountBy(FilterTickets(view, filters, "bucket"), "bucket"))
BucketHours(view) ==
  Items(view.buckets, HoursBy(FilterActivities(view, filters, "bucket"), "bucket"))
ModuleItems(view) ==
  Items(ModuleCats(view), CountBy(FilterTickets(view, filters, "module"), "module"))
ClientItems(view) ==
  Items(ClientCats(view), CountBy(FilterTickets(view, filters, "client"), "client"))
TechItems(view) ==
  Items(TechCats(view), HoursBy(FilterActivities(view, filters, "tech"), "tech"))

Given(rows, f) == SelectSeq(rows, LAMBDA row : row[f] # Nothing)
SumOf(rows, f) == FoldSeq(LAMBDA row, sum : sum + row[f], 0, rows)
Mean(rows, f) ==
  LET given == Given(rows, f)
  IN IF given = <<>> THEN Nothing ELSE <<SumOf(given, f), Len(given)>>

(* crossKpis: an age or a response that is not there counts for nothing,   *)
(* not for zero.                                                           *)
Kpis(view) ==
  LET tickets == FilterTickets(view, filters, Nothing)
      hours == SumOf(FilterActivities(view, filters, Nothing), "hours")
      done == Len(SelectSeq(tickets, LAMBDA t : t.status \in Concluded))
  IN [tickets |-> Len(tickets), concluded |-> done, pending |-> Len(tickets) - done,
      hours |-> hours, perTicket |-> IF tickets = <<>> THEN Nothing ELSE <<hours, Len(tickets)>>,
      response |-> Mean(tickets, "responseHours"), age |-> Mean(tickets, "ageDays")]

(* The conclusion rate, rounded; no ticket, no rate.                       *)
Percent(part, whole) == (200 * part + whole) \div (2 * whole)
ConclusionRate(k) == IF k.tickets = 0 THEN Nothing ELSE Percent(k.concluded, k.tickets)

(* The table, its first rows.                                              *)
Table(view) ==
  LET rows == FilterTickets(view, filters, Nothing)
  IN SubSeq(rows, 1, IF Len(rows) > TableLimit THEN TableLimit ELSE Len(rows))

(* The chips above: the filters that are on.                               *)
Chips == {d \in Dimensions : filters[d] # Nothing}

-----------------------------------------------------------------------------
(* buildInsights, over all the rows whatever the filters are.              *)

Leader(totals) == Ranked(totals)[1]
Notable(part, whole) == 10 * part >= 3 * whole

Insight(id, about, figure) == [id |-> id, about |-> about, figure |-> figure]

ModuleInsight(view) ==
  LET top == Leader(CountBy(view.tickets, "module"))
      n == Len(view.tickets)
  IN IF n >= 3 /\ Notable(top.value, n)
     THEN <<Insight("module-concentration", top.key, top.value)>> ELSE <<>>
PeakInsight(view) ==
  LET top == Leader(CountBy(view.tickets, "bucket"))
  IN IF Len(view.tickets) >= 3 /\ top.value > 1
     THEN <<Insight("peak-bucket", top.key, top.value)>> ELSE <<>>
TechInsight(view) ==
  LET top == Leader(HoursBy(view.activities, "tech"))
      total == SumOf(view.activities, "hours")
  IN IF total > 0 /\ Notable(top.value, total)
     THEN <<Insight("tech-load", top.key, top.value)>> ELSE <<>>
BacklogInsight(view) ==
  IF view.backlog > 0 /\ view.oldestDays >= 30
  THEN <<Insight("stale-backlog", view.oldestDays, view.backlog)>> ELSE <<>>
AllowanceInsight(view) ==
  IF view.allowance > 0 /\ view.accumulated > view.allowance
  THEN <<Insight("allowance-exceeded", view.accumulated, view.allowance)>> ELSE <<>>

(* What calls for attention comes first.                                   *)
Insights(view) ==
  BacklogInsight(view) \o AllowanceInsight(view)
    \o ModuleInsight(view) \o PeakInsight(view) \o TechInsight(view)

-----------------------------------------------------------------------------
(* What may be pressed.                                                    *)

(* The selector of years: windows, what the server knows, and all.         *)
YearOptions ==
  {y \in Years : y <= 0 \/ y \in (IF Shown = Nothing THEN {CurrentYear} ELSE Shown.availableYears)}

Elements(seq) == {seq[i] : i \in DOMAIN seq}
(* The bars that answer: not the folded one.                               *)
Selectable(items) == Elements(KeysOf(Bars(items, MaxBars).visible))
(* The legend of the ring, which is not drawn when there is nothing.       *)
Legend(slices) == IF ValueSum(slices) = 0 THEN {} ELSE Elements(KeysOf(slices))

Offered(view, d) ==
  CASE d = "status" -> Legend(StatusSlices(view))
    [] d = "module" -> Selectable(ModuleItems(view))
    [] d = "tech" -> Selectable(TechItems(view))
    [] d = "client" -> IF isClient THEN {} ELSE Selectable(ClientItems(view))
    [] d = "bucket" -> Elements(view.buckets)

-----------------------------------------------------------------------------
ParamsAll == {PeriodParams(y, m) : y \in Years, m \in Months}

DashboardAssumption ==
  /\ CurrentYear \in Years \ {0} /\ CurrentMonth \in Months /\ 0 \in Months
  /\ Nothing \notin ParamsAll \X Versions

TypeOK ==
  /\ isClient \in BOOLEAN /\ year \in Years /\ month \in Months
  /\ DOMAIN filters = Dimensions
  /\ answer \in {"here", "awaited", "failed"} /\ mixed \in BOOLEAN
  /\ IF kept = Nothing THEN answer # "here" ELSE kept \in ParamsAll \X Versions
  /\ answer = "here" => kept[1] = Params

Blank ==
  /\ year = CurrentYear /\ month = CurrentMonth /\ filters = NoFilters
  /\ mixed = FALSE

Init == isClient \in BOOLEAN /\ Blank /\ answer = "awaited" /\ kept = Nothing

(* useAnalytics: what the cache has of the parameters is shown at once;    *)
(* if not, the view before stays.                                          *)
Use(params, before) ==
  \/ answer' = "awaited" /\ kept' = before
  \/ answer' = "here" /\ \E v \in Versions : kept' = <<params, v>>

(* Bug for checking: the filters outlive their period.                     *)
SelectedBug(y, m) == year' = y /\ month' = m /\ UNCHANGED <<filters, mixed>>

(* selectPeriod.                                                           *)
Selected(y, m) == year' = y /\ month' = m /\ filters' = NoFilters /\ mixed' = FALSE

SelectPeriod(y, m) ==
  /\ answer # "failed" /\ Selected(y, m)
  /\ IF PeriodParams(y, m) = Params THEN UNCHANGED <<answer, kept>>
     ELSE Use(PeriodParams(y, m), kept)
  /\ UNCHANGED isClient

SelectYear(y) == y \in YearOptions /\ SelectPeriod(y, month)
SelectMonth(m) == year > 0 /\ SelectPeriod(year, m)

(* A month of the trend.                                                   *)
PickMonth(p) == Shown # Nothing /\ p \in Shown.trend /\ SelectPeriod(p[1], p[2])

(* A slice, a column or a bar; or the chip that takes it away.             *)
Toggle(d) ==
  /\ Shown # Nothing
  /\ \E value \in (Offered(Shown, d) \cup {filters[d]}) \ {Nothing} :
       filters' = ToggleFilter(filters, d, value)
  /\ mixed' = (mixed /\ filters' # NoFilters)
  /\ UNCHANGED <<isClient, year, month, answer, kept>>

ClearFilters ==
  /\ Shown # Nothing /\ Chips # {} /\ filters' = NoFilters /\ mixed' = FALSE
  /\ UNCHANGED <<isClient, year, month, answer, kept>>

(* An answer, also to a fetch in the background, whose failure leaves the  *)
(* data.                                                                   *)
Arrive ==
  /\ \/ answer' = "here" /\ \E v \in Versions : kept' = <<Params, v>>
     \/ answer = "awaited" /\ answer' = "failed" /\ UNCHANGED kept
  /\ answer # "failed"
  /\ mixed' = (mixed \/ (filters # NoFilters /\ kept' # kept))
  /\ UNCHANGED <<isClient, year, month, filters>>

Retry ==
  /\ answer = "failed" /\ answer' = "awaited"
  /\ UNCHANGED <<isClient, year, month, filters, kept, mixed>>

(* The screen is left and opened again.                                    *)
Return ==
  /\ year' = CurrentYear /\ month' = CurrentMonth /\ filters' = NoFilters
  /\ mixed' = FALSE /\ UNCHANGED isClient
  /\ Use(PeriodParams(CurrentYear, CurrentMonth), Nothing)

Next ==
  \/ \E y \in Years : SelectYear(y)
  \/ \E m \in Months : SelectMonth(m)
  \/ \E p \in Years \X Months : PickMonth(p)
  \/ \E d \in Dimensions : Toggle(d)
  \/ ClearFilters \/ Arrive \/ Retry \/ Return

Spec == Init /\ [][Next]_vars

-----------------------------------------------------------------------------
(* A chart meets the tile: as a whole when its dimension is not chosen, at *)
(* the bar chosen when it is.                                              *)
Meets(items, chosen, figure) ==
  figure = IF chosen = Nothing THEN ValueSum(items) ELSE ValueOf(items, chosen)

(* Whatever is filtered, every chart agrees with the figures above it, on  *)
(* the rows and on the axis alike: analytics.tsx, 191-192 and 239-242.     *)
ChartsMeetTiles ==
  Shown # Nothing =>
    LET k == Kpis(Shown) IN
    /\ Meets(StatusSlices(Shown), filters["status"], k.tickets)
    /\ Meets(ModuleItems(Shown), filters["module"], k.tickets)
    /\ Meets(ClientItems(Shown), filters["client"], k.tickets)
    /\ Meets(BucketTickets(Shown), filters["bucket"], k.tickets)
    /\ Meets(BucketHours(Shown), filters["bucket"], k.hours)
    /\ Meets(TechItems(Shown), filters["tech"], k.hours)
    /\ ConclusionRate(k) # Nothing => ConclusionRate(k) \in 0..100
    /\ Len(Table(Shown)) = k.tickets \/ Len(Table(Shown)) = TableLimit

(* A filter is of the period on the screen, unless it was chosen while     *)
(* another was still shown, or the rows changed under it: analytics.tsx,   *)
(* 93.                                                                     *)
FiltersOfPeriod ==
  Shown # Nothing /\ ~mixed =>
    /\ filters["module"] \in Elements(ModuleCats(Shown)) \cup {Nothing}
    /\ filters["tech"] \in Elements(TechCats(Shown)) \cup {Nothing}
    /\ filters["client"] \in Elements(ClientCats(Shown)) \cup {Nothing}
    /\ filters["bucket"] \in Elements(Shown.buckets) \cup {Nothing}

(* Nothing filtered, the banner names what the charts show first, with the *)
(* same figure: analytics-insights.ts, 39-110, analytics.tsx, 228-256.     *)
InsightsMeetCharts ==
  Shown # Nothing /\ Chips = {} =>
    LET said(id) == SelectSeq(Insights(Shown), LAMBDA i : i.id = id)
        first(items) == Bars(items, MaxBars).visible[1]
        names(id, item) == \A i \in Elements(said(id)) : i.about = item.key /\ i.figure = item.value
    IN /\ names("module-concentration", first(ModuleItems(Shown)))
       /\ names("tech-load", first(TechItems(Shown)))
       /\ \A i \in Elements(said("peak-bucket")) :
            /\ ValueOf(BucketTickets(Shown), i.about) = i.figure
            /\ \A b \in Elements(BucketTickets(Shown)) : b.value <= i.figure

(* The bars keep the order of their categories whatever is filtered:       *)
(* analytics-filters.ts, 122-128, analytics.tsx, 228-229.                  *)
KeepsOrder(items) ==
  LET keys == KeysOf(items)
      bars == KeysOf(Bars(items, MaxBars).visible)
  IN \A i, j \in DOMAIN bars, k, l \in DOMAIN keys :
       bars[i] = keys[k] /\ bars[j] = keys[l] /\ i < j => k < l
AxisKeepsOrder ==
  Shown # Nothing =>
    KeepsOrder(ModuleItems(Shown)) /\ KeepsOrder(ClientItems(Shown)) /\ KeepsOrder(TechItems(Shown))
=============================================================================
