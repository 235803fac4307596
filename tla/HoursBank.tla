----------------------------- MODULE HoursBank -----------------------------
(***************************************************************************)
(* The hours bank: backend/src/hours-bank/hours-bank.calculator.ts and the *)
(* queries of hours-bank.service.ts around it.  Hours are counted in slots *)
(* of the wall clock, so nothing is rounded.                               *)
(*                                                                         *)
(* Activities, payments and the two parameters change under the readers:   *)
(* the monthly summary is two queries with an await between them.          *)
(***************************************************************************)
EXTENDS WallClock, FiniteSets, Functions

CONSTANTS
  Activities,   \* what may be registered: from, to (wall clock), client and
                \* born, the UTC timestamp of its ticket
  Payments,     \* what may be paid: day (a day number) and slots
  Settings,     \* closing: hours_bank_closing_date, a date or Junk;
                \* allowance: monthly_hours_allowance, slots or Junk;
                \* now: the reference, on the wall clock
  Viewers,      \* who asks: a client, or AllClients for a technician
  AllClients,
  Junk,         \* text that is no date, no number
  DefaultAllowance

VARIABLES
  worked,     \* activities stored
  paid,       \* payments stored
  closing,    \* the parameters
  allowance,
  now,        \* the reference of the calculation
  summary     \* the monthly summary being prepared, or the last one given

vars == <<worked, paid, closing, allowance, now, summary>>

Half == 6   \* months of a cycle

(* Every reference has a cycle behind it that begins no earlier than       *)
(* FirstYear, and activities end no earlier than they begin.               *)
Dates == [year : FirstYear..LastYear, month : Int, day : Int]
HoursBankAssumption ==
  /\ WallClockAssumption
  /\ IsFiniteSet(Activities) /\ IsFiniteSet(Payments) /\ IsFiniteSet(Viewers)
  /\ AllClients \in Viewers /\ DefaultAllowance \in Nat
  /\ \A a \in Activities : /\ a.from \in 0..Horizon /\ a.to \in 0..Horizon /\ a.from <= a.to
                          /\ a.client \in Viewers \ {AllClients}
  /\ \A p \in Payments : p.slots \in Nat
  /\ Settings \subseteq [closing : {Junk} \cup Dates, allowance : {Junk} \cup Int, now : 0..Horizon]
  /\ \A s \in Settings : MonthIndexOf(s.now) >= Half

NoSummary == [pc |-> "none", viewer |-> AllClients, month |-> 0, period |-> 0,
              external |-> 0, disturbed |-> FALSE]

TypeOK ==
  /\ worked \subseteq Activities /\ paid \subseteq Payments
  /\ [closing |-> closing, allowance |-> allowance, now |-> now] \in Settings
  /\ summary.pc \in {"none", "external", "given"}
  /\ summary.period \in Nat /\ summary.external \in Nat
  /\ summary.disturbed \in BOOLEAN

-----------------------------------------------------------------------------
(* The calculator.                                                         *)

(* parseClosingDate: an impossible date falls back to the first of January *)
(* of the reference's year, as empty text does.                            *)
Anchor(date, reference) ==
  IF date # Junk /\ Exists(date)
  THEN Storage(MonthIndex(date.year, date.month), date.day, 0)
  ELSE StartOfMonth(12 * (MonthIndexOf(reference) \div 12))

(* The first of anchor, anchor - 6 months, ... that is not after the       *)
(* reference, each taken from the one before.                              *)
SteppedBack(anchor, reference) ==
  LET back[a \in 0..Horizon] ==
        IF a > reference THEN back[AddMonths(a, 0 - Half)] ELSE a
  IN back[anchor]

(* Then forward while the next reset is not after the reference.           *)
SteppedForward(anchor, reference) ==
  LET forward[a \in 0..Horizon] ==
        IF AddMonths(a, Half) <= reference THEN forward[AddMonths(a, Half)] ELSE a
  IN forward[anchor]

(* resolveHoursBankWindow.                                                 *)
CycleStart(date, reference) ==
  SteppedForward(SteppedBack(Anchor(date, reference), reference), reference)
CycleEnd(date, reference) == AddMonths(CycleStart(date, reference), Half)

(* resolveFranchiseHours.                                                  *)
Franchise(raw) == IF raw = Junk THEN DefaultAllowance ELSE GreaterOf(raw, 0)

(* What an activity adds to a month: nothing outside ]start, reference[.   *)
Share(a, month, start, reference) ==
  IF a.to <= start \/ a.from >= reference THEN 0
  ELSE LET segments == Segments(GreaterOf(a.from, start), LesserOf(a.to, reference))
       IN SumFunction([s \in {t \in segments : t.month = month} |-> s.slots])

Consumed(acts, month, start, reference) ==
  SumFunction([a \in acts |-> Share(a, month, start, reference)])

(* Payments from the date of the start to the date of the reference, both  *)
(* included.                                                               *)
PaidInCycle(pays, start, reference) ==
  LET settled == {p \in pays : DayNumber(start) <= p.day /\ p.day <= DayNumber(reference)}
  IN SumFunction([p \in settled |-> p.slots])

(* calculatePaidHoursForMonth: the end of the month is excluded.           *)
PaidInMonth(pays, index) ==
  LET settled == {p \in pays : DaysBefore(index) <= p.day /\ p.day < DaysBefore(index + 1)}
  IN SumFunction([p \in settled |-> p.slots])

CycleMonths(start, reference) == MonthIndexOf(start) .. MonthIndexOf(reference)

(* calculateHoursBank: the excess of a month never pays for another's      *)
(* slack, and the balance is never negative.                               *)
Bank(acts, pays, date, raw, reference) ==
  LET start == CycleStart(date, reference)
      used == [m \in CycleMonths(start, reference) |-> Consumed(acts, m, start, reference)]
      gross == SumFunction([m \in CycleMonths(start, reference) |->
                              GreaterOf(used[m] - Franchise(raw), 0)])
      settled == PaidInCycle(pays, start, reference)
  IN [total |-> SumFunction(used),
      gross |-> gross, paid |-> settled, net |-> GreaterOf(gross - settled, 0)]

-----------------------------------------------------------------------------
(* The queries.                                                            *)

(* loadActivitiesForUser: a client sees the activities of his tickets.     *)
InScope(viewer) == {a \in worked : viewer = AllClients \/ a.client = viewer}

Touching(acts, window) == {a \in acts : a.to > window.from /\ a.from < window.to}

(* sumClippedHours.                                                        *)
Hours(acts, window) ==
  SumFunction([a \in acts |-> Clipped(a.from, a.to, window)])

PeriodHours(viewer, index) ==
  Hours(Touching(InScope(viewer), MonthBounds(index)), MonthBounds(index))

(* loadExternalTicketActivities: the ticket was created outside the month, *)
(* its UTC timestamp compared with the bounds of the wall clock.           *)
ExternalHours(viewer, index) ==
  Hours({a \in Touching(InScope(viewer), MonthBounds(index)) :
           a.born < StartOfMonth(index) \/ a.born >= StartOfMonth(index + 1)},
        MonthBounds(index))

GetHoursBank(viewer) == Bank(InScope(viewer), paid, closing, allowance, now)

-----------------------------------------------------------------------------
Init ==
  /\ worked = {} /\ paid = {}
  /\ \E s \in Settings : closing = s.closing /\ allowance = s.allowance /\ now = s.now
  /\ summary = NoSummary

Disturb == summary' = [summary EXCEPT !.disturbed = @ \/ summary.pc = "external"]

Register(a) ==
  /\ worked' = worked \cup {a} /\ Disturb
  /\ UNCHANGED <<paid, closing, allowance, now>>

Erase(a) ==
  /\ a \in worked
  /\ worked' = worked \ {a} /\ Disturb
  /\ UNCHANGED <<paid, closing, allowance, now>>

Pay(p) ==
  /\ paid' = paid \cup {p}
  /\ UNCHANGED <<worked, closing, allowance, now, summary>>

(* getMonthlySummary: the activities of the month, then, after an await,   *)
(* those of tickets of other months.  One summary is asked for.            *)
AskSummary(viewer, index) ==
  /\ summary.pc = "none"
  /\ summary' = [pc |-> "external", viewer |-> viewer, month |-> index,
                 period |-> PeriodHours(viewer, index), external |-> 0,
                 disturbed |-> FALSE]
  /\ UNCHANGED <<worked, paid, closing, allowance, now>>

GiveSummary ==
  /\ summary.pc = "external"
  /\ summary' = [summary EXCEPT !.pc = "given",
                   !.external = ExternalHours(summary.viewer, summary.month)]
  /\ UNCHANGED <<worked, paid, closing, allowance, now>>

Next ==
  \/ \E a \in Activities : Register(a) \/ Erase(a)
  \/ \E p \in Payments : Pay(p)
  \/ \E v \in Viewers : AskSummary(v, MonthIndexOf(now))
  \/ GiveSummary

Spec == Init /\ [][Next]_vars

-----------------------------------------------------------------------------
(* What the bank promises, counted one slot at a time.                     *)

WorkedSlots(acts, window) ==
  UNION {{<<a, s>> : s \in GreaterOf(a.from, window.from)
                         .. LesserOf(a.to, window.to) - 1} : a \in acts}

(* Every slot worked in the cycle is counted once, in the month it falls   *)
(* in, and only what exceeds the month's allowance is due, less what was   *)
(* paid: hours-bank.calculator.ts, 176-276.                                *)
BalanceCountsEachSlot ==
  \A v \in Viewers :
    LET b == GetHoursBank(v)
        slots == WorkedSlots(InScope(v), [from |-> CycleStart(closing, now), to |-> now])
        months == {MonthIndexOf(x[2]) : x \in slots}
        in(m) == Cardinality({x \in slots : MonthIndexOf(x[2]) = m})
    IN /\ b.total = Cardinality(slots)
       /\ b.gross = SumFunction([m \in months |-> GreaterOf(in(m) - Franchise(allowance), 0)])
       /\ b.net + b.paid = GreaterOf(b.gross, b.paid)

(* A closing day up to 28 cuts the calendar into cycles: a later reference *)
(* of the same cycle has the same start, one past its end a start not      *)
(* before that end.  Days 29 to 31 drift and promise the first part only:  *)
(* hours-bank.calculator.ts, 99-116.                                       *)
CyclesTile ==
  LET start == CycleStart(closing, now)
      end == CycleEnd(closing, now)
  IN /\ start <= now /\ now < end
     /\ closing = Junk \/ ~Exists(closing) \/ closing.day <= 28 =>
          \A r \in {s.now : s \in Settings} :
            /\ start <= r /\ r < end => CycleStart(closing, r) = start
            /\ r >= end => CycleStart(closing, r) >= end

(* Hours of tickets of other months are part of the month's hours, and the *)
(* clients' hours add up to the technicians', as long as nobody wrote      *)
(* between the two queries: hours-bank.service.ts, 77-114.                 *)
SummaryAddsUp ==
  /\ summary.pc = "given" /\ ~summary.disturbed => summary.external <= summary.period
  /\ SumFunction([v \in Viewers \ {AllClients} |-> PeriodHours(v, summary.month)])
       = PeriodHours(AllClients, summary.month)

(* While nobody writes, the hours of the period are still what was read.   *)
IInv ==
  /\ TypeOK
  /\ summary \in [pc : {"none", "external", "given"}, viewer : Viewers, month : Nat,
                  period : Nat, external : Nat, disturbed : BOOLEAN]
  /\ ~summary.disturbed =>
       /\ summary.pc = "external" => summary.period = PeriodHours(summary.viewer, summary.month)
       /\ summary.pc = "given" => summary.external <= summary.period
=============================================================================
