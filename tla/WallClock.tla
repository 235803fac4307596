----------------------------- MODULE WallClock -----------------------------
(***************************************************************************)
(* Naive timestamps: backend/src/common/time/legacy-clock.ts, its mirror   *)
(* frontend/src/domain/wall-clock.ts, and the deletion window of           *)
(* backend/src/common/domain/deletion-window.ts.                           *)
(*                                                                         *)
(* A stored timestamp is a natural number of slots since the first of      *)
(* January of FirstYear; a day has PerDay slots (eight of three hours, so  *)
(* that Sao Paulo is one slot behind UTC).  Whether a timestamp means an   *)
(* instant of UTC or the time on the wall is up to its column, here as in  *)
(* the database.                                                           *)
(***************************************************************************)
EXTENDS Integers

CONSTANTS
  FirstYear, LastYear,  \* bound: the years timestamps fall in
  PerDay,               \* slots of a day
  Behind                \* slots the wall clock is behind UTC

WallClockAssumption ==
  /\ FirstYear \in Nat /\ LastYear \in Nat /\ FirstYear <= LastYear
  /\ PerDay \in Nat \ {0} /\ Behind \in 0..(PerDay - 1)

IsLeap(year) ==
  (year % 4) = 0 /\ ((year % 100) # 0 \/ (year % 400) = 0)

(* daysInMonth: day zero of the next month.                                *)
DaysInMonth(year, month) ==
  IF month = 2 THEN IF IsLeap(year) THEN 29 ELSE 28
  ELSE IF month \in {4, 6, 9, 11} THEN 30 ELSE 31

(* Months are counted from January of FirstYear.                           *)
MonthIndex(year, month) == 12 * (year - FirstYear) + month - 1
YearOf(index) == FirstYear + index \div 12
MonthOf(index) == (index % 12) + 1
LengthOf(index) == DaysInMonth(YearOf(index), MonthOf(index))

Months == 0 .. 12 * (LastYear - FirstYear + 1)

LeapDaysBefore(year) ==
  (year - 1) \div 4 - (year - 1) \div 100 + (year - 1) \div 400

BeforeMonth == <<0, 31, 59, 90, 120, 151, 181, 212, 243, 273, 304, 334>>

(* Days before a month.                                                    *)
DaysBefore(index) ==
  365 * (index \div 12) + LeapDaysBefore(YearOf(index)) - LeapDaysBefore(FirstYear)
    + BeforeMonth[MonthOf(index)]
    + (IF IsLeap(YearOf(index)) /\ MonthOf(index) > 2 THEN 1 ELSE 0)

Horizon == PerDay * DaysBefore(12 * (LastYear - FirstYear + 1))

(* wallClockToStorage and its inverse.                                     *)
Storage(index, day, slot) == PerDay * (DaysBefore(index) + day - 1) + slot

DayNumber(stored) == stored \div PerDay

MonthIndexOf(stored) ==
  LET day == DayNumber(stored)
  IN CHOOSE index \in day \div 31 .. day \div 28 :
       DaysBefore(index) <= day /\ day < DaysBefore(index + 1)

DayOfMonth(stored) == DayNumber(stored) - DaysBefore(MonthIndexOf(stored)) + 1
SlotOf(stored) == stored % PerDay

(* A date as typed exists, or Date would normalise it silently.            *)
Exists(date) ==
  /\ date.month \in 1..12 /\ date.day >= 1
  /\ date.day <= DaysInMonth(date.year, date.month)

(* instantToWallClockStorage, nowWallClock.                                *)
OnTheWall(instant) == instant - Behind

StartOfMonth(index) == Storage(index, 1, 0)

(* monthPeriodBounds: half open.                                           *)
MonthBounds(index) == [from |-> StartOfMonth(index), to |-> StartOfMonth(index + 1)]

StartOfNextMonth(stored) == StartOfMonth(MonthIndexOf(stored) + 1)

(* lastDaysBounds: whole days, today included.                             *)
LastDaysBounds(now, days) ==
  [from |-> (DayNumber(now) - (days - 1)) * PerDay, to |-> now]

LesserOf(m, n) == IF m < n THEN m ELSE n
GreaterOf(m, n) == IF m < n THEN n ELSE m

(* addMonths: the day is cut down to the length of the target month.       *)
AddMonths(stored, months) ==
  LET target == MonthIndexOf(stored) + months
  IN Storage(target, LesserOf(DayOfMonth(stored), LengthOf(target)), SlotOf(stored))

(* Two timestamps clipped to a window; never negative (durationHours).     *)
Clipped(from, to, window) ==
  GreaterOf(LesserOf(to, window.to) - GreaterOf(from, window.from), 0)

(* Bug for checking: a segment goes to the month it ends in.               *)
SegmentsBug(from, to) ==
  LET cut[cursor \in 0..Horizon] ==
        IF cursor >= to THEN {}
        ELSE LET end == LesserOf(to, StartOfNextMonth(cursor))
             IN {[month |-> MonthIndexOf(end), slots |-> end - cursor]} \cup cut[end]
  IN cut[from]

(* A period cut at the starts of months; each part with the month of its   *)
(* first slot.                                                             *)
Segments(from, to) ==
  LET cut[cursor \in 0..Horizon] ==
        IF cursor >= to THEN {}
        ELSE LET end == LesserOf(to, StartOfNextMonth(cursor))
             IN {[month |-> MonthIndexOf(cursor), slots |-> end - cursor]} \cup cut[end]
  IN cut[from]

(* canDeleteByMonth: the stored timestamp, read as if it were wall clock,  *)
(* and the wall clock of now must fall in one month.                       *)
CanDeleteByMonth(stored, now, isSuperuser) ==
  isSuperuser \/ MonthIndexOf(stored) = MonthIndexOf(OnTheWall(now))
=============================================================================
