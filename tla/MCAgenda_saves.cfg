SPECIFICATION Spec
CONSTANTS
  Technicians = {k1, k2}
  Supers = {k2}
  Tickets = {t1, t2}
  Requests = {r1, r2, r3}
  MaxActivities = 2
  Times = {0, 1, 2, 3}
  MaxLength = 2
  MonthLength = 2
  NoRow = NoRow
  NoRequest = NoRequest
SYMMETRY Symmetry
INVARIANTS
  TypeOK
  NoOverlapAlone
  ErasureRecordedOnce
PROPERTY KeepsCalendar
CHECK_DEADLOCK FALSE
