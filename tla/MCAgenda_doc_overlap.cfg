SPECIFICATION Spec
CONSTANTS
  Technicians = {k1, k2}
  Supers = {k2}
  Tickets = {t1}
  Requests = {r1, r2, r3}
  MaxActivities = 2
  Times = {0, 1}
  MaxLength = 1
  MonthLength = 2
  NoRow = NoRow
  NoRequest = NoRequest
SYMMETRY Symmetry
INVARIANT NoOverlap
CHECK_DEADLOCK FALSE
