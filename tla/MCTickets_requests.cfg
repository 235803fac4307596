SPECIFICATION Spec
CONSTANTS
  Users = {u1, u2}
  Tickets = {t1, t2}
  Modules = {m1}
  Statuses = {"aberto", "fechado"}
  Requests = {r1, r2, r3}
  None = None
SYMMETRY Symmetry
INVARIANTS
  TypeOK
  ReferencesExist
  ClientKnowsStatus
PROPERTIES
  
  ActiveAtCreation
CHECK_DEADLOCK FALSE
