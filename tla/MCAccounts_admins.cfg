SPECIFICATION Spec
CONSTANTS
  u1 = u1
  u2 = u2
  Users = {u1, u2, u3}
  Founders <- TwoSupers
  Requests = {r1, r2}
  NoRow = NoRow
  NoRequest = NoRequest
  Deleted = Deleted
SYMMETRY Symmetry
INVARIANTS
  TypeOK
  DeletionsToldAreTrue
  SuperuserRemainsAlone
  TrailTellsPrivileges
PROPERTY OwnRoleUntouched
CHECK_DEADLOCK FALSE
