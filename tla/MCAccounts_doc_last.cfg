SPECIFICATION Spec
CONSTANTS
  u1 = u1
  u2 = u2
  Users = {u1, u2}
  Founders <- TwoSupers
  Requests = {r1, r2}
  NoRow = NoRow
  NoRequest = NoRequest
  Deleted = Deleted
INVARIANT SuperuserRemains
CHECK_DEADLOCK FALSE
