SPECIFICATION Spec
CONSTANTS
  Users = {u1}
  NoUser = NoUser
  Passwords = {p1, p2}
  NoPassword = NoPassword
  Requests = {r1, r2}
  MaxTokens = 3
  Sessions0 = 1
  MaxResets = 0
  Ops = {"rotate", "change"}
  RehashEnabled = FALSE
  Crashes = FALSE
INVARIANT PromiseEndsAllSessions
CHECK_DEADLOCK FALSE
