SPECIFICATION Spec
CONSTANTS
  Users = {u1}
  NoUser = NoUser
  Passwords = {p1, p2}
  NoPassword = NoPassword
  Requests = {r1, r2}
  MaxTokens = 3
  Sessions0 = 0
  MaxResets = 0
  Ops = {"login", "change"}
  RehashEnabled = TRUE
  Crashes = FALSE
INVARIANT RehashIsTransparent
CHECK_DEADLOCK FALSE
