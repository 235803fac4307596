SPECIFICATION Spec
CONSTANTS
  Users = {u1}
  NoUser = NoUser
  Passwords = {p1, p2}
  NoPassword = NoPassword
  Requests = {r1, r2, r3}
  MaxTokens = 4
  Sessions0 = 2
  MaxResets = 1
  Ops = {"rotate", "logout", "logoutAll", "login", "change", "forgot", "reset", "admin", "remove"}
  RehashEnabled = TRUE
  Crashes = TRUE
SYMMETRY Symmetry
INVARIANTS
  TypeOK
  SuccessionSound
  OnlyRacedSessionsSurvive
  OneUsableTokenPerLogin
  PasswordIsLastChosen
  SpentKeyIsDead
  RevocationInHand
CHECK_DEADLOCK FALSE
