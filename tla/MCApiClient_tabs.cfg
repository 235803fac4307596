SPECIFICATION Spec
CONSTANTS
  t1 = t1
  t2 = t2
  c1 = c1
  c2 = c2
  c3 = c3
  Tabs = {t1, t2}
  Calls = {c1, c2, c3}
  Home <- TwoTabs
  MaxLapses = 2
  MaxSignIns = 0
  Lossy = TRUE
  SignOuts = TRUE
  Reloads = TRUE
  Expulsions = FALSE
INVARIANTS
  TypeOK
  RotatedTokenNeverPresented
  SessionNeverLost
PROPERTY RetryCarriesAnotherToken
SYMMETRY LikeCalls
CHECK_DEADLOCK FALSE
