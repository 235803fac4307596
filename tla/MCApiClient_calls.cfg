SPECIFICATION FairSpec
CONSTANTS
  t1 = t1
  t2 = t2
  c1 = c1
  c2 = c2
  c3 = c3
  Tabs = {t1}
  Calls = {c1, c2}
  Home <- OneTab
  MaxLapses = 2
  MaxSignIns = 1
  Lossy = TRUE
  SignOuts = TRUE
  Reloads = TRUE
  Expulsions = TRUE
INVARIANT RefusedCallLeavesScreens
PROPERTIES
  CallsEnd
CHECK_DEADLOCK FALSE
