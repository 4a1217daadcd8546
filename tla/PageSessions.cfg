SPECIFICATION BrowserSpec
CONSTANTS
  t1 = t1
  t2 = t2
  s1 = s1
  s2 = s2
  a1 = a1
  a2 = a2
  Tabs = {t1, t2}
  Sites = {s1, s2}
  Actors = {a1, a2}
  SiteOf <- OneSite
  Embedded = {}
  Providers <- TwoAndOne
  NewTabs = FALSE
  MaxAttempts = 2
  Undefined = Undefined
  NoActor = NoActor
CHECK_DEADLOCK FALSE
INVARIANTS
  LoginsSurvive
  TokensMatch
