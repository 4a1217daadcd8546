SPECIFICATION Spec
CONSTANTS
  Workers = {w1, w2}
  Clients = {c1, c2}
  ActivityCheck = 1
  Inactivity = 2
  CodeLifetime = 1
  MaxTokens = 2
  MaxCodes = 1
  MaxTime = 2
  MaxCalls = 4
SYMMETRY Symmetry
CHECK_DEADLOCK FALSE
INVARIANTS
  RevokedDies
  CodeIsSpentOnce
