SPECIFICATION HandleSpec
CONSTANTS
  Names = {n1, n2}
  Browsers = {b1, b2}
  Lifetime = 1
  MaxTabs = 1
  MaxSessions = 4
  MaxAccounts = 2
  MaxClock = 2
  MaxRequests = 5
SYMMETRY Symmetry
PROPERTY
  NotScooped
CHECK_DEADLOCK FALSE
