SPECIFICATION FairSpec
CONSTANTS
  Tabs = {t1, t2}
  Free = Free
  UseLock = TRUE
  PageSize = 1
  MaxLog = 2
  MaxStarts = 3
  MaxExpiries = 1
  MaxClears = 1
PROPERTIES DeliveryHolds StreamsEnd
CHECK_DEADLOCK FALSE
