SPECIFICATION BoxSpec
CONSTANTS
  Shared = Shared
  Unknown = Unknown
  NotFound = NotFound
  m1 = m1
  m2 = m2
  m3 = m3
  red = red
  blue = blue
  TagsOf <- MCTagsOf
  PageLimits <- SmallPages
  Ids = {i1}
  Accounts = {1}
  Workers = {v1, v2}
  Senders = {s1, s2}
  Readers = {c1}
  MaxRows = 3
  MaxSends = 3
  MaxCrashes = 1
  MaxQueries = 1
  Messages = {m1, m2, m3}
  Queries <- PickyQuery
PROPERTIES EndMeansEverything QueriesEnd
CHECK_DEADLOCK FALSE
