SPECIFICATION FairViewSpec
CONSTANTS
  a = a
  b = b
  Urls = {a}
  Query = 2
  ChannelsOf <- MCChannelsOf
  Matching = {a}
  Writers = {w1, w2}
  Page = {w1}
  Readers = {1, 2}
  MaxRuns = 2
  MaxOps = 2
INVARIANTS CursorsCover
PROPERTY ListConverges
CHECK_DEADLOCK FALSE
