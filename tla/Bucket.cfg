SPECIFICATION FairSpec
CONSTANTS
  Keys = {1, 2}
  SmallValues = {s1}
  LargeValues = {l1}
  Missing = Missing
  InR2 = InR2
  NoAnswer = NoAnswer
  Writers = {w1, w2}
  Readers = {r1}
  Exporters = {e1}
  PageSize = 1
  MaxWrites = 2
  MaxReads = 1
  MaxExports = 1
  MaxR2Failures = 1
  MaxCrashes = 1
INVARIANTS AcknowledgedWritesHold ReadsObserveAWrite ExportIsComplete DeletedBucketIsEmpty
PROPERTIES CallsAreAnswered
CHECK_DEADLOCK FALSE
