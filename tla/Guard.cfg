SPECIFICATION GuardSpec
CONSTANTS
  Subjects = {"requests", "frames", "audit"}
  c = c
  d = d
  e = e
  user = user
  other = other
  Segments = {c, d, e}
  Frames <- FrameInFrame
  Claims <- OwnOrDeeper
  FirstGrants <- EarlierLogins
  MaxSiteEvents = 5
  Accounts = {user, other}
  AuditRules = {1, 2, 3, 4}
  AccountOf <- UserOfRule
  SitesOf <- SitesOfRule
  StartChoices <- WithOrWithoutLink
  FirstRules <- ManyOrFew
  PageSize = 1
  MaxAuditEvents = 4
  Sources <- SiteAndFrame
  Kinds = {"read", "notice", "stream", "logout"}
  MaxRequests = 2
  MaxRules = 2
  MaxOutside = 1
  None = None
CHECK_DEADLOCK FALSE
INVARIANTS
  AnswersStand
  SitesFollowApprovals
  UnpromptedIsUpward
  RevokesAreConfirmed
PROPERTIES
  ForwardsAreAllowed
  RequestsEnd
