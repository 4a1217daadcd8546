SPECIFICATION PagesSpec
CONSTANTS
  Subjects = {"login", "batch", "media", "consent", "creation", "handle", "actor", "copies", "identity", "object", "labels"}
  t1 = t1
  t2 = t2
  app = app
  other = other
  Tabs = {t1, t2}
  Site <- TwoApps
  Actors = {a1}
  None = None
  Stated = {1}
  MaxAsks = 2
  MaxDetours = 1
  MaxLogouts = 1
  MaxGets = 3
  Asks <- SomeAsks
  Stored <- SomeBytes
  OldEndpoints = {"old"}
  BatchKeys = 3
  BatchBytes = 5
  MaxFaults = 1
  v1 = v1
  v2 = v2
  anonymous = anonymous
  user = user
  m1 = m1
  m2 = m2
  MaxImages = 1
  Undefined = Undefined
  MaxEvents = 3
  a1 = a1
  a2 = a2
  a3 = a3
  a4 = a4
  Accounts = {a1, a2, a3, a4}
  StartCookies <- GivenUpOrComplete
  NewAccounts = {a4}
  Complete = {a1, a3}
  Visitors = {a1, a2}
  VisitorCookies <- NoneOrTwo
  Holders = {a2}
  NoAccount = NoAccount
  Failed = Failed
  MaxPageEvents = 3
  Names = {n1, n2, nb}
  BadNames = {nb}
  Domains = {d1, d2}
  BadDomains = {}
  NoText = NoText
  MaxFormEvents = 6
  Windows = {t1}
  Own = {1, 2, 3}
  External = {9}
  NoActor = 0
  Unknown = Unknown
  Revisits = TRUE
  MaxActorEvents = 9
  MaxPosts = 2
  MaxSent = 3
  MaxMixed = 1
  Views = {v1, v2}
  Handles = {n1, n2}
  Leaving = Leaving
  MaxIdentityEvents = 3
  u1 = u1
  u2 = u2
  Urls = {u1, u2}
  Users = {anonymous, user}
  Audience <- PublicAndPrivate
  InProcess = TRUE
  Null = Null
  MaxGetEvents = 2
  i1 = i1
  i2 = i2
  Inboxes = {i1, i2, Shared}
  Shared = Shared
  OwnerOf <- OneOwner
  AccountOf <- OneToken
  Labels = {1, 2}
  Nobody = Nobody
  Absent = Absent
  MayRace = FALSE
  MaxMessages = 2
  MaxCalls = 3
INVARIANTS AnswersFit AnswersAreOwn ViewsAreOwn ApprovalsAreForOwners PiecesAreOfTheNewAccount OffersAreChecked NewKeysAreSaved ValidCopiesAreTrue DeletionsReachReaders IdentitiesAreAnswered
PROPERTY PagesSettle
CHECK_DEADLOCK FALSE
