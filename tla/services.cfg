CONSTANTS
  Attempts = {a1, a2}
  Usernames = {"alice", "bob"}
  Clients = {"east"}
  LockKey <- MCLockKey
  UsernameLimit = 2
  UsernameWindow = 3
  ClientLimit = 1
  ClientWindow = 1
  MaxRateClock = 3
  MaxReservations = 6
  SignIns = {c1, c2}
  MaxLoginClock = 1
  MaxFailures = 6
  Callers = {c1, c2}
  IdleFor = 2
  AbsoluteFor = 3
  TouchInterval = 1
  MaxAuthClock = 2
  MaxSessions = 2
  Fetches = {f1, f2}
  MinInterval = 0
  MaxAttempts = 2
  MaxRedirects = 1
  RobotsTtl = 1
  BackoffBase = 1
  BackoffCap = 1
  MaxRetryAfter = 1
  CrawlDelays = {1}
  RetryAfters = {0, 3}
  MaxPaceClock = 2
  Syncs = {s1, s2}
  Releases <- MCReleases
  MaxNumber = 10
  Publishers = {p1, p2}
  LeaseFor = 2
  RetryAfter = 1
  MaxPublishAttempts = 2
  OutboxSize = 2
  MaxOutboxClock = 4
  Processes = {p1, p2}
  Jobs = {j1}
  Urls = {"u1", "u2"}
  Contents = {"c1", "c2"}
  Etag <- MCEtag
  NoEtag = NoEtag
  JobAttempts = 2
  Nothing = Nothing
SPECIFICATION ServicesSpec
INVARIANTS
  SuccessWasPersisted
  WindowsHold
  SomeAttemptProceeds
  EveryFailureCounts
  RequestsAreBounded
  OneReleaseAtATime
  PublishedByLastLease
PROPERTIES
  NotModifiedIsCurrent
  RevokedIsFinal
  StartsAreSpaced
