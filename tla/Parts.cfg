CONSTANTS
  Callbacks = {t1, t2}
  Issuers = {i1, i2}
  Jtis = {j1, j2}
  NoOne = NoOne
  CLOCK_SKEW = 0
  Lifetime = 1
  MaxAhead = 1
  SsoMaxClock = 1
  Poller = poller
  Probes = {q}
  Passwords = {p1, p2}
  Sids = {s1, s2, s3, s4}
  NoSid = NoSid
  Dropped = Dropped
  Hooks = {h1}
  Pairs = {a1, a2}
  Tags = {g}
  MaxSaves = 2
  Jobs = {t1, t2}
  Generations = {1, 2}
  MaxKills = 1
  Prime = 13
  Order = 5
  D = 6
  GX = 4
  GY = 8
  YLimit = 16
  NoValue = NoValue
  MinSpan = 2
  FlatDays = 4
  Raw = {"alerts"}
  Other = {"cluster_unhealthy"}
  Unscoped = Unscoped
  Dangling = Dangling
  Instants = {0, 1, 3, 4}
  Levels = {0, 1, 3}
  Buckets = {1, 2, 3}
  Size = 2
SPECIFICATION Spec
SYMMETRY Threads
INVARIANTS TypeOK ReplaysBounded SavedWasRight CalmPollsSucceed HooksKeepUp FilesGoTogether
  VerifiesEquation TrendsSound OverviewConsistent
PROPERTIES AcceptedUnderConfig
CHECK_DEADLOCK FALSE
