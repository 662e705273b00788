CONSTANTS
  Ips = {ip1, ip2}
  Names = {n1, n2}
  LoginRequests = {r1, r2}
  LOGIN_WINDOW = 2
  LOGIN_MAX_PER_USER = 1
  LOGIN_MAX_PER_IP = 2
  SweepAbove = 2
  NoAttempt = NoAttempt
  PinHosts = {h1}
  Urls = {u1, u2}
  Https = {u1}
  Certs = {c1, c2}
  NoCert = NoCert
  Editors = {e1, e2}
SPECIFICATION Spec
INVARIANTS TypeOK BudgetKept TokenOnlyToPinned PinFromOwnUrl
PROPERTIES LockoutEnds NeitherOutlives ExpiryConverges
CHECK_DEADLOCK FALSE
