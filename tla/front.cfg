SPECIFICATION FrontSpec
CONSTANTS
  Nil = Nil
  None = None
  s1 = s1
  s2 = s2
  Tenant = {1, 2, 3}
  User = {u1}
  ApiKey = {k1}
  Customer = {c1}
  Org = {o1}
  Subject = {x1}
  Cap <- Caps
  Call = {a1, a2}
  Request = {r1}
  PageLimit = 1
  MaxCalls = 3
  Submission = {s1, s2}
  Owner <- OneOwner
  BaseCents <- TwoPrices
  DefaultCap = 5
  MaxUnits = 2
  MaxMonth = 1
  Get = {g1, g2}
  Node = {n1, n2}
  Gateway = gw
  CacheFor = 2
  FetchMax = 1
  OldRows = 3
  MaxStops = 3
INVARIANTS KeyIsOwned RevokedIsRefused CurrentIsAudited ListingIsComplete OvershootIsInFlight AnswerIsRecent ServedIsMigrated
PROPERTIES HashedIsKept ReadinessRecovers
CHECK_DEADLOCK FALSE
