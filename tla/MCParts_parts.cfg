\* One pair of Creatio tokens, two addresses, two requests, two objects, two
\* sessions of one tenant.
CONSTANTS
  Pair = {p1}
  None = None
  Lifetimes <- EachKindOfLifetime
  Margin = 1
  MaxTtl = 2
  RejectFor = 2
  CodeTtl = 2
  Window = 3
  MaxTime = 8
  Inputs <- SmallInputs
  Address = {k1, k2}
  WindowMs = 2
  MaxRequests = 2
  LimiterTime = 4
  ApiRequest = {r1, r2}
  BearerToken <- TwoTokens
  Carried <- EachCarriesOne
  Entity = {e1, e2}
  Text <- Texts
  DateLike <- Dates
  Guid <- Guids
  Tenant = {t1}
  Server = {m1, m2}
  Object = {o1, o2}
  Setting = {}
  Published = "published"
  Order <- PublishedOnly
  PublishedApp = {a1, a2}
  MaxTenants = 1
  IdleTtl = 0
  Cooldown = 1
  SessionsTime = 1
  r1 = r1
  r2 = r2
  a = a
  g1 = g1
  g2 = g2
SPECIFICATION PartsSpec
CHECK_DEADLOCK FALSE
INVARIANTS PartsTypeOK RejectionFinal CappedByCredential LimitKept OneLogin RetryRenewed LoginsBounded AccessKept TrailTells Confirmed DialectsAgree ContentAccounted RtfTextKept
PROPERTIES RequestEnds ProbesEnd StopEnds
