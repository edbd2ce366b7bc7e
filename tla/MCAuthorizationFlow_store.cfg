\* The client store at its cap, with registered and self-chosen ids, expiry and
\* the cleanup timer; one login keeps the rest of the flow going.
CONSTANTS
  Client = {c1, c2, c3}
  Uuid = {c3}
  Redirect = {r1, r2}
  Allowed = {r1}
  Verifier = {v1}
  User = {u1}
  BrokerState = {s1}
  Code = {k1}
  None = None
  PendingTtl = 1
  CodeTtl = 1
  ClientTtl = 0
  MaxClients = 2
  MaxTime = 2
  MaxRegistrations = 4
SPECIFICATION FairSpec
PROPERTIES OldestEvicted ExpiredForgotten
