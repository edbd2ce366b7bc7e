\* Two logins in flight at once: two users, two broker states, two codes, two
\* clients with a verifier each.
CONSTANTS
  Client = {c1, c2}
  Uuid = {}
  Redirect = {r1}
  Allowed = {r1}
  Verifier = {v1, v2}
  User = {u1, u2}
  BrokerState = {s1, s2}
  Code = {k1, k2}
  None = None
  PendingTtl = 0
  CodeTtl = 0
  ClientTtl = 3
  MaxClients = 2
  MaxTime = 1
  MaxRegistrations = 2
SYMMETRY Symmetry
SPECIFICATION Spec
INVARIANTS TypeOK BoundToRequest UsedOnce
PROPERTIES CodeKept ImplementsCodeGrant
