\* Two users, two /token requests at any time up to the end of the window of the
\* first refresh, with a rotating refresh token, so that spending one twice shows.
CONSTANTS
  Login = {l1, l2}
  Request = {r1, r2}
  None = None
  Rotating = TRUE
  RefreshTtl = 1
  Window = 1
  MaxTime = 1
SPECIFICATION FairSpec
INVARIANTS NoCachedFailure OwnSession
PROPERTIES SpentOnce RequestsAnswered ImplementsSharedRefresh
