\* A refresh that starts between the two halves of a revocation.
CONSTANTS
  Login = {l1}
  Request = {r1, r2, r3}
  None = None
  Rotating = TRUE
  RefreshTtl = 1
  Window = 1
  MaxTime = 2
SYMMETRY Symmetry
SPECIFICATION Spec
INVARIANTS RevokedNotReplayed
