\* A mark dropped before the last JWT that carries the marked token has expired.
CONSTANTS
  Pair = {p1}
  None = None
  Lifetimes = {7}
  Margin = 1
  MaxTtl = 3
  RejectFor = 3
  CodeTtl = 1
  Window = 3
  MaxTime = 7
SPECIFICATION Spec
PROPERTIES DroppedWhenExpired
