SPECIFICATION Spec
CONSTANTS
  Entity = {e1, e2}
INVARIANTS SelectRefusalSurfaces
CHECK_DEADLOCK FALSE
