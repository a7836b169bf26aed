SPECIFICATION Spec
CONSTANTS
  Requests = {r1, r2}
  Units = {u1, u2}
  Workers = {w1, w2}
  NoUnit = none
INVARIANTS  ReservedIsHeld
SYMMETRY Symmetry
CHECK_DEADLOCK FALSE
