SPECIFICATION Spec
CONSTANTS
  Rows = {r1, r2, r3}
  Holders = {u1, u2, u3}
  Workers = {w1, w2}
  MaxSeats = 3
  MaxDelta = 1
SYMMETRY Symmetry
INVARIANTS TypeOK CounterWithinAllocation CounterFollowsRows DeletedLicenseHasNoSeats
PROPERTY ImplementsAllotment
CHECK_DEADLOCK FALSE
