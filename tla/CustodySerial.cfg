SPECIFICATION Spec
CONSTANTS
  Users = {u1, u2}
  NoUser = NoUser
  MaxRows = 3
  MaxTransfers = 2
  Targets <- AssetStatuses
  Workers = {w1}
SYMMETRY Symmetry
INVARIANTS TypeOK OneCustodian
PROPERTIES HolderHasHandover CustodyIsEvidenced
CHECK_DEADLOCK FALSE
