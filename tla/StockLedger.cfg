SPECIFICATION Spec
CONSTANTS
  store = store
  van = van
  Places <- TwoPlaces
  People = {u1}
  Lots = {1, 2}
  LotPlace <- LotsInStore
  MaxStock = 2
  MaxIssued = 2
  MaxReceipts = 2
  Workers = {w1, w2}
SYMMETRY Symmetry
INVARIANTS TypeOK LedgerIsTruth ReservedIsThere NobodyReturnsMore
CHECK_DEADLOCK FALSE
