SPECIFICATION Spec
CONSTANTS
  N = 3
  Kind <- StockFirstKind
  Threshold <- StockFirstThreshold
  ReviewOf <- StockFirstReview
  Workers = {w1, w2}
  Amounts = {1}
  StaffSeen = {"staffed"}
  Faults = TRUE
INVARIANTS TypeOK OnePending InChainOrder StatusFollowsChain
PROPERTIES TerminalIsFinal DecidedRowsAreHistory
SYMMETRY Symmetry
CONSTRAINT InOrder
CHECK_DEADLOCK FALSE
