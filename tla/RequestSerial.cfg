SPECIFICATION Spec
CONSTANTS
  N = 3
  Kind <- PurchaseKind
  Threshold <- PurchaseThreshold
  ReviewOf <- PurchaseReview
  Workers = {w1}
  Amounts = {1}
  StaffSeen = {"staffed", "blocked"}
  Faults = TRUE
PROPERTIES OrderedWhenApproved ImplementsPromise
CHECK_DEADLOCK FALSE
