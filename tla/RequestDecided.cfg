SPECIFICATION FairSpec
CONSTANTS
  N = 2
  Kind <- ShortKind
  Threshold <- ShortThreshold
  ReviewOf <- ShortReview
  Workers = {w1}
  Amounts = {1}
  StaffSeen = {"staffed", "vacant", "blocked"}
  Faults = FALSE
PROPERTY EventuallyDecided
CHECK_DEADLOCK FALSE
