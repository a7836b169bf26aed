SPECIFICATION Spec
CONSTANTS
  Requests = {r1}
  Estimate <- OneEach
  Vendors = {v1, v2}
  MaxRfqs = 1
  MaxOrders = 2
  Lines = {l1, l2}
  Ordered <- OneOfEach
  Deliveries <- LineByLine
  Amounts = {1, 2}
  Workers = {w1, w2}
SYMMETRY Symmetry
CONSTRAINT OneOvertaken
INVARIANTS TypeOK SpendingIsCovered MoneyFollowsTheOrder OnlyTheWinnerIsOrdered OrderFollowsItsLines
CHECK_DEADLOCK FALSE
