CONSTANTS
  Amount = 1
  Outcomes = {"paid", "failed"}
  PaidAmounts = {1, 2}
  Partial = 50
  MaxCrashes = 1
  h1 = h1
  h2 = h2
  r1 = r1
  r2 = r2
  Handlers <- OneHandler
  RefundIds <- OneRefund
SPECIFICATION FairSpec
PROPERTIES
  RefundsSettle
  PendingIsResolved
CHECK_DEADLOCK FALSE
