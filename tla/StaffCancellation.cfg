CONSTANTS
  Amount = 2
  Outcomes = {"paid"}
  PaidAmounts = {2}
  Partial = 50
  MaxCrashes = 0
  h1 = h1
  h2 = h2
  r1 = r1
  r2 = r2
  Handlers <- OneHandler
  RefundIds <- TwoRefunds
SPECIFICATION Spec
INVARIANT
  StaffCancellationRefundsAll
CHECK_DEADLOCK FALSE
