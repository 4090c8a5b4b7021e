CONSTANTS
  Amount = 2
  Outcomes = {"paid"}
  PaidAmounts = {2}
  Partial = 50
  MaxCrashes = 0
  h1 = h1
  h2 = h2
  r1 = r1
  r2 = r2
  Handlers <- TwoHandlers
  RefundIds <- TwoRefunds
SPECIFICATION Spec
SYMMETRY Symmetric
INVARIANTS
  RefundsMatchPayment
  MoneyIsBacked
PROPERTIES
  LedgerImplemented
  PaymentLifecycle
CHECK_DEADLOCK FALSE
