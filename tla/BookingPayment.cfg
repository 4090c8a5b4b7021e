CONSTANTS
  Amount = 1
  Outcomes = {"paid", "failed"}
  PaidAmounts = {1, 2}
  Partial = 50
  MaxCrashes = 0
  h1 = h1
  h2 = h2
  r1 = r1
  r2 = r2
  Handlers <- TwoHandlers
  RefundIds <- OneRefund
SPECIFICATION Spec
SYMMETRY Symmetric
INVARIANTS
  SlotHeldIffBlocking
  PaymentMatchesBooking
  MemoryHolds
  NoSuccessSwallowed
PROPERTY
  BookingLifecycle
CHECK_DEADLOCK FALSE
