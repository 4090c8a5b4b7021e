CONSTANTS
  b1 = b1
  b2 = b2
  s1 = s1
  s2 = s2
  w1 = w1
  w2 = w2
  None = None
  Bookings <- TheBookings
  Staff <- TheStaff
  Workers <- TheWorkers
  Ratings <- TheRatings
  Price = 2
  Deposit = 1
  MaxReceipts = 2
SPECIFICATION Spec
SYMMETRY Symmetry
CHECK_DEADLOCK FALSE
INVARIANTS AuditMatchesReceipts RatingsMatchReviews
PROPERTIES OverpaidMeansOverlap
