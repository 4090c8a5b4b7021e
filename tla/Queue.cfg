CONSTANTS
  b1 = b1
  b2 = b2
  b3 = b3
  s1 = s1
  s2 = s2
  a1 = a1
  a2 = a2
  NoStaff = NoStaff
  Bookings <- TwoBookings
  Scheduled <- OneScheduled
  Staff <- OneStaff
  Agents <- TwoAgents
  MaxQueueVersion = 3
  MaxVersion = 5
SPECIFICATION Spec
SYMMETRY SymmetricAgents
INVARIANTS
  CommandMemory
  EntryMatchesBooking
  NoOrphanReservation
PROPERTIES
  QueueLifecycle
  NobodyPassesWhoWaits
CHECK_DEADLOCK FALSE
