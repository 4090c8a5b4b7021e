CONSTANTS
  r1 = r1
  r2 = r2
  r3 = r3
  c1 = c1
  c2 = c2
  s1 = s1
  s2 = s2
  None = None
  Requests <- ThreeRequests
  Customers <- TwoCustomers
  Staff <- TwoStaff
  Dates <- TwoDates
  DayLength = 6
  MaxNow = 1
  Duration = 2
  Lead = 1
  Advance = 1
  PayWindow = 1
  MaxActive = 1
  Asks <- SomeAsks
  HoursInputs <- SomeHours
  StaffInputs <- SomeWeeks
  MaxEdits = 1
SPECIFICATION Spec
SYMMETRY Symmetry
CHECK_DEADLOCK FALSE
INVARIANTS NoDoubleBooking ActiveLimit OffersMatchSchedules
PROPERTIES OfferedIsAccepted BookedWithinSchedule
