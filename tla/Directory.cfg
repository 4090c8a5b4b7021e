CONSTANTS
  b1 = b1
  b2 = b2
  u1 = u1
  u2 = u2
  s1 = s1
  i1 = i1
  i2 = i2
  n1 = n1
  w1 = w1
  w2 = w2
  None = None
  Businesses <- TheBusinesses
  Users <- TheUsers
  Services <- TheServices
  Invitations <- TheInvitations
  Names <- TheNames
  Workers <- TheWorkers
SPECIFICATION Spec
SYMMETRY Symmetry
CHECK_DEADLOCK FALSE
INVARIANTS OwnerStays StaffConsistent LinksStayInBusiness
PROPERTIES RefusedMeansOverlap
