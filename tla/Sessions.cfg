CONSTANTS
  u1 = u1
  u2 = u2
  a1 = a1
  a2 = a2
  a3 = a3
  t1 = t1
  t2 = t2
  d1 = d1
  w1 = w1
  w2 = w2
  None = None
  Users <- TheUsers
  Sids <- TheSids
  Tokens <- TheTokens
  Devices <- TheDevices
  Phones <- ThePhones
  Workers <- TheWorkers
SPECIFICATION Spec
SYMMETRY Symmetry
CHECK_DEADLOCK FALSE
INVARIANTS OneActivePerFamily TokenSpentOnce
PROPERTIES RevocationIsComplete SilencedByOwnerOnly
