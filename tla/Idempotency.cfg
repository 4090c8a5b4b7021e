CONSTANTS
  r1 = r1
  r2 = r2
  r3 = r3
  p1 = p1
  p2 = p2
  NoRequest = NoRequest
  Requests <- ThreeRequests
  Payloads <- TwoPayloads
SPECIFICATION Spec
SYMMETRY Symmetry
CHECK_DEADLOCK FALSE
INVARIANTS ReplayIsTrue
PROPERTIES OutcomeStays OutcomeImplemented
