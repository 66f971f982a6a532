SPECIFICATION Spec
CONSTANTS
  Subscriber = {s1}
  Poller = {p1, p2}
  Reasons = {"seats-open"}
  FreshFor = 0
  MaxTime = 0
  MaxOpenings = 2
  MaxCrashes = 1
  MaxOrder = 7
INVARIANTS
  OneAlertPerOpening
  ReadStaysCurrent
PROPERTIES
  GoneRetiresOnlyEarlier
SYMMETRY ObservationSymmetry
