SPECIFICATION Spec
CONSTANTS
  Subscriber = {s1, s2}
  Poller = {p1}
  Reasons = {"seats-open", "waitlist-open"}
  FreshFor = 0
  MaxTime = 1
  MaxOpenings = 1
  MaxCrashes = 0
  MaxOrder = 5
PROPERTIES
  NoStaleOpening
  NoSilentOpening
  NotModifiedAgrees
SYMMETRY ObservationSymmetry
