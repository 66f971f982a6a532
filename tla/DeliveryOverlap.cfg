SPECIFICATION Spec
CONSTANTS
  Job = {"ops", "ops2"}
  Kind <- MCKind
  Owner <- MCOwner
  Reason <- MCReason
  Subscriber = {}
  NoSubscriber = "nobody"
  Dispatcher = {d1, d2}
  AlertExpiry = 2
  RetryHorizon = 2
  Lease = 1
  MaxDispatch = 1
  BatchSize = 2
  MaxBackoff = 1
  ProviderWindow = 3
  MaxTime = 4
  LastEnqueue = 0
  MaxClaims = 3
  MaxCrashes = 1
INVARIANTS
  DispatchInv
  AtMostOneEmail
  LeaseExclusive
  OneIncidentPerDeadLetter
PROPERTIES
  TerminalIsFinal
SYMMETRY WorkerSymmetry
