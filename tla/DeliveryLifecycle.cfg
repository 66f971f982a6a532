SPECIFICATION Spec
CONSTANTS
  Job = {"alert", "link"}
  Kind <- MCKind
  Owner <- MCOwner
  Reason <- MCReason
  Subscriber = {"ann"}
  NoSubscriber = "nobody"
  Dispatcher = {d1, d2}
  AlertExpiry = 2
  RetryHorizon = 2
  Lease = 1
  MaxDispatch = 1
  BatchSize = 2
  MaxBackoff = 1
  ProviderWindow = 3
  MaxTime = 3
  LastEnqueue = 0
  MaxClaims = 2
  MaxCrashes = 0
INVARIANTS
  TypeOK
  AlertBacked
PROPERTIES
  SendsStopAtDeadline
  SuppressionHolds
  IncidentLostOnlyToPurge
SYMMETRY WorkerSymmetry
