SPECIFICATION HistorySpec
CONSTANTS
  Job = {"link"}
  Kind <- MCKind
  Owner <- MCOwner
  Reason <- MCReason
  Subscriber = {"ann"}
  NoSubscriber = "nobody"
  Dispatcher = {d1}
  AlertExpiry = 2
  RetryHorizon = 2
  Lease = 1
  MaxDispatch = 1
  BatchSize = 2
  MaxBackoff = 1
  ProviderWindow = 3
  MaxTime = 2
  LastEnqueue = 0
  MaxClaims = 2
  MaxCrashes = 0
PROPERTIES
  IncidentKeptUntilResolved
