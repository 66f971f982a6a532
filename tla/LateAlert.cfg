SPECIFICATION HistorySpec
CONSTANTS
  Job = {"alert"}
  Kind <- MCKind
  Owner <- MCOwner
  Reason <- MCReason
  Subscriber = {"ann"}
  NoSubscriber = "nobody"
  Dispatcher = {d1}
  AlertExpiry = 2
  RetryHorizon = 2
  Lease = 1
  MaxDispatch = 2
  BatchSize = 2
  MaxBackoff = 1
  ProviderWindow = 4
  MaxTime = 4
  LastEnqueue = 0
  MaxClaims = 2
  MaxCrashes = 0
PROPERTIES
  NoExpiredAlertDelivered
