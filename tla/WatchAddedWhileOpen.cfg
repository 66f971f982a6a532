SPECIFICATION HistorySpec
CONSTANTS
  Subscriber = {s1}
  Poller = {p1}
  Reasons = {"seats-open"}
  FreshFor = 1
  MaxTime = 1
  MaxOpenings = 1
  MaxCrashes = 0
  MaxOrder = 5
PROPERTIES
  AlertsOnlyAfterReopening
