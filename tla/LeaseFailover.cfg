SPECIFICATION FairLeaseSpec
CONSTANTS
    Poller = {w1, w2}
    MaxErrors = 1
    MaxLosses = 1
    MaxDeaths = 1
INVARIANTS
    MarkerTruth
PROPERTIES
    LeaseRetaken
