INIT Init
NEXT Next
CONSTANTS
    Client = {c1, c2}
    Email = {e1, e2}
    Section = {s1, s2}
    MaxIds = 2
    MaxWatches = 1
    PilotLimit = 1
    MaxSections = 1
    Holder = {h1, h2}
    Endpoint = {b1, b2}
    PushJob = {j1}
    MaxKeys = 2
    MaxPush = 1
    MaxAddresses = 2
    MaxRecent = 10000
    Worker = {w1, w2}
    Page = {g1, g2}
    MaxMails = 2
    Watcher = {u1, u2}
    Sweeper = {x1, x2}
    WindowMs = 2
    MaxFresh = 1
    MaxNow = 6
    Fetcher = {f1, f2}
    ClassPage = {p1, p2}
    Elsewhere = {q1}
    MaxRedirects = 1
    MaxCycles = 2
    MaxChanges = 1
    MaxOrphans = 1
    Cycler = {k1, k2}
    Recipient = {r1}
    MaxClaims = 1
    Publisher = {d1, d2}
    Incident = {i1, i2}
    MaxLapses = 1
    Letter = {"a", "b"}
    MaxPattern = 4
    MaxPath = 3
INVARIANTS
    CompanionTypes
    CapacityHeld
    ActivatedIffConfirmed
    PushCapHeld
    EnabledBrowserKept
    OneNotificationPerJob
    OneMailPerEpisode
    OneDisclosurePerWindow
    
    MatcherAgrees
    OneEventPerIncident
    ClaimAnsweredOnce
CHECK_DEADLOCK FALSE
