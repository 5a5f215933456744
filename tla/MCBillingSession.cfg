SPECIFICATION FairSpec
CONSTANTS
    s1 = s1
    s2 = s2
    r1 = r1
    r2 = r2
    i1 = i1
    NoSession = NoSession
    Sessions = {s1, s2}
    Requests = {r1, r2}
    RequestOf <- OwnRequests
    Instances = {i1}
    InstanceOf <- OneServer
    Balance = 3
    MaxAmount = 2
    MaxFaults = 2
    MaxCredits = 1
    MaxEarnings = 0
    Disconnecting = {s1}
    TokenBalance = 3
    Exempt = {}
    MaxRetries = 1
    MaxCrashes = 0
INVARIANTS
    TypeOK
    ProjectionAligned
    TokenBalanced
    NoHoldLeftBehind
    ReceiptMatchesLedger
PROPERTIES
    EverySessionEnds
