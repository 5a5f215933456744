SPECIFICATION Spec
CONSTANTS
    s1 = s1
    s2 = s2
    r1 = r1
    r2 = r2
    i1 = i1
    NoSession = NoSession
    Sessions = {s1, s2}
    Requests = {r1, r2}
    RequestOf <- OwnRequests
    Instances = {i1}
    InstanceOf <- OneServer
    Balance = 3
    MaxAmount = 2
    MaxFaults = 0
    MaxCredits = 0
    MaxEarnings = 1
    Disconnecting = {}
    TokenBalance = 3
    Exempt = {}
    MaxRetries = 0
    MaxCrashes = 0
INVARIANTS
    ProjectionAligned
