SPECIFICATION RecoverySpec
CONSTANTS
    s1 = s1
    s2 = s2
    r1 = r1
    r2 = r2
    i1 = i1
    i2 = i2
    NoSession = NoSession
    Sessions = {s1, s2}
    Requests = {r1}
    RequestOf <- SameRequest
    Instances = {i1, i2}
    InstanceOf <- TwoServers
    Balance = 3
    MaxAmount = 2
    MaxFaults = 1
    MaxCredits = 0
    MaxEarnings = 1
    Disconnecting = {s1}
    TokenBalance = 3
    Exempt = {}
    MaxRetries = 1
    MaxCrashes = 1
INVARIANTS
    EndsAgree
    ChargedAtMostUse
