SPECIFICATION FairRecoverySpec
CONSTANTS
    s1 = s1
    s2 = s2
    r1 = r1
    r2 = r2
    i1 = i1
    i2 = i2
    NoSession = NoSession
    Sessions = {s1, s2}
    Requests = {r1, r2}
    RequestOf <- OwnRequests
    Instances = {i1, i2}
    InstanceOf <- TwoServers
    Balance = 3
    MaxAmount = 2
    MaxFaults = 1
    MaxCredits = 0
    MaxEarnings = 0
    Disconnecting = {}
    TokenBalance = 4
    Exempt = {s2}
    MaxRetries = 0
    MaxCrashes = 1
INVARIANTS
    WalletConserved
    RecoveryRealigns
    LateEndsAgree
    ChargedAtMostUse
PROPERTIES
    EveryHoldEnds
