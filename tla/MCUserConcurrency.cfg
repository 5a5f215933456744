SPECIFICATION FairSpec
CONSTANTS
    Requests = {r1, r2}
    Limit = 1
    TTL = 5
    RenewInterval = 2
    Timeout = 1
    Attempts = 2
INVARIANTS
    WithinLimit
PROPERTIES
    SlotFreed
