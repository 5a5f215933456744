SPECIFICATION FairSpec
CONSTANTS
    u1 = u1
    u2 = u2
    pre1 = pre1
    more1 = more1
    settle1 = settle1
    pre2 = pre2
    Users = {u1, u2}
    Operations <- MCOperations
    UserOf <- MCUserOf
    Detached <- MCDetached
    Waits = {w1, w2, w3}
    NoWait = NoWait
INVARIANTS
    OneTurnPerUser
    SendNeverBlocks
    EntryWhileReferenced
PROPERTIES
    EveryWaitEnds
