SPECIFICATION WorkerFairSpec
CONSTANTS
    w1 = w1
    w2 = w2
    AccountIDs = {1, 2}
    Events = {1, 2, 3}
    AccountOf <- ThreeEvents
    Broken = {1}
    Workers = {w1, w2}
    AccountBatch = 1
    EventBatch = 2
    MaxAttempts = 3
    MaxFaults = 1
INVARIANTS
    EffectsOnce
PROPERTIES
    EveryEventPublished
