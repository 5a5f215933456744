SPECIFICATION FairSpec
CONSTANTS
    n1 = n1
    n2 = n2
    Nodes = {n1, n2}
    Amounts = {5000}
    InitialBalance = 10100
    MaxPosts = 2
    MaxIds = 2
INVARIANTS
    AcknowledgedOrPending
    OneUnresolved
PROPERTIES
    RejectedNotCommitted
    EveryTransferAcknowledged
