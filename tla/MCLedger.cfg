SPECIFICATION Spec
CONSTANTS
    Accounts = {a1}
    Requests = {q1}
    Keys = {k1, k2, k3}
    MaxInt = 3
    MaxAmount = 2
    NoRow = NoRow
SYMMETRY KeySymmetry
INVARIANTS
    TypeOK
    SnapshotMatchesLedger
    FundsConserved
    OneEndPerHold
PROPERTIES
    JournalAppendOnly
