SPECIFICATION Spec
CONSTANTS
    Accounts = {a1}
    Requests = {q1}
    Keys = {k1, k2}
    MaxInt = 2
    MaxAmount = 1
    NoRow = NoRow
    Procs = {p1, p2}
    Kinds = {"credit", "create", "increase", "settle", "release", "adjust", "consume", "rebuild"}
SYMMETRY Symmetry
INVARIANTS
    CopiesCurrent
    SingleOperationNoLockCycle
PROPERTIES
    ImplementsLedger
