SPECIFICATION Spec
CONSTANTS
    a = a
    b = b
    SessionIds = {a, b}
    MaxRequests = 2
    MaxMessages = 2
SYMMETRY SessionSymmetry
INVARIANTS
    OwnAnswersOnly
    BusyWhileLive
    NoStuckAnswer
PROPERTIES
    CancelledStays
