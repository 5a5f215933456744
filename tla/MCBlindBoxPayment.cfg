SPECIFICATION Spec
CONSTANTS
    Orders = {o1, o2}
    None = None
SYMMETRY OrderSymmetry
VIEW PageView
INVARIANTS
    OneBatchPerPaidOrder
    AnnouncedBoxesExist
    AckedBoxesMinted
