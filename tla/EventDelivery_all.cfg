SPECIFICATION Spec
CONSTANTS
    v1 = v1  v2 = v2
    Vendors = {v1, v2}
    Priorities = {1}
    MaxRetries = 2
    DrainLimit = 3
    WatermarkExpires = TRUE
    MaxEvents = 3
INVARIANTS
    TypeOK
    InOrder
    NothingLost
SYMMETRY VendorSymmetry
CHECK_DEADLOCK FALSE
