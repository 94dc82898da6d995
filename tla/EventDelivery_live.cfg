SPECIFICATION FairSpec
CONSTANTS
    v1 = v1  v2 = v2
    Vendors = {v1, v2}
    Priorities = {1, 2}
    MaxRetries = 2
    DrainLimit = 1
    WatermarkExpires = TRUE
    MaxEvents = 2
PROPERTIES
    DueIsServed
CHECK_DEADLOCK FALSE
