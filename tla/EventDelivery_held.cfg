SPECIFICATION FairSpec
CONSTANTS
    v1 = v1  v2 = v2
    Vendors = {v1}
    Priorities = {1}
    MaxRetries = 1
    DrainLimit = 2
    WatermarkExpires = FALSE
    MaxEvents = 2
PROPERTIES
    HeldEventsFollow
CHECK_DEADLOCK FALSE
