SPECIFICATION Spec
CONSTANTS
    o1 = o1  o2 = o2  v1 = v1  v2 = v2
    Orders = {o1, o2}
    Vendors = {v1, v2}
    Qty <- MCQty
    OpeningStock <- MCScarce
    Actors = {"vendor"}
    Workers = {w1}
    Admins = {a1}
    MaxCallbacks = 0
    MaxRequests = 0
INVARIANTS
    SettledOnce
    StatusFollowsSlices
PROPERTIES
    
    ImplementsSettlement
CHECK_DEADLOCK FALSE
