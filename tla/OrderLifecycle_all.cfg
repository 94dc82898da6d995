SPECIFICATION Spec
CONSTANTS
    o1 = o1  o2 = o2  v1 = v1  v2 = v2
    Orders = {o1}
    Vendors = {v1}
    Qty <- MCQty
    OpeningStock <- MCStock
    Actors = {"vendor", "admin", "gateway", "expiry", "redemption"}
    Workers = {w1}
    Admins = {a1}
    MaxCallbacks = 1
    MaxRequests = 3
INVARIANTS
    TypeOK
    StockNonNegative
    DeliveredIsDeducted
CHECK_DEADLOCK FALSE
