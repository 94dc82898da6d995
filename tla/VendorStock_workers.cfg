SPECIFICATION Spec
CONSTANTS
    main = main
    branch = branch
    id1 = id1  id2 = id2  id3 = id3  id4 = id4
    Warehouses = {main, branch}
    DefaultWarehouse = main
    OpeningRows = {main}
    Opening <- MCOpening
    OpeningLedger = 2
    Events <- MCThreeEvents
    EventIds <- MCEventIds
    NoEvent = NoEvent
    Workers = {w1, w2}
    OrderQtys = {1}
    ExpectedQtys = {1, 3}
    Reports = {}
    ProductSaves = FALSE
    MaxSingleEventQty = 3
    MaxOrders = 2
    MaxCorrections = 1
    MaxApplied = 1
INVARIANTS
    TypeOK
    StockNonNegative
CHECK_DEADLOCK FALSE
