SPECIFICATION Spec
CONSTANTS
    main = main
    branch = branch
    id1 = id1  id2 = id2  id3 = id3  id4 = id4
    Warehouses = {main}
    DefaultWarehouse = main
    OpeningRows = {main}
    Opening <- MCOpeningBoth
    OpeningLedger = 2
    Events <- MCTwoEvents
    EventIds <- MCEventIds
    NoEvent = NoEvent
    Workers = {w1}
    OrderQtys = {1}
    ExpectedQtys = {}
    Reports = {}
    ProductSaves = FALSE
    MaxSingleEventQty = 3
    MaxOrders = 1
    MaxCorrections = 0
    MaxApplied = 1
INVARIANTS
    LedgerAgrees
CHECK_DEADLOCK FALSE
