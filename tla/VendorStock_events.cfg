SPECIFICATION Spec
CONSTANTS
    main = main
    branch = branch
    id1 = id1  id2 = id2  id3 = id3  id4 = id4
    Warehouses = {main}
    DefaultWarehouse = main
    OpeningRows = {main}
    Opening <- MCOpeningFive
    OpeningLedger = 5
    Events <- MCEvents
    EventIds <- MCEventIds
    NoEvent = NoEvent
    Workers = {w1}
    OrderQtys = {2}
    ExpectedQtys = {3}
    Reports <- MCReports
    ProductSaves = TRUE
    MaxSingleEventQty = 3
    MaxOrders = 2
    MaxCorrections = 1
    MaxApplied = 2
INVARIANTS
    
    AppliedAtMostOnce
PROPERTIES
    SeqNeverRegresses
CHECK_DEADLOCK FALSE
